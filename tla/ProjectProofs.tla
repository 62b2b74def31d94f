------------------------------ MODULE ProjectProofs ------------------------------
(* The proofs about a project on one machine and about its Airflows, for any   *)
(* terminals, admins, objects, projects, Deployments and versions:             *)
(*                                                                             *)
(*   - that a change to an environment object keeps what it does not mean to   *)
(*     change (EnvObjects, LinksSurvive);                                      *)
(*   - that a test of an upgrade reports on its own project and versions       *)
(*     (UpgradeTest, ReportsItsOwn);                                           *)
(*   - that a start serves, a kill leaves nothing, the database is not opened  *)
(*     by a server that cannot read it, and the files a command changes come   *)
(*     back (DockerProject);                                                   *)
(*   - that an import, an export and a copy are whole, and that importing what *)
(*     was exported changes nothing (AirflowObjects).                          *)
(*                                                                             *)
(* Every part has an inductive invariant of its own: what the step that each   *)
(* terminal is at says of what others share with it, as long as no other came  *)
(* between.                                                                    *)
(*******************************************************************************)
EXTENDS MCProject, WellFoundedInduction, TLAPS

-----------------------------------------------------------------------------
(* Environment objects. What a command has read is the object as it was,   *)
(* without its secrets, and whatever of it is no longer so is known to     *)
(* have been changed by another.                                           *)

\* What a command that is about to write has read.
Knows(a) ==
    pc[a] = "write" =>
        \E g \in Fields :
            /\ seen[a] = Redacted(cmd[a].o, g)
            /\ \A x \in Field : g[x] # object[cmd[a].o].f[x] => x \in raced[a]

IInv == TypeOK /\ \A a \in Admin : Knows(a)

-----------------------------------------------------------------------------
(* Commands and fields.                                                    *)

Kinds == {"create", "update", "delete", "link", "unlink", "exclude", "unexclude"}

LEMMA CommandsFit ==
  \A c \in Commands :
      /\ c.kind \in Kinds /\ c.o \in Object
      /\ c.kind \in {"create", "update"} => c.v \in Value
      /\ c.kind = "create" => c.auto \in BOOLEAN
      /\ c.kind = "update" => c.auto \in BOOLEAN \union {None}
      /\ c.kind = "link" => c.v \in Value \union {None}
      /\ c.kind \in {"link", "unlink", "exclude", "unexclude"} => c.d \in Deployment
  BY DEF Commands, Command, Kinds, Object

\* What the fields are, and what their parts are.
LEMMA FieldShape ==
  /\ TheValue \in Field /\ AutoLink \in Field
  /\ \A d \in Deployment : Link(d) \in Field /\ Override(d) \in Field /\ Exclude(d) \in Field
  /\ \A x \in Field :
        \/ x = TheValue \/ x = AutoLink
        \/ \E d \in Deployment : x = Link(d) \/ x = Override(d) \/ x = Exclude(d)
  BY DEF Field, Facets, TheValue, AutoLink, Link, Override, Exclude

LEMMA FieldParts ==
  /\ TheValue[1] = "value" /\ AutoLink[1] = "auto" /\ TheValue # AutoLink
  /\ \A d : /\ Link(d)[1] = "link" /\ Override(d)[1] = "override" /\ Exclude(d)[1] = "exclude"
            /\ Link(d)[2] = d /\ Override(d)[2] = d
            /\ \A e : Link(d) # Override(e) /\ Link(d) # Exclude(e) /\ Override(d) # Exclude(e)
  BY DEF TheValue, AutoLink, Link, Override, Exclude
-----------------------------------------------------------------------------
(* What an update does to an object.                                       *)

\* Command c, which read g, is about to patch object o, which has fields old.
Patching(c, o, g, old) ==
    /\ c \in Commands /\ c.o = o /\ c.kind \in {"update", "link", "unlink", "unexclude"}
    /\ g \in Fields /\ old \in Fields

\* A field the command is not asked to change is as it was, or as it was read,
\* or it is the own value of a link that came or went meanwhile.
LEMMA PatchedFields ==
  ASSUME NEW c, NEW o, NEW g, NEW old, Patching(c, o, g, old),
         NEW x \in Field, x \notin Asked(c),
         Patched(o, old, Body(c, Redacted(o, g)))[x] # old[x]
  PROVE  \/ /\ g[x] # old[x]
            /\ Patched(o, old, Body(c, Redacted(o, g)))[x] = Redacted(o, g)[x]
         \/ x[1] = "override" /\ Link(x[2]) \in Field /\ g[Link(x[2])] # old[Link(x[2])]
<1> DEFINE f == Redacted(o, g)
           b == Body(c, f)
           new == Patched(o, old, b)
<1>1. \A y \in Field : f[y] = IF y = TheValue /\ o \in Secret THEN None
                              ELSE IF y[1] = "override" /\ o \in Secret \union Other THEN None
                              ELSE g[y]
  BY DEF Redacted
<1>2. \A y \in Field : b[y] = IF c.kind = "update" /\ y = TheValue THEN c.v
                              ELSE IF c.kind = "update" /\ y = AutoLink /\ c.auto # None THEN c.auto
                              ELSE IF c.kind = "link" /\ y = Link(c.d) THEN TRUE
                              ELSE IF c.kind = "link" /\ y = Override(c.d) THEN c.v
                              ELSE IF c.kind = "unlink" /\ y = Link(c.d) THEN FALSE
                              ELSE IF c.kind = "unexclude" /\ y = Exclude(c.d) THEN FALSE
                              ELSE f[y]
  BY DEF Body, Changed
<1>3. new[x] = IF x = TheValue THEN (IF b[x] = None /\ o \in Secret THEN old[x] ELSE b[x])
               ELSE IF x[1] = "override"
               THEN (IF ~b[Link(x[2])] THEN None ELSE IF b[x] = None THEN old[x] ELSE b[x])
               ELSE b[x]
  BY DEF Patched
<1>4. /\ c.kind = "update" => x # TheValue /\ (c.auto # None => x # AutoLink)
      /\ c.kind = "link" => x # Link(c.d) /\ (c.v # None => x # Override(c.d))
      /\ c.kind = "unlink" => x # Link(c.d) /\ x # Override(c.d)
      /\ c.kind = "unexclude" => x # Exclude(c.d)
  BY DEF Asked
<1> HIDE DEF f, b, new
<1>5. b[x] = f[x] \/ (c.kind = "link" /\ x = Override(c.d) /\ c.v = None /\ b[x] = None)
  BY <1>4, <1>2
<1> USE DEF Patching
<1>6. CASE x = TheValue
  <2>1. b[x] = f[x]
    BY <1>5, <1>6, FieldParts
  <2> QED  BY <1>1, <1>3, <1>6, <2>1, FieldParts DEF f, b, new
<1>7. CASE x[1] = "override"
  <2>1. PICK d \in Deployment : x = Override(d)
    BY <1>7, FieldShape, FieldParts
  <2>2. x[2] = d /\ Link(d) \in Field /\ x # TheValue
    BY <2>1, FieldShape, FieldParts
  <2>3. old[x] # None => old[Link(d)]
    BY <2>1 DEF Fields
  <2>4. CASE ~b[Link(d)]
    <3>1. old[Link(d)]
      BY <1>3, <1>7, <2>2, <2>3, <2>4 DEF f, b, new
    <3>2. f[Link(d)] = g[Link(d)]
      BY <1>1, <2>2, FieldParts
    <3>3. Link(d) # TheValue /\ Link(d) # AutoLink /\ Link(d) # Override(c.d)
          /\ Link(d) # Exclude(c.d) /\ (Link(d) = Link(c.d) => d = c.d)
      BY FieldParts
    <3>4. b[Link(d)] = f[Link(d)]
      BY <1>4, <1>2, <2>1, <2>2, <2>4, <3>3
    <3> QED  BY <1>7, <2>2, <2>4, <3>1, <3>2, <3>4
  <2>5. CASE b[Link(d)]
    <3>1. b[x] # None /\ new[x] = b[x]
      BY <1>3, <1>7, <2>2, <2>5 DEF f, b, new
    <3>2. b[x] = f[x]
      BY <1>5, <3>1
    <3>3. f[x] = g[x]
      BY <1>1, <2>2, <3>1, <3>2
    <3> QED  BY <3>1, <3>2, <3>3 DEF f, b, new
  <2> QED  BY <2>4, <2>5
<1>8. CASE x # TheValue /\ x[1] # "override"
  <2>1. b[x] = f[x]
    BY <1>5, <1>8, FieldParts
  <2>2. f[x] = g[x] /\ new[x] = b[x]
    BY <1>1, <1>3, <1>8
  <2> QED  BY <2>1, <2>2 DEF f, b, new
<1> QED  BY <1>6, <1>7, <1>8

\* ... and the object is still one.
LEMMA PatchedIsFields ==
  ASSUME NEW c, NEW o, NEW g, NEW old, Patching(c, o, g, old)
  PROVE  Patched(o, old, Body(c, Redacted(o, g))) \in Fields
<1> DEFINE f == Redacted(o, g)
           b == Body(c, f)
           new == Patched(o, old, b)
<1> USE DEF Patching
<1>1. new[TheValue] \in Value
  BY FieldShape, FieldParts, CommandsFit DEF Redacted, Body, Changed, Patched, Fields
<1>2. new[AutoLink] \in BOOLEAN
  BY FieldShape, FieldParts, CommandsFit DEF Redacted, Body, Changed, Patched, Fields
<1>3. ASSUME NEW d \in Deployment
      PROVE  /\ new[Link(d)] \in BOOLEAN /\ new[Exclude(d)] \in BOOLEAN
             /\ new[Override(d)] \in Value \union {None}
             /\ new[Override(d)] # None => new[Link(d)]
  <2> DEFINE L == Link(d)
             E == Exclude(d)
             O == Override(d)
  <2>1. /\ L \in Field /\ E \in Field /\ O \in Field
        /\ L[1] = "link" /\ E[1] = "exclude" /\ O[1] = "override"
        /\ {L, E, O} \intersect {TheValue, AutoLink} = {}
        /\ L # Override(c.d) /\ L # Exclude(c.d) /\ E # Link(c.d) /\ E # Override(c.d)
        /\ O # Link(c.d) /\ O # Exclude(c.d)
    BY FieldShape, FieldParts
  <2>2. g[L] \in BOOLEAN /\ g[E] \in BOOLEAN /\ g[O] \in Value \union {None}
    BY DEF Fields
  <2> HIDE DEF L, E, O
  <2>3. f[L] = g[L] /\ f[E] = g[E] /\ (f[O] = None \/ f[O] = g[O])
    BY <2>1 DEF Redacted
  <2>4. /\ b[L] = TRUE \/ b[L] = FALSE \/ b[L] = f[L]
        /\ b[E] = FALSE \/ b[E] = f[E]
        /\ (c.kind = "link" /\ b[O] = c.v) \/ b[O] = f[O]
    <3> HIDE DEF f
    <3> QED  BY <2>1 DEF Body, Changed
  <2>5. new[L] = b[L] /\ new[E] = b[E]
    <3> HIDE DEF b
    <3> QED  BY <2>1 DEF Patched
  <2>6. new[Link(d)] = b[Link(d)] /\ b[Link(d)] \in BOOLEAN
    BY <2>2, <2>3, <2>4, <2>5 DEF L
  <2>7. new[Exclude(d)] \in BOOLEAN
    BY <2>2, <2>3, <2>4, <2>5 DEF E
  <2>8. b[Override(d)] \in Value \union {None}
    BY <2>2, <2>3, <2>4, CommandsFit DEF O
  <2>9. new[Override(d)] = IF ~b[Link(d)] THEN None
                           ELSE IF b[Override(d)] = None THEN old[Override(d)]
                           ELSE b[Override(d)]
    BY FieldShape, FieldParts DEF Patched
  <2> QED  BY <2>6, <2>7, <2>8, <2>9 DEF Fields
<1>4. new = [x \in Field |-> new[x]]
  BY DEF Patched
<1>5. \A x \in Field : new[x] \in Value \union BOOLEAN \union {None}
  BY <1>1, <1>2, <1>3, FieldShape
<1> HIDE DEF new
<1> QED  BY <1>1, <1>2, <1>3, <1>4, <1>5 DEF Fields, new
-----------------------------------------------------------------------------
(* The invariant.                                                          *)

LEMMA InitIInv == Init => IInv
  BY DEF Init, IInv, TypeOK, Knows

\* Fields that a command's call sets one by one.
LEMMA ExcludedIsFields ==
  ASSUME NEW f \in Fields, NEW d \in Deployment
  PROVE  [f EXCEPT ![Exclude(d)] = TRUE] \in Fields
  BY FieldShape, FieldParts DEF Fields

LEMMA FreshIsFields ==
  ASSUME NEW v \in Value, NEW auto \in BOOLEAN PROVE Fresh(v, auto) \in Fields
<1> DEFINE f == Fresh(v, auto)
<1>1. f[TheValue] = v /\ f[AutoLink] = auto
  BY FieldShape, FieldParts DEF Fresh
<1>2. \A d \in Deployment : f[Link(d)] = FALSE /\ f[Exclude(d)] = FALSE /\ f[Override(d)] = None
  BY FieldShape, FieldParts DEF Fresh
<1>3. f = [x \in Field |-> f[x]]
  BY DEF Fresh
<1>4. \A x \in Field : f[x] \in Value \union BOOLEAN \union {None}
  BY <1>1, <1>2, FieldShape
<1> HIDE DEF f
<1> QED  BY <1>1, <1>2, <1>3, <1>4 DEF Fields, f

LEMMA Storing ==
  ASSUME IInv, NEW a \in Admin, NEW o \in Object,
         NEW g \in [live : BOOLEAN, f : Fields], Store(a, o, g), UNCHANGED begun
  PROVE  IInv'
<1>1. TypeOK'
  BY DEF Store, IInv, TypeOK
<1>2. Knows(a)'
  BY DEF Store, IInv, TypeOK, Knows
<1>3. ASSUME NEW b \in Admin, b # a PROVE Knows(b)'
  <2> SUFFICES ASSUME pc[b] = "write" PROVE Knows(b)'
    BY <1>3 DEF Store, IInv, TypeOK, Knows
  <2>1. cmd'[b] = cmd[b] /\ seen'[b] = seen[b] /\ cmd[b].o \in Object
    BY <1>3, CommandsFit DEF Store, IInv, TypeOK
  <2>2. raced'[b] = IF cmd[b].o = o THEN raced[b] \union {x \in Field : object[o].f[x] # g.f[x]}
                    ELSE raced[b]
    BY <1>3 DEF Store, IInv, TypeOK
  <2>3. object'[cmd[b].o] = IF cmd[b].o = o THEN g ELSE object[cmd[b].o]
    BY <2>1 DEF Store, IInv, TypeOK
  <2> QED  BY <2>1, <2>2, <2>3 DEF IInv, Knows
<1> QED  BY <1>1, <1>2, <1>3 DEF IInv

LEMMA CreateKeeps == ASSUME IInv, NEW a \in Admin, Create(a) PROVE IInv'
<1> DEFINE g == [live |-> TRUE, f |-> Fresh(cmd[a].v, cmd[a].auto)]
<1>1. cmd[a].o \in Object /\ g \in [live : BOOLEAN, f : Fields]
  BY CommandsFit, FreshIsFields DEF Create, IInv, TypeOK
<1>2. Store(a, cmd[a].o, g) /\ UNCHANGED begun
  BY DEF Create
<1> HIDE DEF g
<1> QED  BY <1>1, <1>2, Storing

\* What a command that patches knows of the object as it was read.
LEMMA AsRead ==
  ASSUME IInv, NEW a \in Admin, Patch(a)
  PROVE  \E g \in Fields :
            /\ seen[a] = Redacted(cmd[a].o, g)
            /\ Patching(cmd[a], cmd[a].o, g, object[cmd[a].o].f)
            /\ \A x \in Field : g[x] # object[cmd[a].o].f[x] => x \in raced[a]
  BY CommandsFit DEF Patch, IInv, TypeOK, Knows, Patching

LEMMA PatchKeeps == ASSUME IInv, NEW a \in Admin, Patch(a) PROVE IInv'
<1> DEFINE o == cmd[a].o
           f == Patched(o, object[o].f, Body(cmd[a], seen[a]))
<1>1. o \in Object /\ f \in Fields
  BY AsRead, PatchedIsFields, CommandsFit DEF Patching
<1>2. Store(a, o, [object[o] EXCEPT !.f = f]) /\ UNCHANGED begun
  BY DEF Patch
<1> HIDE DEF o, f
<1>3. [object[o] EXCEPT !.f = f] \in [live : BOOLEAN, f : Fields]
  BY <1>1 DEF IInv, TypeOK
<1> QED  BY <1>1, <1>2, <1>3, Storing

LEMMA ExcludeLinkingKeeps == ASSUME IInv, NEW a \in Admin, ExcludeLinking(a) PROVE IInv'
<1> DEFINE o == cmd[a].o
           f == [object[o].f EXCEPT ![Exclude(cmd[a].d)] = TRUE]
<1>1. o \in Object /\ cmd[a].d \in Deployment
  BY CommandsFit DEF ExcludeLinking, IInv, TypeOK
<1>2. object[o] \in [live : BOOLEAN, f : Fields] /\ f \in Fields
  BY <1>1, ExcludedIsFields DEF IInv, TypeOK
<1>3. Store(a, o, [object[o] EXCEPT !.f = f]) /\ UNCHANGED begun
  BY <1>2 DEF ExcludeLinking
<1> HIDE DEF o, f
<1>4. [object[o] EXCEPT !.f = f] \in [live : BOOLEAN, f : Fields]
  BY <1>2
<1> QED  BY <1>1, <1>3, <1>4, Storing

LEMMA DeleteKeeps == ASSUME IInv, NEW a \in Admin, Delete(a) PROVE IInv'
<1> DEFINE o == cmd[a].o
<1>1. o \in Object
  BY CommandsFit DEF Delete, IInv, TypeOK
<1>2. [object[o] EXCEPT !.live = FALSE] \in [live : BOOLEAN, f : Fields]
  BY <1>1 DEF IInv, TypeOK
<1> QED  BY <1>1, <1>2, Storing DEF Delete

LEMMA OthersKeep == ASSUME IInv, NEW a \in Admin, Begin(a) \/ Read(a) \/ Stop(a) PROVE IInv'
<1>1. TypeOK'
  <2>1. ASSUME NEW o \in Object
        PROVE  Redacted(o, object[o].f) \in [Field -> Value \union BOOLEAN \union {None}]
    BY DEF Redacted, Fields, IInv, TypeOK
  <2>2. pc[a] # "idle" => cmd[a].o \in Object
    BY CommandsFit DEF IInv, TypeOK
  <2> QED  BY <2>1, <2>2 DEF Begin, Read, Stop, IInv, TypeOK
<1>2. CASE Begin(a) \/ Stop(a)
  <2> SUFFICES ASSUME NEW b \in Admin, pc'[b] = "write" PROVE Knows(b)'
    BY <1>1 DEF IInv, Knows
  <2>1. b # a
    BY <1>2 DEF Begin, Stop, IInv, TypeOK
  <2>2. /\ pc'[b] = pc[b] /\ cmd'[b] = cmd[b] /\ seen'[b] = seen[b] /\ raced'[b] = raced[b]
        /\ UNCHANGED object
    BY <1>2, <2>1 DEF Begin, Stop, IInv, TypeOK
  <2> QED  BY <2>2 DEF IInv, Knows
<1>3. CASE Read(a)
  <2>1. cmd[a].o \in Object /\ object[cmd[a].o].f \in Fields
    BY <1>3, CommandsFit DEF Read, IInv, TypeOK
  <2>2. seen' = [seen EXCEPT ![a] = Redacted(cmd[a].o, object[cmd[a].o].f)]
        /\ UNCHANGED <<object, cmd, raced>>
    BY <1>3 DEF Read
  <2>3. Knows(a)'
    <3>1. seen'[a] = Redacted(cmd[a].o, object[cmd[a].o].f)
      BY <2>2 DEF IInv, TypeOK
    <3> QED  BY <2>1, <2>2, <3>1 DEF Knows
  <2>4. ASSUME NEW b \in Admin, b # a PROVE Knows(b)'
    <3>1. pc'[b] = pc[b] /\ seen'[b] = seen[b]
      BY <1>3, <2>4 DEF Read, IInv, TypeOK
    <3> QED  BY <2>2, <3>1 DEF IInv, Knows
  <2> QED  BY <1>1, <2>3, <2>4 DEF IInv
<1> QED  BY <1>2, <1>3

LEMMA NextIInv == IInv /\ [Next]_vars => IInv'
<1> SUFFICES ASSUME IInv, [Next]_vars PROVE IInv'
  OBVIOUS
<1>1. CASE UNCHANGED vars
  BY <1>1 DEF vars, IInv, TypeOK, Knows
<1>2. CASE Next
  BY <1>2, CreateKeeps, PatchKeeps, ExcludeLinkingKeeps, DeleteKeeps, OthersKeep DEF Next
<1> QED  BY <1>1, <1>2

-----------------------------------------------------------------------------
(* Theorems.                                                               *)

\* The type of the state, and that what a command has read is kept track of.
THEOREM Typed == Spec => []TypeOK
<1>1. IInv => TypeOK
  BY DEF IInv
<1> QED  BY <1>1, InitIInv, NextIInv, PTL DEF Spec

\* The change of a field x of a live object o, and why it may be changed.
Explained(a, o, x) ==
    /\ pc[a] # "idle" /\ pc'[a] = "idle" /\ cmd[a].o = o
    /\ \/ x \in Asked(cmd[a])
       \/ x \in raced[a] /\ object'[o].f[x] = seen[a][x]
       \/ x[1] = "override" /\ Link(x[2]) \in raced[a]

\* Storing an object changes that one only.
LEMMA StoresOne ==
  ASSUME IInv, NEW a \in Admin, NEW p \in Object, NEW g, Store(a, p, g),
         NEW o \in Object, object'[o] # object[o]
  PROVE  o = p /\ object'[o] = g /\ pc'[a] = "idle"
  BY DEF Store, IInv, TypeOK

\* A patch, by what PatchedFields says of it.
LEMMA PatchExplained ==
  ASSUME IInv, NEW a \in Admin, Patch(a), NEW o \in Object, NEW x \in Field,
         object'[o].f[x] # object[o].f[x]
  PROVE  Explained(a, o, x)
<1> DEFINE p == cmd[a].o
           f == Patched(p, object[p].f, Body(cmd[a], seen[a]))
           new == [object[p] EXCEPT !.f = f]
<1>1. p \in Object /\ Store(a, p, new) /\ pc[a] = "write"
  BY CommandsFit DEF Patch, IInv, TypeOK
<1>2. new.f = f
  BY <1>1 DEF IInv, TypeOK
<1>3. o = p /\ object'[o] = new /\ pc'[a] = "idle"
  <2> HIDE DEF p, new
  <2> QED  BY <1>1, StoresOne
<1>4. f[x] # object[p].f[x] /\ object'[o].f[x] = f[x]
  BY <1>2, <1>3
<1>5. SUFFICES ASSUME x \notin Asked(cmd[a])
               PROVE  \/ x \in raced[a] /\ f[x] = seen[a][x]
                      \/ x[1] = "override" /\ Link(x[2]) \in raced[a]
  BY <1>1, <1>3, <1>4 DEF Explained
<1>6. PICK g \in Fields :
            /\ seen[a] = Redacted(p, g)
            /\ Patching(cmd[a], p, g, object[p].f)
            /\ \A y \in Field : g[y] # object[p].f[y] => y \in raced[a]
  BY AsRead
<1>7. Patched(p, object[p].f, Body(cmd[a], Redacted(p, g)))[x] # object[p].f[x]
  BY <1>4, <1>6
<1>8. \/ /\ g[x] # object[p].f[x]
         /\ Patched(p, object[p].f, Body(cmd[a], Redacted(p, g)))[x] = Redacted(p, g)[x]
      \/ x[1] = "override" /\ Link(x[2]) \in Field /\ g[Link(x[2])] # object[p].f[Link(x[2])]
  <2> HIDE DEF p, f, new
  <2> QED  BY <1>5, <1>6, <1>7, PatchedFields
<1> QED  BY <1>6, <1>8

\* To exclude a Deployment changes what it was asked to.
LEMMA ExcludeExplained ==
  ASSUME IInv, NEW a \in Admin, ExcludeLinking(a), NEW o \in Object, NEW x \in Field,
         object'[o].f[x] # object[o].f[x]
  PROVE  Explained(a, o, x)
<1> DEFINE p == cmd[a].o
           f == [object[p].f EXCEPT ![Exclude(cmd[a].d)] = TRUE]
           new == [object[p] EXCEPT !.f = f]
<1>1. /\ p \in Object /\ pc[a] = "write" /\ cmd[a].kind = "exclude"
      /\ object[p] \in [live : BOOLEAN, f : Fields]
  BY CommandsFit DEF ExcludeLinking, IInv, TypeOK
<1>2. Store(a, p, new) /\ new.f = f
  BY <1>1 DEF ExcludeLinking
<1>3. o = p /\ object'[o] = new /\ pc'[a] = "idle"
  <2> HIDE DEF p, new
  <2> QED  BY <1>1, <1>2, StoresOne
<1>4. f[x] # object[p].f[x]
  BY <1>2, <1>3
<1>5. x = Exclude(cmd[a].d)
  BY <1>1, <1>4 DEF Fields
<1> QED  BY <1>1, <1>3, <1>5 DEF Explained, Asked

\* A command changes what it was asked to change of its object and leaves
\* the rest, but for what another has changed since it was read.
THEOREM LinksKept == Spec => LinksSurvive
<1>1. ASSUME IInv, [Next]_vars, NEW o \in Object, NEW x \in Field,
             object[o].live, object'[o].f[x] # object[o].f[x]
      PROVE  \E a \in Admin : Explained(a, o, x)
  <2>1. PICK a \in Admin : Begin(a) \/ Create(a) \/ Read(a) \/ Patch(a)
                          \/ ExcludeLinking(a) \/ Delete(a) \/ Stop(a)
    BY <1>1 DEF Next, vars
  <2>2. ~Begin(a) /\ ~Read(a) /\ ~Stop(a)
    BY <1>1 DEF Begin, Read, Stop
  <2>3. ~Create(a)
    <3> SUFFICES ASSUME Create(a) PROVE FALSE
      OBVIOUS
    <3> DEFINE g == [live |-> TRUE, f |-> Fresh(cmd[a].v, cmd[a].auto)]
    <3>1. cmd[a].o \in Object /\ Store(a, cmd[a].o, g) /\ ~object[cmd[a].o].live
      BY <1>1, CommandsFit DEF Create, IInv, TypeOK
    <3> HIDE DEF g
    <3> QED  BY <1>1, <3>1, StoresOne
  <2>4. ~Delete(a)
    <3> SUFFICES ASSUME Delete(a) PROVE FALSE
      OBVIOUS
    <3> DEFINE p == cmd[a].o
               g == [object[p] EXCEPT !.live = FALSE]
    <3>1. p \in Object /\ Store(a, p, g) /\ g.f = object[p].f
      BY <1>1, CommandsFit DEF Delete, IInv, TypeOK
    <3> HIDE DEF p, g
    <3> QED  BY <1>1, <3>1, StoresOne
  <2> QED  BY <1>1, <2>1, <2>2, <2>3, <2>4, PatchExplained, ExcludeExplained
<1>2. IInv /\ [Next]_vars =>
        [\A o \in Object, x \in Field :
           object[o].live /\ object'[o].f[x] # object[o].f[x] =>
             \E a \in Admin : Explained(a, o, x)]_vars
  BY <1>1
<1> QED  BY <1>2, InitIInv, NextIInv, PTL DEF Spec, LinksSurvive, Explained

-----------------------------------------------------------------------------
(* Tests of an upgrade. The directory of a test names its project and what *)
(* it is tested against; the image and its tag are the same for every test *)
(* of a project. A test that met no other finds in the image, and in its   *)
(* directory, what its steps so far have put there.                        *)

UReport == [freeze : [Versions -> Upgrade!Maybe], before : Upgrade!Maybe, after : Upgrade!Maybe,
            parsed : Upgrade!Maybe, linted : BOOLEAN]
UTree == [ignored : BOOLEAN, pytest : BOOLEAN,
          dockerfile : [Upgrade!Dir -> Versions \union {None}],
          reports : [Upgrade!Dir -> UReport]]
UTest == [project : Projects \union {None}, deployment : Against \union {None},
          new : Versions \union {None}, tests : TestAsks \union {{}},
          current : Versions \union {None}, passed : BOOLEAN, parsed : BOOLEAN]
Firsts == {"freeze", "rewrite", "build", "freeze_new", "compare"}
Lasts == {"upgrade", "require", "build_tests", "unrequire", "parse", "lint", "done"}

UTyped ==
    /\ image \in Upgrade!Maybe
    /\ tree \in [Projects -> UTree]
    /\ upc \in [Terminal -> {"idle", "base", "label"} \union Firsts \union Lasts]
    /\ test \in [Terminal -> UTest]
    /\ met \in [Terminal -> BOOLEAN]

\* What there is of t's test in its project: reports, the Dockerfile, and
\* whether pytest-html is required.
Reports(t) == tree[test[t].project].reports[Upgrade!Where(t)]
Rewritten(t) == tree[test[t].project].dockerfile[Upgrade!Where(t)]
Required(t) == tree[test[t].project].pytest

\* A test at l knows what it is of, and has rewritten the Dockerfile df before
\* it builds from it.
Aims(l, j, df) ==
    /\ l # "idle" => j.project \in Projects /\ j.new \in Versions
    /\ l \in Firsts \union Lasts => j.current \in Versions
    /\ l \in {"build", "require", "build_tests"} => df = j.new
    /\ j.parsed => l \in {"lint", "done"}

IsBase(j, i) == j.deployment = None => Upgrade!IsOf(i, j.project, RunsNow[j.project])
IsNew(j, i) == Upgrade!IsOf(i, j.project, j.new)

\* What test j at l, alone, finds in the image of that name and its reports r.
Finds(l, j, i, r, required) ==
    /\ l = "label" => IsBase(j, i)
    /\ l \in Firsts \union Lasts /\ j.deployment = None => j.current = RunsNow[j.project]
    /\ l = "freeze" => IsBase(j, i)
    /\ l = "freeze_new" => IsNew(j, i)
    /\ l \in {"rewrite", "build", "freeze_new", "compare"} => IsBase(j, r.freeze[j.current])
    /\ l = "compare" => IsNew(j, r.freeze[j.new])
    /\ l \in Lasts /\ "version" \in j.tests => IsNew(j, r.after) /\ IsBase(j, r.before)
    /\ l = "build_tests" => required
    /\ l = "parse" \/ (l = "unrequire" /\ j.passed) => IsNew(j, i) /\ i.pytest
    /\ j.parsed => IsNew(j, r.parsed) /\ r.parsed.pytest

TestAims == \A t \in Terminal : Aims(upc[t], test[t], Rewritten(t))
TestAlone ==
    \A t \in Terminal : ~met[t] /\ upc[t] # "idle" =>
        \A u \in Terminal \ {t} : upc[u] \in {"idle", "done"}
TestFinds ==
    \A t \in Terminal : ~met[t] => Finds(upc[t], test[t], image, Reports(t), Required(t))
DirsNamed ==
    \A p \in Projects, d \in Upgrade!Dir : tree[p].dockerfile[d] \in {None, d[2]}

UpgradeInv == UTyped /\ DirsNamed /\ TestAims /\ TestAlone /\ TestFinds
-----------------------------------------------------------------------------
(* One test's step.                                                        *)

\* What t's step leaves alone: the other tests, and every Dockerfile but for
\* one that names the version its directory is for.
TestStep(t) ==
    /\ upc[t] \notin {"idle", "done"}
    /\ \A u \in Terminal \ {t} : upc'[u] = upc[u] /\ test'[u] = test[u] /\ met'[u] = met[u]
    /\ upc'[t] = "idle" \/ met'[t] = met[t]
    /\ \A p \in Projects, d \in Upgrade!Dir :
          tree'[p].dockerfile[d] = tree[p].dockerfile[d] \/ tree'[p].dockerfile[d] = d[2]

LEMMA OthersAim ==
  ASSUME UpgradeInv, NEW u \in Terminal, upc'[u] = upc[u], test'[u] = test[u],
         \A p \in Projects, d \in Upgrade!Dir :
            tree'[p].dockerfile[d] = tree[p].dockerfile[d] \/ tree'[p].dockerfile[d] = d[2]
  PROVE  Aims(upc[u], test[u], Rewritten(u)')
<1> DEFINE p == test[u].project
           d == Upgrade!Where(u)
<1>1. Aims(upc[u], test[u], Rewritten(u))
  BY DEF UpgradeInv, TestAims
<1>2. CASE upc[u] \in {"build", "require", "build_tests"}
  <2>1. p \in Projects /\ test[u].current \in Versions /\ test[u].new \in Versions
    BY <1>1, <1>2 DEF Aims, Firsts, Lasts
  <2>2. d \in Upgrade!Dir /\ d[2] = test[u].new
    BY <2>1 DEF Upgrade!Where, Upgrade!Dir
  <2>3. Rewritten(u)' = tree'[p].dockerfile[d] /\ Rewritten(u) = tree[p].dockerfile[d]
    BY DEF Rewritten, Upgrade!Where
  <2>4. tree'[p].dockerfile[d] = tree[p].dockerfile[d] \/ tree'[p].dockerfile[d] = d[2]
    BY <2>1, <2>2
  <2> QED
    BY <1>1, <1>2, <2>2, <2>3, <2>4 DEF Aims
<1>3. CASE upc[u] \notin {"build", "require", "build_tests"}
  BY <1>1, <1>3 DEF Aims
<1> QED
  BY <1>2, <1>3

LEMMA TestSteps ==
  ASSUME UpgradeInv, NEW t \in Terminal, TestStep(t), UTyped',
         Aims(upc'[t], test'[t], Rewritten(t)'),
         ~met[t] /\ upc'[t] # "idle" =>
            Finds(upc'[t], test'[t], image', Reports(t)', Required(t)')
  PROVE  UpgradeInv'
<1>1. \A u \in Terminal \ {t} : upc[u] # "idle" => met[u]
  BY DEF UpgradeInv, TestAlone, TestStep
<1>2. TestAlone'
  BY <1>1 DEF UpgradeInv, TestAlone, TestStep
<1>3. ASSUME NEW u \in Terminal \ {t}
      PROVE  Aims(upc'[u], test'[u], Rewritten(u)')
  BY <1>3, OthersAim DEF TestStep
<1>4. TestAims'
  BY <1>3 DEF TestAims
<1>5. ASSUME NEW l, NEW j, NEW i, NEW r, NEW b, NEW df, l = "idle", Aims(l, j, df)
      PROVE  Finds(l, j, i, r, b)
  BY <1>5 DEF Aims, Finds, Firsts, Lasts
<1>6. ASSUME NEW u \in Terminal, ~met'[u]
      PROVE  Finds(upc'[u], test'[u], image', Reports(u)', Required(u)')
  <2>1. Aims(upc'[u], test'[u], Rewritten(u)')
    BY <1>4 DEF TestAims
  <2>2. CASE upc'[u] = "idle"
    BY <1>5, <2>1, <2>2
  <2>3. CASE upc'[u] # "idle"
    <3>1. u = t
      BY <1>1, <1>6, <2>3 DEF TestStep
    <3> QED
      BY <1>6, <2>3, <3>1 DEF TestStep
  <2> QED
    BY <2>2, <2>3
<1>7. TestFinds'
  BY <1>6 DEF TestFinds
<1>8. DirsNamed'
  BY DEF UpgradeInv, DirsNamed, TestStep
<1> QED
  BY <1>2, <1>4, <1>7, <1>8 DEF UpgradeInv

\* What a test that is under way is of.
LEMMA TestKnown ==
  ASSUME UpgradeInv, NEW t \in Terminal, upc[t] # "idle"
  PROVE  /\ test[t].project \in Projects /\ tree[test[t].project] \in UTree
         /\ test[t].new \in Versions /\ test[t] \in UTest
         /\ test[t].parsed => upc[t] \in {"lint", "done"}
         /\ ~met[t] => Finds(upc[t], test[t], image, Reports(t), Required(t))
         /\ upc[t] \in Firsts \union Lasts =>
               /\ test[t].current \in Versions /\ Upgrade!Where(t) \in Upgrade!Dir
               /\ Reports(t) \in UReport /\ Rewritten(t) \in Versions \union {None}
               /\ upc[t] \in {"build", "require", "build_tests"} => Rewritten(t) = test[t].new
<1>1. Aims(upc[t], test[t], Rewritten(t)) /\ tree \in [Projects -> UTree] /\ test \in [Terminal -> UTest]
  BY DEF UpgradeInv, TestAims, UTyped
<1>2. test[t].project \in Projects /\ test[t].new \in Versions /\ test[t].parsed => upc[t] \in {"lint", "done"}
  BY <1>1 DEF Aims
<1>2a. test[t].project \in Projects /\ test[t].new \in Versions
  BY <1>1 DEF Aims
<1>3. tree[test[t].project] \in UTree /\ test[t] \in UTest
  BY <1>1, <1>2a
<1>4. ASSUME upc[t] \in Firsts \union Lasts
      PROVE  /\ test[t].current \in Versions /\ Upgrade!Where(t) \in Upgrade!Dir
             /\ upc[t] \in {"build", "require", "build_tests"} => Rewritten(t) = test[t].new
  BY <1>1, <1>2a, <1>4 DEF Aims, Upgrade!Where, Upgrade!Dir
<1>5. ASSUME upc[t] \in Firsts \union Lasts
      PROVE  Reports(t) \in UReport /\ Rewritten(t) \in Versions \union {None}
  BY <1>3, <1>4, <1>5 DEF UTree, Reports, Rewritten
<1> QED
  BY <1>1, <1>2, <1>2a, <1>3, <1>4, <1>5 DEF UpgradeInv, TestFinds, Aims

\* A report is written: what the tree is then.
WritesTo(p, w, r) ==
    /\ tree' \in [Projects -> UTree]
    /\ tree'[p].reports[w] = r /\ tree'[p].pytest = tree[p].pytest
    /\ \A q \in Projects : tree'[q].dockerfile = tree[q].dockerfile

LEMMA ReportWritten ==
  ASSUME tree \in [Projects -> UTree], NEW p \in Projects, NEW w \in Upgrade!Dir, NEW r \in UReport,
         tree' = [tree EXCEPT ![p].reports[w] = r]
  PROVE  WritesTo(p, w, r)
<1> DEFINE rs == [tree[p].reports EXCEPT ![w] = r]
           tr == [tree[p] EXCEPT !.reports = rs]
<1>1. tree[p] \in UTree
  OBVIOUS
<1>2. rs \in [Upgrade!Dir -> UReport] /\ rs[w] = r
  BY <1>1 DEF UTree
<1>3. tr \in UTree /\ tr.reports = rs /\ tr.pytest = tree[p].pytest /\ tr.dockerfile = tree[p].dockerfile
  BY <1>1, <1>2 DEF UTree
<1>4. tree' = [tree EXCEPT ![p] = tr]
  OBVIOUS
<1> HIDE DEF rs, tr
<1>5. tree' \in [Projects -> UTree]
  BY <1>3, <1>4
<1>6. tree'[p] = tr
  BY <1>4
<1>7. \A q \in Projects : tree'[q].dockerfile = tree[q].dockerfile
  BY <1>3, <1>4
<1> QED
  BY <1>2, <1>3, <1>5, <1>6, <1>7 DEF WritesTo

\* One report of t's test becomes r, and the test j goes on at l.
LEMMA ReportSteps ==
  ASSUME UpgradeInv, NEW t \in Terminal, upc[t] \in Firsts \union Lasts, upc[t] # "done",
         NEW r \in UReport, tree' = [tree EXCEPT ![test[t].project].reports[Upgrade!Where(t)] = r],
         NEW l \in Firsts \union Lasts, upc' = [upc EXCEPT ![t] = l],
         NEW j \in UTest, test' = [test EXCEPT ![t] = j],
         j.project = test[t].project, j.new = test[t].new, j.current = test[t].current,
         j.parsed => l \in {"lint", "done"},
         l \notin {"build", "require", "build_tests"},
         UNCHANGED <<image, met>>,
         ~met[t] => Finds(l, j, image, r, Required(t))
  PROVE  UpgradeInv'
<1> DEFINE p == test[t].project
           w == Upgrade!Where(t)
<1>1. p \in Projects /\ w \in Upgrade!Dir /\ j.new \in Versions /\ j.current \in Versions
  BY TestKnown DEF Firsts, Lasts
<1>2. WritesTo(p, w, r)
  BY <1>1, ReportWritten DEF UpgradeInv, UTyped
<1>3. upc'[t] = l /\ test'[t] = j
  BY DEF UpgradeInv, UTyped
<1>4. UTyped'
  BY <1>2 DEF UpgradeInv, UTyped, WritesTo
<1>5. TestStep(t)
  BY <1>2 DEF UpgradeInv, UTyped, TestStep, WritesTo, Firsts, Lasts
<1>6. Aims(upc'[t], test'[t], Rewritten(t)')
  BY <1>1, <1>3 DEF Aims, Firsts, Lasts
<1>7. Reports(t)' = r /\ Required(t)' = Required(t)
  BY <1>2, <1>3 DEF Reports, Required, Upgrade!Where, WritesTo
<1>8. ~met[t] => Finds(upc'[t], test'[t], image', Reports(t)', Required(t)')
  BY <1>3, <1>7
<1> QED
  BY <1>4, <1>5, <1>6, <1>8, TestSteps

\* The test j goes on at l, and leaves the project as it is.
LEMMA PlainSteps ==
  ASSUME UpgradeInv, NEW t \in Terminal, upc[t] \notin {"idle", "done"},
         UNCHANGED <<tree, met>>, image' \in Upgrade!Maybe,
         NEW l \in Firsts \union Lasts \union {"label"}, upc' = [upc EXCEPT ![t] = l],
         NEW j \in UTest, test' = [test EXCEPT ![t] = j],
         Aims(l, j, tree[j.project].dockerfile[<<j.current, j.new>>]),
         ~met[t] => Finds(l, j, image', tree[j.project].reports[<<j.current, j.new>>],
                          tree[j.project].pytest)
  PROVE  UpgradeInv'
<1>1. upc'[t] = l /\ test'[t] = j
  BY DEF UpgradeInv, UTyped
<1>2. UTyped'
  BY DEF UpgradeInv, UTyped
<1>3. TestStep(t)
  BY DEF UpgradeInv, UTyped, TestStep
<1>4. /\ Reports(t)' = tree[j.project].reports[<<j.current, j.new>>]
      /\ Required(t)' = tree[j.project].pytest
      /\ Rewritten(t)' = tree[j.project].dockerfile[<<j.current, j.new>>]
  BY <1>1 DEF Reports, Required, Rewritten, Upgrade!Where
<1> QED
  BY <1>1, <1>2, <1>3, <1>4, TestSteps

\* The command ends without a summary.
LEMMA TestGivesUp ==
  ASSUME UpgradeInv, NEW t \in Terminal, upc[t] \notin {"idle", "done"}, Upgrade!GiveUp(t),
         image' \in Upgrade!Maybe, tree' \in [Projects -> UTree],
         \A p \in Projects, d \in Upgrade!Dir :
            tree'[p].dockerfile[d] = tree[p].dockerfile[d]
  PROVE  UpgradeInv'
<1>1. Upgrade!NoTest \in UTest /\ ~Upgrade!NoTest.parsed
  BY DEF Upgrade!NoTest, UTest
<1>2. upc'[t] = "idle" /\ test'[t] = Upgrade!NoTest
  BY DEF UpgradeInv, UTyped, Upgrade!GiveUp
<1>3. UTyped'
  BY <1>1 DEF UpgradeInv, UTyped, Upgrade!GiveUp
<1>4. TestStep(t)
  BY DEF UpgradeInv, UTyped, TestStep, Upgrade!GiveUp
<1>5. Aims(upc'[t], test'[t], Rewritten(t)')
  BY <1>1, <1>2 DEF Aims, Firsts, Lasts
<1> QED
  BY <1>2, <1>3, <1>4, <1>5, TestSteps

LEMMA Fails ==
  ASSUME UpgradeInv, NEW t \in Terminal, Upgrade!Fail(t)
  PROVE  UpgradeInv'
<1>1. /\ upc[t] \notin {"idle", "done"} /\ Upgrade!GiveUp(t) /\ UNCHANGED <<image, tree>>
  BY DEF Upgrade!Fail, Upgrade!Ended
<1>2. image' \in Upgrade!Maybe /\ tree' \in [Projects -> UTree]
  BY <1>1 DEF UpgradeInv, UTyped
<1> QED
  BY <1>1, <1>2, TestGivesUp

-----------------------------------------------------------------------------
(* The images.                                                             *)

LEMMA BuiltIs ==
  ASSUME UpgradeInv, NEW p \in Projects, NEW v \in Versions
  PROVE  /\ Upgrade!Built(p, v) \in Upgrade!Image /\ Upgrade!Built(p, v) # None
         /\ Upgrade!Built(p, v).of = p /\ Upgrade!Built(p, v).version = v
         /\ Upgrade!Built(p, v).pytest = tree[p].pytest
<1>1. tree[p].pytest \in BOOLEAN
  BY DEF UpgradeInv, UTyped, UTree
<1>2. Upgrade!Built(p, v) \in Upgrade!Image
  BY <1>1 DEF Upgrade!Built, Upgrade!Image, Upgrade!Place
<1>3. None \notin Upgrade!Image
  BY UpgradeSound DEF Upgrade!Sound, Upgrade!Image
<1> QED
  BY <1>2, <1>3 DEF Upgrade!Built

LEMMA NowRuns ==
  ASSUME NEW p \in Projects
  PROVE  RunsNow[p] \in Versions
  BY UpgradeSound DEF Upgrade!Sound, Upgrade!Place

LEMMA BaseKeeps ==
  ASSUME UpgradeInv, NEW t \in Terminal, Upgrade!Base(t)
  PROVE  UpgradeInv'
<1> DEFINE j == test[t]
           p == test[t].project
<1>1. /\ upc[t] = "base" /\ upc' = [upc EXCEPT ![t] = "label"]
      /\ UNCHANGED <<tree, test, met>>
      /\ image' = IF j.deployment = None THEN Upgrade!Built(p, RunsNow[p]) ELSE image
  BY DEF Upgrade!Base, Upgrade!Goto
<1>2. j \in UTest /\ test' = [test EXCEPT ![t] = j] /\ p \in Projects /\ j.new \in Versions
      /\ ~j.parsed
  BY <1>1, TestKnown DEF UpgradeInv, UTyped
<1>3. image' \in Upgrade!Maybe
  BY <1>1, <1>2, BuiltIs, NowRuns DEF Upgrade!Maybe, UpgradeInv, UTyped
<1>4. IsBase(j, image')
  BY <1>1, <1>2, BuiltIs, NowRuns DEF IsBase, Upgrade!IsOf
<1>5. \A df : Aims("label", j, df)
  BY <1>2 DEF Aims, Firsts, Lasts
<1>6. \A r, b : Finds("label", j, image', r, b)
  BY <1>2, <1>4 DEF Finds, Firsts, Lasts
<1> QED
  BY <1>1, <1>2, <1>3, <1>5, <1>6, PlainSteps

\* Where a test goes next.
LEMMA NextIs ==
  ASSUME NEW t \in Terminal, NEW n \in {0, 1, 2}
  PROVE  /\ Upgrade!Next1(t, n) \in {"freeze", "upgrade", "lint", "done"}
         /\ n > 0 \/ "version" \notin test[t].tests => Upgrade!Next1(t, n) # "freeze"
         /\ Upgrade!Next1(t, n) # "freeze" => n > 0 \/ "version" \notin test[t].tests
         /\ n = 2 => Upgrade!Next1(t, n) \in {"lint", "done"}
  BY DEF Upgrade!Next1

LEMMA LabelKeeps ==
  ASSUME UpgradeInv, NEW t \in Terminal, Upgrade!Label(t)
  PROVE  UpgradeInv'
<1> DEFINE l == Upgrade!Next1(t, 0)
           j == [test[t] EXCEPT !.current = image.version]
<1>1. /\ upc[t] = "label" /\ image # None /\ upc' = [upc EXCEPT ![t] = l]
      /\ UNCHANGED <<image, tree, met>> /\ test' = [test EXCEPT ![t] = j]
  BY DEF Upgrade!Label, Upgrade!Goto
<1>2. image \in Upgrade!Maybe /\ image.version \in Versions
  BY <1>1 DEF UpgradeInv, UTyped, Upgrade!Maybe, Upgrade!Image
<1>3. /\ test[t].project \in Projects /\ test[t].new \in Versions /\ test[t] \in UTest
      /\ ~test[t].parsed
      /\ ~met[t] => Finds("label", test[t], image, Reports(t), Required(t))
  BY <1>1, TestKnown
<1>4. /\ j \in UTest /\ j.project = test[t].project /\ j.new = test[t].new /\ ~j.parsed
      /\ j.deployment = test[t].deployment /\ j.tests = test[t].tests
      /\ j.current = image.version
  BY <1>2, <1>3 DEF UTest
<1>5. /\ l \in {"freeze", "upgrade", "lint", "done"} /\ (l # "freeze" => "version" \notin j.tests)
  BY <1>4, NextIs
<1> HIDE DEF l, j
<1>6. \A df : Aims(l, j, df)
  BY <1>2, <1>3, <1>4, <1>5 DEF Aims
<1>7. ~met[t] => IsBase(j, image) /\ (j.deployment = None => j.current = RunsNow[j.project])
  BY <1>3, <1>4 DEF Finds, IsBase, Upgrade!IsOf
<1>8. ~met[t] => \A r, b : Finds(l, j, image, r, b)
  BY <1>4, <1>5, <1>7 DEF Finds, Firsts, Lasts
<1> QED
  BY <1>1, <1>2, <1>4, <1>5, <1>6, <1>8, PlainSteps DEF Firsts, Lasts

\* The image for the new version.
LEMMA BuildNewKeeps ==
  ASSUME UpgradeInv, NEW t \in Terminal, Upgrade!BuildNew(t)
  PROVE  UpgradeInv'
<1> DEFINE l == IF upc[t] = "build" THEN "freeze_new" ELSE "unrequire"
           j == test[t]
           p == test[t].project
           r == Reports(t)
<1>1. /\ upc[t] \in {"build", "build_tests"} /\ upc' = [upc EXCEPT ![t] = l]
      /\ UNCHANGED <<tree, test, met>>
      /\ image' = Upgrade!Built(p, Rewritten(t))
  BY DEF Upgrade!BuildNew, Upgrade!Goto, Rewritten
<1>2. /\ j \in UTest /\ test' = [test EXCEPT ![t] = j] /\ p \in Projects /\ j.new \in Versions
      /\ ~j.parsed /\ j.current \in Versions /\ Rewritten(t) = j.new
      /\ ~met[t] => Finds(upc[t], j, image, r, Required(t))
  BY <1>1, TestKnown DEF UpgradeInv, UTyped, Firsts, Lasts
<1>3. image' \in Upgrade!Maybe /\ IsNew(j, image') /\ image'.pytest = Required(t)
  BY <1>1, <1>2, BuiltIs DEF Upgrade!Maybe, IsNew, Upgrade!IsOf, Required
<1>4. \A df : Aims(l, j, df)
  BY <1>2 DEF Aims
<1>5. ~met[t] => Finds(l, j, image', r, Required(t))
  BY <1>1, <1>2, <1>3 DEF Finds, Firsts, Lasts
<1>6. /\ r = tree[j.project].reports[<<j.current, j.new>>]
      /\ Required(t) = tree[j.project].pytest
  BY DEF Reports, Required, Upgrade!Where
<1>7. l \in Firsts \union Lasts \union {"label"}
  BY DEF Firsts, Lasts
<1> HIDE DEF l, j, r
<1> QED
  BY <1>1, <1>2, <1>3, <1>4, <1>5, <1>6, <1>7, PlainSteps

LEMMA BuildFailsKeeps ==
  ASSUME UpgradeInv, NEW t \in Terminal, Upgrade!BuildFails(t)
  PROVE  UpgradeInv'
<1>1. upc[t] \in {"build", "build_tests"} /\ UNCHANGED <<image, tree>>
  BY DEF Upgrade!BuildFails
<1>2. CASE upc[t] = "build"
  <2>1. Upgrade!GiveUp(t) /\ image' \in Upgrade!Maybe /\ tree' \in [Projects -> UTree]
    BY <1>1, <1>2 DEF Upgrade!BuildFails, UpgradeInv, UTyped
  <2> QED
    BY <1>1, <2>1, TestGivesUp
<1>3. CASE upc[t] = "build_tests"
  <2> DEFINE j == [test[t] EXCEPT !.passed = FALSE]
             r == Reports(t)
  <2>1. /\ upc' = [upc EXCEPT ![t] = "unrequire"] /\ test' = [test EXCEPT ![t] = j]
        /\ UNCHANGED met
    BY <1>3 DEF Upgrade!BuildFails, Upgrade!Goto
  <2>2. /\ test[t] \in UTest /\ test[t].project \in Projects /\ test[t].new \in Versions
        /\ ~test[t].parsed /\ test[t].current \in Versions
        /\ ~met[t] => Finds(upc[t], test[t], image, r, Required(t))
    BY <1>3, TestKnown DEF Firsts, Lasts
  <2>3. /\ j \in UTest /\ j.project = test[t].project /\ j.new = test[t].new /\ ~j.parsed
        /\ j.deployment = test[t].deployment /\ j.tests = test[t].tests
        /\ j.current = test[t].current /\ ~j.passed
    BY <2>2 DEF UTest
  <2>4. /\ r = tree[j.project].reports[<<j.current, j.new>>]
        /\ Required(t) = tree[j.project].pytest
    BY <2>3 DEF Reports, Required, Upgrade!Where
  <2> HIDE DEF j, r
  <2>5. \A df : Aims("unrequire", j, df)
    BY <2>2, <2>3 DEF Aims
  <2>6. ~met[t] => Finds("unrequire", j, image, r, Required(t))
    BY <1>3, <2>2, <2>3 DEF Finds, IsBase, IsNew, Firsts, Lasts
  <2>7. image' \in Upgrade!Maybe /\ "unrequire" \in Firsts \union Lasts \union {"label"} /\ image' = image
    BY <1>1 DEF UpgradeInv, UTyped, Lasts
  <2> QED
    BY <1>1, <1>3, <2>1, <2>3, <2>4, <2>5, <2>6, <2>7, PlainSteps
<1> QED
  BY <1>1, <1>2, <1>3

-----------------------------------------------------------------------------
(* The reports.                                                            *)

LEMMA FreezeKeeps ==
  ASSUME UpgradeInv, NEW t \in Terminal, Upgrade!Freeze(t)
  PROVE  UpgradeInv'
<1> DEFINE j == test[t]
           v == IF upc[t] = "freeze" THEN j.current ELSE j.new
           l == IF upc[t] = "freeze" THEN "rewrite" ELSE "compare"
           f == [Reports(t).freeze EXCEPT ![v] = image]
           r == [Reports(t) EXCEPT !.freeze = f]
<1>1. /\ upc[t] \in {"freeze", "freeze_new"} /\ upc' = [upc EXCEPT ![t] = l]
      /\ image # None /\ UNCHANGED <<image, test, met>>
      /\ tree' = [tree EXCEPT ![j.project].reports[Upgrade!Where(t)] = r]
  BY DEF Upgrade!Freeze, Upgrade!Goto, Reports
<1>2. /\ j \in UTest /\ test' = [test EXCEPT ![t] = j] /\ ~j.parsed
      /\ j.current \in Versions /\ j.new \in Versions /\ Reports(t) \in UReport
      /\ ~met[t] => Finds(upc[t], j, image, Reports(t), Required(t))
  BY <1>1, TestKnown DEF UpgradeInv, UTyped, Firsts, Lasts
<1>3. image \in Upgrade!Maybe
  BY DEF UpgradeInv, UTyped
<1>4. f \in [Versions -> Upgrade!Maybe] /\ f[v] = image
      /\ \A x \in Versions \ {v} : f[x] = Reports(t).freeze[x]
  BY <1>2, <1>3 DEF UReport
<1>5. r \in UReport /\ r.freeze = f
  BY <1>2, <1>4 DEF UReport
<1>6. l \in Firsts \union Lasts /\ l \in {"rewrite", "compare"}
      /\ (l = "rewrite") = (upc[t] = "freeze")
  BY DEF Firsts, Lasts
<1>7. v = IF upc[t] = "freeze" THEN j.current ELSE j.new
  OBVIOUS
<1> HIDE DEF f, r, l, v
<1>8. ASSUME ~met[t]
      PROVE  Finds(l, j, image, r, Required(t))
  <2>1. Finds(upc[t], j, image, Reports(t), Required(t))
    BY <1>2, <1>8
  <2>2. IsBase(j, r.freeze[j.current])
    <3>1. CASE upc[t] = "freeze"
      BY <2>1, <3>1, <1>4, <1>5, <1>7 DEF Finds
    <3>2. CASE upc[t] = "freeze_new" /\ j.current # j.new
      BY <2>1, <3>2, <1>2, <1>4, <1>5, <1>7 DEF Finds
    <3>3. CASE upc[t] = "freeze_new" /\ j.current = j.new
      BY <2>1, <3>3, <1>2, <1>4, <1>5, <1>7 DEF Finds, IsBase, IsNew, Firsts, Upgrade!IsOf
    <3> QED
      BY <1>1, <3>1, <3>2, <3>3
  <2>3. l = "compare" => IsNew(j, r.freeze[j.new])
    BY <2>1, <1>1, <1>4, <1>5, <1>6, <1>7 DEF Finds
  <2> QED
    BY <2>1, <2>2, <2>3, <1>1, <1>2, <1>6 DEF Finds, Firsts, Lasts
<1> QED
  BY <1>1, <1>2, <1>5, <1>6, <1>8, ReportSteps DEF Firsts

LEMMA CompareKeeps ==
  ASSUME UpgradeInv, NEW t \in Terminal, Upgrade!Compare(t)
  PROVE  UpgradeInv'
<1> DEFINE j == test[t]
           l == Upgrade!Next1(t, 1)
           b == Reports(t).freeze[j.current]
           a == Reports(t).freeze[j.new]
           r == [Reports(t) EXCEPT !.before = b, !.after = a]
<1>1. /\ upc[t] = "compare" /\ upc' = [upc EXCEPT ![t] = l]
      /\ UNCHANGED <<image, test, met>>
      /\ tree' = [tree EXCEPT ![j.project].reports[Upgrade!Where(t)] = r]
  BY DEF Upgrade!Compare, Upgrade!Goto, Reports
<1>2. /\ j \in UTest /\ test' = [test EXCEPT ![t] = j] /\ ~j.parsed
      /\ j.current \in Versions /\ j.new \in Versions /\ Reports(t) \in UReport
      /\ ~met[t] => Finds(upc[t], j, image, Reports(t), Required(t))
  BY <1>1, TestKnown DEF UpgradeInv, UTyped, Firsts, Lasts
<1>3. a \in Upgrade!Maybe /\ b \in Upgrade!Maybe
  BY <1>2 DEF UReport
<1>4. r \in UReport /\ r.before = b /\ r.after = a
  BY <1>2, <1>3 DEF UReport
<1>5. l \in {"upgrade", "lint", "done"}
  BY NextIs
<1>6. l \in Firsts \union Lasts
  BY <1>5 DEF Lasts
<1> HIDE DEF r, l
<1>7. ~met[t] => Finds(l, j, image, r, Required(t))
  BY <1>1, <1>2, <1>4, <1>5 DEF Finds, Firsts, Lasts
<1> QED
  BY <1>1, <1>2, <1>4, <1>5, <1>6, <1>7, ReportSteps DEF Firsts

LEMMA LintKeeps ==
  ASSUME UpgradeInv, NEW t \in Terminal, Upgrade!Lint(t)
  PROVE  UpgradeInv'
<1>1. PICK passed \in BOOLEAN : test' = [test EXCEPT ![t].passed = @ /\ passed]
  BY DEF Upgrade!Lint
<1>2. PICK b \in BOOLEAN : test' = [test EXCEPT ![t].passed = b]
  <2>1. (test[t].passed /\ passed) \in BOOLEAN
    OBVIOUS
  <2> QED
    BY <1>1, <2>1
<1> DEFINE j == [test[t] EXCEPT !.passed = b]
           r == [Reports(t) EXCEPT !.linted = TRUE]
<1>3. /\ upc[t] = "lint" /\ upc' = [upc EXCEPT ![t] = "done"]
      /\ UNCHANGED <<image, met>> /\ test' = [test EXCEPT ![t] = j]
      /\ tree' = [tree EXCEPT ![test[t].project].reports[Upgrade!Where(t)] = r]
  BY <1>2 DEF Upgrade!Lint, Upgrade!Goto, Upgrade!Report, Reports
<1>4. /\ test[t] \in UTest /\ Reports(t) \in UReport
      /\ ~met[t] => Finds("lint", test[t], image, Reports(t), Required(t))
  BY <1>3, TestKnown DEF Firsts, Lasts
<1>5. /\ j \in UTest /\ j.project = test[t].project /\ j.new = test[t].new
      /\ j.current = test[t].current /\ j.parsed = test[t].parsed
      /\ j.deployment = test[t].deployment /\ j.tests = test[t].tests
  BY <1>4 DEF UTest
<1>6. /\ r \in UReport /\ r.before = Reports(t).before /\ r.after = Reports(t).after
      /\ r.parsed = Reports(t).parsed
  BY <1>4 DEF UReport
<1> HIDE DEF r, j
<1>7. ~met[t] => Finds("done", j, image, r, Required(t))
  BY <1>4, <1>5, <1>6 DEF Finds, Firsts, Lasts, IsBase, IsNew
<1>8. "done" \in Firsts \union Lasts /\ upc[t] \in Firsts \union Lasts /\ upc[t] # "done"
  BY <1>3 DEF Lasts
<1> QED
  BY <1>3, <1>5, <1>6, <1>7, <1>8, ReportSteps

LEMMA ParseKeeps ==
  ASSUME UpgradeInv, NEW t \in Terminal, Upgrade!Parse(t)
  PROVE  UpgradeInv'
<1> DEFINE l == Upgrade!Next1(t, 2)
<1>1. PICK passed \in BOOLEAN, there \in BOOLEAN :
        /\ IF there THEN Upgrade!Report(t, "parsed", image) ELSE ~passed /\ UNCHANGED tree
        /\ test' = [test EXCEPT ![t].passed = passed, ![t].parsed = there]
  BY DEF Upgrade!Parse
<1> DEFINE j == [test[t] EXCEPT !.passed = passed, !.parsed = there]
           r == [Reports(t) EXCEPT !.parsed = image]
<1>2. /\ upc[t] = "parse" /\ upc' = [upc EXCEPT ![t] = l] /\ image # None
      /\ UNCHANGED <<image, met>> /\ test' = [test EXCEPT ![t] = j]
  BY <1>1 DEF Upgrade!Parse, Upgrade!Goto
<1>3. /\ test[t] \in UTest /\ Reports(t) \in UReport /\ image \in Upgrade!Maybe
      /\ test[t].project \in Projects /\ test[t].new \in Versions /\ test[t].current \in Versions
      /\ ~met[t] => Finds("parse", test[t], image, Reports(t), Required(t))
  BY <1>2, TestKnown DEF Firsts, Lasts, UpgradeInv, UTyped
<1>4. /\ j \in UTest /\ j.project = test[t].project /\ j.new = test[t].new
      /\ j.current = test[t].current /\ j.parsed = there
      /\ j.deployment = test[t].deployment /\ j.tests = test[t].tests
  BY <1>3 DEF UTest
<1>5. /\ r \in UReport /\ r.before = Reports(t).before /\ r.after = Reports(t).after
      /\ r.parsed = image
  BY <1>3 DEF UReport
<1>6. l \in {"lint", "done"} /\ l \in Firsts \union Lasts /\ upc[t] \in Firsts \union Lasts
  BY <1>2, NextIs DEF Lasts
<1>7. there => tree' = [tree EXCEPT ![test[t].project].reports[Upgrade!Where(t)] = r]
  BY <1>1 DEF Upgrade!Report, Reports
<1> HIDE DEF l, j, r
<1>8. CASE there
  <2>1. ~met[t] => Finds(l, j, image, r, Required(t))
    BY <1>3, <1>4, <1>5, <1>6 DEF Finds, Firsts, Lasts, IsBase, IsNew
  <2> QED
    BY <1>2, <1>4, <1>5, <1>6, <1>7, <1>8, <2>1, ReportSteps
<1>9. CASE ~there
  <2>1. ~met[t] => Finds(l, j, image, Reports(t), Required(t))
    BY <1>3, <1>4, <1>6, <1>9 DEF Finds, Firsts, Lasts, IsBase, IsNew
  <2>2. /\ Reports(t) = tree[j.project].reports[<<j.current, j.new>>]
        /\ Required(t) = tree[j.project].pytest
    BY <1>4 DEF Reports, Required, Upgrade!Where
  <2>3. \A df : Aims(l, j, df)
    BY <1>3, <1>4, <1>6, <1>9 DEF Aims
  <2>4. UNCHANGED tree /\ image' = image /\ image' \in Upgrade!Maybe
    BY <1>1, <1>2, <1>3, <1>9
  <2> QED
    BY <1>2, <1>4, <1>6, <2>1, <2>2, <2>3, <2>4, PlainSteps
<1> QED
  BY <1>1, <1>8, <1>9

-----------------------------------------------------------------------------
(* The project's files.                                                    *)

\* The test j goes on at l; of its project, only x, the record of it, changes,
\* and not its reports.
LEMMA TreeSteps ==
  ASSUME UpgradeInv, NEW t \in Terminal, upc[t] \in Firsts \union Lasts, upc[t] # "done",
         UNCHANGED <<image, test, met>>,
         NEW x \in UTree, tree' = [tree EXCEPT ![test[t].project] = x],
         x.reports = tree[test[t].project].reports,
         \A d \in Upgrade!Dir :
            x.dockerfile[d] = tree[test[t].project].dockerfile[d] \/ x.dockerfile[d] = d[2],
         NEW l \in Firsts \union Lasts, upc' = [upc EXCEPT ![t] = l],
         Aims(l, test[t], x.dockerfile[Upgrade!Where(t)]),
         ~met[t] => Finds(l, test[t], image, Reports(t), x.pytest)
  PROVE  UpgradeInv'
<1>1. upc'[t] = l
  BY DEF UpgradeInv, UTyped
<1>2. UTyped'
  BY DEF UpgradeInv, UTyped
<1>3. test[t].project \in Projects
  BY TestKnown DEF Firsts, Lasts
<1>4. tree'[test[t].project] = x
  BY <1>3 DEF UpgradeInv, UTyped
<1>5. \A p \in Projects, d \in Upgrade!Dir :
          tree'[p].dockerfile[d] = tree[p].dockerfile[d] \/ tree'[p].dockerfile[d] = d[2]
  BY <1>3 DEF UpgradeInv, UTyped
<1>6. TestStep(t)
  BY <1>5 DEF UpgradeInv, UTyped, TestStep, Firsts, Lasts
<1>7. /\ Reports(t)' = Reports(t) /\ Required(t)' = x.pytest
      /\ Rewritten(t)' = x.dockerfile[Upgrade!Where(t)]
  BY <1>4 DEF Reports, Required, Rewritten, Upgrade!Where
<1> QED
  BY <1>1, <1>2, <1>6, <1>7, TestSteps

LEMMA UpgradeDockerfileKeeps ==
  ASSUME UpgradeInv, NEW t \in Terminal, Upgrade!UpgradeDockerfile(t)
  PROVE  UpgradeInv'
<1> DEFINE j == test[t]
           w == Upgrade!Where(t)
           l == IF upc[t] = "rewrite" THEN "build" ELSE "require"
           old == tree[j.project]
           df == [old.dockerfile EXCEPT ![w] = j.new]
           x == [old EXCEPT !.dockerfile = df]
<1>1. /\ upc[t] \in {"rewrite", "upgrade"} /\ upc' = [upc EXCEPT ![t] = l]
      /\ UNCHANGED <<image, test, met>>
      /\ tree' = [tree EXCEPT ![j.project] = x]
  BY DEF Upgrade!UpgradeDockerfile, Upgrade!Goto
<1>2. /\ old \in UTree /\ j.project \in Projects /\ j.new \in Versions /\ j.current \in Versions
      /\ w \in Upgrade!Dir /\ ~j.parsed
      /\ ~met[t] => Finds(upc[t], j, image, Reports(t), Required(t))
  BY <1>1, TestKnown DEF Firsts, Lasts
<1>3. df \in [Upgrade!Dir -> Versions \union {None}] /\ df[w] = j.new
      /\ \A d \in Upgrade!Dir : df[d] = old.dockerfile[d] \/ (d = w /\ df[d] = j.new)
  BY <1>2 DEF UTree
<1>4. w[2] = j.new
  BY DEF Upgrade!Where
<1>5. x \in UTree /\ x.dockerfile = df /\ x.reports = old.reports /\ x.pytest = old.pytest
  BY <1>2, <1>3 DEF UTree
<1>6. l \in Firsts \union Lasts /\ upc[t] \in Firsts \union Lasts /\ upc[t] # "done"
      /\ l = IF upc[t] = "rewrite" THEN "build" ELSE "require"
  BY <1>1 DEF Firsts, Lasts
<1> HIDE DEF df, x, l
<1>7. Aims(l, j, df[w])
  BY <1>2, <1>3 DEF Aims
<1>8. ~met[t] => Finds(l, j, image, Reports(t), x.pytest)
  BY <1>1, <1>2, <1>5, <1>6 DEF Finds, Firsts, Lasts
<1>9. \A d \in Upgrade!Dir : x.dockerfile[d] = old.dockerfile[d] \/ x.dockerfile[d] = d[2]
  BY <1>3, <1>4, <1>5
<1> QED
  BY <1>1, <1>5, <1>6, <1>7, <1>8, <1>9, TreeSteps

\* The line for pytest-html comes or goes.
LEMMA PytestIs ==
  ASSUME NEW x \in UTree, NEW b \in BOOLEAN
  PROVE  /\ [x EXCEPT !.pytest = b] \in UTree /\ [x EXCEPT !.pytest = b].pytest = b
         /\ [x EXCEPT !.pytest = b].dockerfile = x.dockerfile
         /\ [x EXCEPT !.pytest = b].reports = x.reports
  BY DEF UTree

LEMMA RequireKeeps ==
  ASSUME UpgradeInv, NEW t \in Terminal, Upgrade!Require(t)
  PROVE  UpgradeInv'
<1> DEFINE j == test[t]
           old == tree[j.project]
           x == [old EXCEPT !.pytest = TRUE]
<1>1. /\ upc[t] = "require" /\ upc' = [upc EXCEPT ![t] = "build_tests"]
      /\ UNCHANGED <<image, test, met>>
      /\ tree' = [tree EXCEPT ![j.project] = x]
  BY DEF Upgrade!Require, Upgrade!Goto
<1>2. /\ old \in UTree /\ j.project \in Projects /\ j.new \in Versions /\ j.current \in Versions
      /\ ~j.parsed /\ Rewritten(t) = j.new
      /\ ~met[t] => Finds(upc[t], j, image, Reports(t), Required(t))
  BY <1>1, TestKnown DEF Firsts, Lasts
<1>3. x \in UTree /\ x.pytest = TRUE /\ x.dockerfile = old.dockerfile /\ x.reports = old.reports
  BY <1>2, PytestIs
<1>4. "build_tests" \in Firsts \union Lasts /\ upc[t] \in Firsts \union Lasts /\ upc[t] # "done"
  BY <1>1 DEF Lasts
<1> HIDE DEF x
<1>5. Aims("build_tests", j, x.dockerfile[Upgrade!Where(t)])
  BY <1>2, <1>3 DEF Aims, Rewritten
<1>6. ~met[t] => Finds("build_tests", j, image, Reports(t), x.pytest)
  BY <1>1, <1>2, <1>3 DEF Finds, Firsts, Lasts
<1> QED
  BY <1>1, <1>3, <1>4, <1>5, <1>6, TreeSteps

LEMMA UnrequireKeeps ==
  ASSUME UpgradeInv, NEW t \in Terminal, Upgrade!Unrequire(t)
  PROVE  UpgradeInv'
<1> DEFINE j == test[t]
           old == tree[j.project]
           x == [old EXCEPT !.pytest = FALSE]
<1>1. /\ upc[t] = "unrequire" /\ UNCHANGED image
      /\ tree' = [tree EXCEPT ![j.project] = x]
      /\ IF j.passed THEN upc' = [upc EXCEPT ![t] = "parse"] /\ UNCHANGED <<test, met>>
         ELSE Upgrade!GiveUp(t)
  BY DEF Upgrade!Unrequire, Upgrade!Goto
<1>2. /\ old \in UTree /\ j.project \in Projects /\ j.new \in Versions /\ j.current \in Versions
      /\ ~j.parsed
      /\ ~met[t] => Finds(upc[t], j, image, Reports(t), Required(t))
  BY <1>1, TestKnown DEF Firsts, Lasts
<1>3. x \in UTree /\ x.pytest = FALSE /\ x.dockerfile = old.dockerfile /\ x.reports = old.reports
  BY <1>2, PytestIs
<1> HIDE DEF x
<1>4. CASE j.passed
  <2>1. "parse" \in Firsts \union Lasts /\ upc[t] \in Firsts \union Lasts /\ upc[t] # "done"
    BY <1>1 DEF Lasts
  <2>2. Aims("parse", j, x.dockerfile[Upgrade!Where(t)])
    BY <1>2 DEF Aims
  <2>3. ~met[t] => Finds("parse", j, image, Reports(t), x.pytest)
    BY <1>1, <1>2, <1>4 DEF Finds, Firsts, Lasts
  <2> QED
    BY <1>1, <1>3, <1>4, <2>1, <2>2, <2>3, TreeSteps
<1>5. CASE ~j.passed
  <2>1. tree' \in [Projects -> UTree] /\ image' \in Upgrade!Maybe
    BY <1>1, <1>3 DEF UpgradeInv, UTyped
  <2>2. \A p \in Projects : tree'[p].dockerfile = tree[p].dockerfile
    BY <1>1, <1>2, <1>3 DEF UpgradeInv, UTyped
  <2> QED
    BY <1>1, <1>5, <2>1, <2>2, TestGivesUp
<1> QED
  BY <1>4, <1>5

-----------------------------------------------------------------------------
(* The invariant.                                                          *)

LEMMA BeginKeeps ==
  ASSUME UpgradeInv, NEW t \in Terminal, Upgrade!Begin(t)
  PROVE  UpgradeInv'
<1>1. PICK p \in Projects, d \in Against \union {None}, v \in Versions, ts \in TestAsks :
        /\ test' = [test EXCEPT ![t] = [Upgrade!NoTest EXCEPT !.project = p, !.deployment = d,
                                          !.new = v, !.tests = ts]]
        /\ tree' = [tree EXCEPT ![p].ignored = TRUE]
  BY DEF Upgrade!Begin
<1> DEFINE j == [Upgrade!NoTest EXCEPT !.project = p, !.deployment = d, !.new = v, !.tests = ts]
           x == [tree[p] EXCEPT !.ignored = TRUE]
<1>2. j \in UTest /\ j.project = p /\ j.new = v /\ ~j.parsed
  BY DEF Upgrade!NoTest, UTest
<1>3. x \in UTree /\ x.dockerfile = tree[p].dockerfile
  BY DEF UpgradeInv, UTyped, UTree
<1>4. tree' = [tree EXCEPT ![p] = x] /\ test' = [test EXCEPT ![t] = j]
  BY <1>1
<1> HIDE DEF j, x
<1>5. /\ upc[t] \in {"idle", "done"} /\ upc' = [upc EXCEPT ![t] = "base"] /\ UNCHANGED image
      /\ met' = [u \in Terminal |->
            IF u = t THEN \E w \in Terminal : upc[w] \notin {"idle", "done"}
            ELSE met[u] \/ upc[u] # "idle"]
  BY DEF Upgrade!Begin, Upgrade!Goto, Upgrade!Ended
<1>6. met' \in [Terminal -> BOOLEAN]
  <2>1. \A u \in Terminal :
          (IF u = t THEN \E w \in Terminal : upc[w] \notin {"idle", "done"}
           ELSE met[u] \/ upc[u] # "idle") \in BOOLEAN
    OBVIOUS
  <2> QED
    BY <1>5, <2>1
<1>7. /\ \A u \in Terminal \ {t} : ~met'[u] => upc[u] = "idle"
      /\ ~met'[t] => \A u \in Terminal : upc[u] \in {"idle", "done"}
  BY <1>5, Zenon
<1>8. UTyped'
  BY <1>2, <1>3, <1>4, <1>5, <1>6 DEF UpgradeInv, UTyped
<1>9. /\ upc'[t] = "base" /\ \A u \in Terminal \ {t} : upc'[u] = upc[u]
      /\ test'[t] = j /\ \A u \in Terminal \ {t} : test'[u] = test[u]
  BY <1>4, <1>5 DEF UpgradeInv, UTyped
<1>10. \A q \in Projects : tree'[q].dockerfile = tree[q].dockerfile
  BY <1>3, <1>4 DEF UpgradeInv, UTyped
<1>11. DirsNamed'
  BY <1>10 DEF UpgradeInv, DirsNamed
<1>12. \A df : Aims("base", j, df)
  BY <1>2 DEF Aims, Firsts, Lasts
<1>13. \A u \in Terminal : Aims(upc'[u], test'[u], Rewritten(u)')
  <2> SUFFICES ASSUME NEW u \in Terminal, u # t
               PROVE  Aims(upc'[u], test'[u], Rewritten(u)')
    BY <1>9, <1>12
  <2>1. upc'[u] = upc[u] /\ test'[u] = test[u]
    BY <1>9
  <2> QED
    BY <1>10, <2>1, OthersAim
<1>14. TestAims'
  BY <1>13 DEF TestAims
<1>15. TestAlone'
  BY <1>7, <1>9 DEF TestAlone
<1>16. ASSUME NEW u \in Terminal, ~met'[u]
       PROVE  Finds(upc'[u], test'[u], image', Reports(u)', Required(u)')
  <2>1. upc'[u] \in {"idle", "base"}
    BY <1>7, <1>9, <1>16
  <2>2. ~test'[u].parsed
    BY <1>13, <2>1 DEF Aims
  <2> QED
    BY <2>1, <2>2 DEF Finds, Firsts, Lasts
<1>17. TestFinds'
  BY <1>16 DEF TestFinds
<1> QED
  BY <1>8, <1>11, <1>14, <1>15, <1>17 DEF UpgradeInv

LEMMA UpgradeStarts ==
  ASSUME Upgrade!Init
  PROVE  UpgradeInv
<1>1. Upgrade!NoReports \in UReport
  BY DEF Upgrade!NoReports, UReport, Upgrade!Maybe
<1>2. tree \in [Projects -> UTree]
  BY <1>1 DEF Upgrade!Init, UTree
<1>3. Upgrade!NoTest \in UTest
  BY DEF Upgrade!NoTest, UTest
<1>4. UTyped
  BY <1>2, <1>3 DEF Upgrade!Init, UTyped
<1>5. DirsNamed
  BY DEF Upgrade!Init, DirsNamed
<1>6. \A df : Aims("idle", Upgrade!NoTest, df)
  BY DEF Aims, Upgrade!NoTest, Firsts, Lasts
<1>7. TestAims
  BY <1>6 DEF Upgrade!Init, TestAims
<1>8. TestAlone
  BY DEF Upgrade!Init, TestAlone
<1>9. \A i, r, b : Finds("idle", Upgrade!NoTest, i, r, b)
  BY DEF Finds, Upgrade!NoTest, Firsts, Lasts
<1>10. TestFinds
  BY <1>9 DEF Upgrade!Init, TestFinds
<1> QED
  BY <1>4, <1>5, <1>7, <1>8, <1>10 DEF UpgradeInv

LEMMA UpgradeStays ==
  ASSUME UpgradeInv, [Upgrade!Next]_(Upgrade!vars)
  PROVE  UpgradeInv'
<1>1. CASE UNCHANGED Upgrade!vars
  <2>1. UNCHANGED <<image, tree, upc, test, met>>
    BY <1>1 DEF Upgrade!vars
  <2>2. UTyped' /\ DirsNamed' /\ TestAlone'
    BY <2>1 DEF UpgradeInv, UTyped, DirsNamed, TestAlone
  <2>3. \A t : Rewritten(t)' = Rewritten(t) /\ Reports(t)' = Reports(t) /\ Required(t)' = Required(t)
    BY <2>1 DEF Rewritten, Reports, Required, Upgrade!Where
  <2>4. TestAims' /\ TestFinds'
    BY <2>1, <2>3 DEF UpgradeInv, TestAims, TestFinds
  <2> QED
    BY <2>2, <2>4 DEF UpgradeInv
<1>2. ASSUME NEW t \in Terminal,
             \/ Upgrade!Begin(t) \/ Upgrade!Base(t) \/ Upgrade!Label(t) \/ Upgrade!Freeze(t)
             \/ Upgrade!UpgradeDockerfile(t) \/ Upgrade!BuildNew(t) \/ Upgrade!BuildFails(t)
             \/ Upgrade!Compare(t) \/ Upgrade!Require(t) \/ Upgrade!Unrequire(t)
             \/ Upgrade!Parse(t) \/ Upgrade!Lint(t) \/ Upgrade!Fail(t)
      PROVE  UpgradeInv'
  BY <1>2, BeginKeeps, BaseKeeps, LabelKeeps, FreezeKeeps, UpgradeDockerfileKeeps, BuildNewKeeps,
     BuildFailsKeeps, CompareKeeps, RequireKeeps, UnrequireKeeps, ParseKeeps, LintKeeps, Fails
<1> QED
  BY <1>1, <1>2 DEF Upgrade!Next

\* What UpgradeInv says of a test that is done.
LEMMA FoundIsReported ==
  ASSUME UpgradeInv
  PROVE  ReportsItsOwn
<1> SUFFICES ASSUME NEW t \in Terminal, upc[t] = "done", ~met[t]
             PROVE  LET r == Reports(t) IN
                    /\ "version" \in test[t].tests => IsNew(test[t], r.after) /\ IsBase(test[t], r.before)
                    /\ test[t].parsed => IsNew(test[t], r.parsed) /\ r.parsed.pytest
  BY DEF ReportsItsOwn, Upgrade!ReportsItsOwn, IsNew, IsBase, Reports
<1>1. Finds("done", test[t], image, Reports(t), Required(t))
  BY DEF UpgradeInv, TestFinds
<1> QED
  BY <1>1 DEF Finds, Lasts

\* A test that meets no other reports on its own project and versions
\* (docker.go, UpgradeTest), whatever tests, of whatever projects, ran before.
THEOREM TestsReportTheirOwn == Upgrade!Spec => []ReportsItsOwn
<1>1. UpgradeInv => ReportsItsOwn
  BY FoundIsReported
<1>2. UpgradeInv /\ [Upgrade!Next]_(Upgrade!vars) => UpgradeInv'
  BY UpgradeStays
<1>3. Upgrade!Init => UpgradeInv
  BY UpgradeStarts
<1> QED
  BY <1>1, <1>2, <1>3, PTL DEF Upgrade!Spec

-----------------------------------------------------------------------------
(* A project's containers. A command that runs undisturbed (calm) finds    *)
(* the volume, the probe, the containers, the route and the files as its   *)
(* steps so far have left them.                                            *)

Line == {Own, User, Pkg}
Files == [requirements : Seq(Line), dockerfile : Seq(Line)]
DevJobs == [op : Docker!Ops, image : BOOLEAN, proxy : BOOLEAN, tag : Majors \union {0},
            port : Docker!Port \union {None}, warned : BOOLEAN, failed : BOOLEAN, calm : BOOLEAN,
            clean : Files \union {None}]
Boxes == [state : {"none", "up", "exited"}, port : Docker!Port \union {None}, tag : Majors \union {0}]
Resting == {"idle", "done"}

WorldTyped ==
    /\ conf \in Majors /\ volume \in Majors \union {None, 0}
    /\ probes \subseteq Terminal /\ left \in BOOLEAN
    /\ box \in Boxes /\ route \in Docker!Port \union {None} /\ files \in Files
DockerTyped ==
    WorldTyped /\ dpc \in [Terminal -> Docker!Steps] /\ djob \in [Terminal -> DevJobs]

\* The steps that a command is at.
Follows(l, j) ==
    /\ j.op = "export" => l \in Resting \union {"volume", "probe", "copy", "unprobe", "write"}
    /\ j.op = "kill" => l \in Resting \union {"unroute", "clear", "down"}
    /\ j.op = "stop" => l \in Resting \union {"unroute", "stop"}
    /\ j.op = "run" => l \in Resting \union {"add", "adddb", "build", "removedb", "remove"}
    /\ j.op \in Docker!Starts => l \notin {"write", "adddb", "removedb"}

\* The files of a command at l that found them to be c.
FilesAt(l, j, c) ==
    [requirements |-> IF l \in {"adddb", "build", "removedb", "remove"}
                      THEN Docker!WithLine(c.requirements, {Own, Pkg}) ELSE c.requirements,
     dockerfile |-> IF l = "removedb" \/ (l = "build" /\ j.op = "run")
                    THEN Docker!WithLine(c.dockerfile, {Own}) ELSE c.dockerfile]

\* What t's command j at l, left alone, knows of the volume v, the probes ps
\* and whether one is left, the containers bx, the route rt and the files fs.
Undisturbed(t, l, j, v, ps, lf, bx, rt, fs) ==
    /\ l \in {"route", "status"} => bx.state = "up" /\ v = bx.tag /\ bx.port = j.port
    /\ l = "status" /\ j.proxy => rt = bx.port
    /\ l \in {"clear", "down"} => rt = None
    /\ l = "down" => ps = {} /\ ~lf
    /\ l = "copy" => t \in ps
    /\ Pinned /\ ~j.warned /\ l \in {"unprobe", "up", "write"} => v \in {None, 0, j.tag}
    /\ j.clean # None => ~Docker!HoldOwn(j.clean) /\ fs = FilesAt(l, j, j.clean)

Fits(t, l, j, v, ps, lf, bx, rt, fs) ==
    /\ Follows(l, j)
    /\ j.clean # None => j.calm
    /\ j.calm /\ l \notin Resting => Undisturbed(t, l, j, v, ps, lf, bx, rt, fs)

DockerInv ==
    /\ DockerTyped
    /\ \A t \in Terminal : Fits(t, dpc[t], djob[t], volume, probes, left, box, route, files)
    /\ \A t \in Terminal : djob[t].calm => \A u \in Terminal \ {t} : dpc[u] \in Resting
-----------------------------------------------------------------------------
(* The least and the greatest of a set of numbers.                         *)

Smaller == OpToRel(<, Nat)

LEMMA SmallerFounded == IsWellFoundedOn(Smaller, Nat)
  BY NatLessThanWellFounded DEF Smaller

LEMMA Least ==
  ASSUME NEW T \in SUBSET Nat, T # {}
  PROVE  \E m \in T : \A k \in T : m <= k
<1>1. PICK m \in T : \A k \in T : <<k, m>> \notin Smaller
  BY SmallerFounded, WFMin
<1>2. \A i, k \in Nat : i < k => <<i, k>> \in Smaller
  BY DEF Smaller, OpToRel
<1>3. m \in Nat /\ T \subseteq Nat
  OBVIOUS
<1>4. \A k \in T : ~(k < m)
  BY <1>1, <1>2, <1>3
<1>5. \A k \in T : m <= k
  BY <1>3, <1>4
<1> QED
  BY <1>5

LEMMA Greatest ==
  ASSUME NEW T \in SUBSET Nat, NEW n \in Nat, T # {}, \A i \in T : i <= n
  PROVE  \E i \in T : \A k \in T : k <= i
<1> DEFINE Rest == {n - i : i \in T}
<1>1. Rest \in SUBSET Nat
  <2>1. \A i \in T : i \in Nat /\ n - i \in Nat
    OBVIOUS
  <2> QED
    BY <2>1
<1>2. Rest # {}
  OBVIOUS
<1>3. \E m \in Rest : \A k \in Rest : m <= k
  BY <1>1, <1>2, Least
<1> QED
  BY <1>3

-----------------------------------------------------------------------------
(* The lines.                                                              *)

LEMMA LineAdded ==
  ASSUME NEW f \in Seq(Line), NEW texts \in SUBSET Line
  PROVE  Docker!WithLine(f, texts) \in Seq(Line)
  BY DEF Docker!WithLine, Docker!Lines, Line

LEMMA LineRemoved ==
  ASSUME NEW f \in Seq(Line)
  PROVE  Docker!WithoutLine(f) \in Seq(Line)
<1>1. CASE Own \in Docker!Lines(f)
  <2> DEFINE Places == {i \in DOMAIN f : f[i] = Own}
  <2>1. Places \in SUBSET Nat /\ Places # {} /\ Len(f) \in Nat /\ \A i \in Places : i <= Len(f)
    BY <1>1 DEF Docker!Lines, Docker!Range
  <2>2. \E i \in Places : \A k \in Places : k <= i
    BY <2>1, Greatest
  <2>3. Docker!LastOwn(f) \in 1..Len(f)
    BY <2>2 DEF Docker!LastOwn
  <2>4. SubSeq(f, 1, Docker!LastOwn(f) - 1) \in Seq(Line)
    BY <2>3
  <2> QED
    BY <1>1, <2>4 DEF Docker!WithoutLine
<1>2. CASE Own \notin Docker!Lines(f)
  BY <1>2 DEF Docker!WithoutLine
<1> QED
  BY <1>1, <1>2

\* AddLineToFile and then RemoveLineFromFile, on a file that does not hold
\* the line.
LEMMA LinesRestored ==
  ASSUME NEW f \in Seq(Line), NEW texts \in SUBSET Line, Own \notin Docker!Lines(f)
  PROVE  Docker!WithoutLine(Docker!WithLine(f, texts)) = f
<1> DEFINE g == Append(f, Own)
<1>1. CASE Docker!Lines(f) \intersect texts # {}
  BY <1>1 DEF Docker!WithLine, Docker!WithoutLine
<1>2. CASE Docker!Lines(f) \intersect texts = {}
  <2>1. Docker!WithLine(f, texts) = g
    BY <1>2 DEF Docker!WithLine
  <2>2. g \in Seq(Line) /\ Len(g) = Len(f) + 1 /\ g[Len(g)] = Own /\ DOMAIN g = 1..Len(g) /\ Len(f) \in Nat
    BY DEF Line
  <2>3. \A i \in 1..Len(f) : g[i] = f[i] /\ f[i] # Own
    BY DEF Docker!Lines, Docker!Range
  <2>4. Own \in Docker!Lines(g)
    BY <2>2 DEF Docker!Lines, Docker!Range
  <2>5. \A i \in DOMAIN g : g[i] = Own => i = Len(g)
    BY <2>2, <2>3
  <2>6. Docker!LastOwn(g) = Len(g)
    BY <2>2, <2>5 DEF Docker!LastOwn
  <2>7. Docker!WithoutLine(g) = SubSeq(g, 1, Len(f))
    BY <2>2, <2>4, <2>6 DEF Docker!WithoutLine
  <2>8. SubSeq(g, 1, Len(f)) = f
    BY <2>2, <2>3
  <2> QED
    BY <2>1, <2>7, <2>8
<1> QED
  BY <1>1, <1>2

-----------------------------------------------------------------------------
(* One command's step.                                                     *)

LEMMA DevKnown ==
  ASSUME DockerInv, NEW t \in Terminal
  PROVE  /\ djob[t] \in DevJobs /\ dpc[t] \in Docker!Steps
         /\ Fits(t, dpc[t], djob[t], volume, probes, left, box, route, files)
         /\ Follows(dpc[t], djob[t])
         /\ djob[t].clean # None => djob[t].calm
         /\ djob[t].calm /\ dpc[t] \notin Resting =>
               Undisturbed(t, dpc[t], djob[t], volume, probes, left, box, route, files)
  BY DEF DockerInv, DockerTyped, Fits

\* The command j goes on at l.
Goes(t, l, j) == dpc' = [dpc EXCEPT ![t] = l] /\ djob' = [djob EXCEPT ![t] = j]

LEMMA DevSteps ==
  ASSUME DockerInv, NEW t \in Terminal, dpc[t] \notin Resting,
         NEW l \in Docker!Steps, NEW j \in DevJobs, Goes(t, l, j), WorldTyped',
         j.calm => djob[t].calm,
         Fits(t, l, j, volume', probes', left', box', route', files')
  PROVE  DockerInv'
<1>1. /\ dpc'[t] = l /\ djob'[t] = j /\ DockerTyped'
      /\ \A u \in Terminal \ {t} : dpc'[u] = dpc[u] /\ djob'[u] = djob[u]
  BY DEF DockerInv, DockerTyped, Goes
<1>2. \A u \in Terminal \ {t} : ~djob[u].calm
  BY DEF DockerInv
<1>3. \A u \in Terminal \ {t} : Follows(dpc[u], djob[u]) /\ djob[u].clean = None
  BY <1>2 DEF DockerInv, Fits
<1>4. ASSUME NEW u \in Terminal
      PROVE  Fits(u, dpc'[u], djob'[u], volume', probes', left', box', route', files')
  BY <1>1, <1>2, <1>3 DEF Fits
<1>5. \A u \in Terminal : djob'[u].calm => \A w \in Terminal \ {u} : dpc'[w] \in Resting
  <2> SUFFICES ASSUME NEW u \in Terminal, djob'[u].calm, NEW w \in Terminal \ {u}
               PROVE  dpc'[w] \in Resting
    OBVIOUS
  <2>1. u = t
    BY <1>1, <1>2
  <2> QED
    BY <1>1, <2>1 DEF DockerInv
<1> QED
  BY <1>1, <1>4, <1>5 DEF DockerInv

LEMMA RestFits ==
  ASSUME NEW t, NEW l \in Resting, NEW j, j.clean # None => j.calm
  PROVE  \A v, ps, lf, bx, rt, fs : Fits(t, l, j, v, ps, lf, bx, rt, fs)
  BY DEF Fits, Follows, Resting

LEMMA NoJobIs ==
  Docker!NoJob \in DevJobs /\ ~Docker!NoJob.calm /\ Docker!NoJob.clean = None
  BY DEF Docker!NoJob, DevJobs, Docker!Ops

\* The command ends, and what it knew is forgotten.
LEMMA DevEnds ==
  ASSUME DockerInv, NEW t \in Terminal, dpc[t] \notin Resting, NEW l \in Resting, Docker!End(t, l),
         WorldTyped'
  PROVE  DockerInv'
<1>1. Goes(t, l, Docker!NoJob)
  BY DEF Docker!End, Docker!Goto, Goes
<1>2. l \in Docker!Steps
  BY DEF Resting, Docker!Steps
<1> QED
  BY <1>1, <1>2, NoJobIs, RestFits, DevSteps

\* A call fails, and the command goes on at l.
LEMMA DevShrugs ==
  ASSUME DockerInv, NEW t \in Terminal, dpc[t] \notin Resting, NEW l \in Docker!Steps, Docker!Goto(t, l),
         Docker!Shrug(t), Follows(l, djob[t]), WorldTyped'
  PROVE  DockerInv'
<1> DEFINE j == [djob[t] EXCEPT !.calm = FALSE, !.clean = None]
<1>1. djob[t] \in DevJobs
  BY DevKnown
<1>2. j \in DevJobs /\ ~j.calm /\ j.clean = None /\ j.op = djob[t].op
  BY <1>1 DEF DevJobs
<1>3. Goes(t, l, j)
  BY DEF Docker!Goto, Docker!Shrug, Goes
<1> HIDE DEF j
<1>4. \A v, ps, lf, bx, rt, fs : Fits(t, l, j, v, ps, lf, bx, rt, fs)
  BY <1>2 DEF Fits, Follows
<1> QED
  BY <1>2, <1>3, <1>4, DevSteps

\* The command goes on at l with what it knows.
LEMMA DevGoes ==
  ASSUME DockerInv, NEW t \in Terminal, dpc[t] \notin Resting, NEW l \in Docker!Steps, Docker!Goto(t, l),
         UNCHANGED djob, WorldTyped', Follows(l, djob[t]),
         djob[t].calm /\ l \notin Resting =>
            Undisturbed(t, l, djob[t], volume', probes', left', box', route', files')
  PROVE  DockerInv'
<1>1. djob[t] \in DevJobs /\ (djob[t].clean # None => djob[t].calm) /\ djob \in [Terminal -> DevJobs]
  BY DevKnown DEF DockerInv, DockerTyped
<1>2. Goes(t, l, djob[t])
  BY <1>1 DEF Docker!Goto, Goes
<1>3. Fits(t, l, djob[t], volume', probes', left', box', route', files')
  BY <1>1 DEF Fits
<1> QED
  BY <1>1, <1>2, <1>3, DevSteps

\* The command goes on at l as j, having read or chosen something.
LEMMA DevLearns ==
  ASSUME DockerInv, NEW t \in Terminal, dpc[t] \notin Resting, NEW l \in Docker!Steps,
         NEW j \in DevJobs, Goes(t, l, j), WorldTyped', Follows(l, djob[t]),
         j.op = djob[t].op, j.calm = djob[t].calm, j.clean = djob[t].clean,
         j.calm /\ l \notin Resting =>
            Undisturbed(t, l, j, volume', probes', left', box', route', files')
  PROVE  DockerInv'
<1>1. djob[t].clean # None => djob[t].calm
  BY DevKnown
<1>2. Fits(t, l, j, volume', probes', left', box', route', files')
  BY <1>1 DEF Fits, Follows
<1> QED
  BY <1>2, DevSteps

-----------------------------------------------------------------------------
(* The files.                                                              *)

LEMMA CleanLines ==
  ASSUME NEW c \in Files, ~Docker!HoldOwn(c)
  PROVE  /\ c = [requirements |-> c.requirements, dockerfile |-> c.dockerfile]
         /\ Docker!WithoutLine(Docker!WithLine(c.requirements, {Own, Pkg})) = c.requirements
         /\ Docker!WithoutLine(Docker!WithLine(c.dockerfile, {Own})) = c.dockerfile
<1>1. /\ c.requirements \in Seq(Line) /\ c.dockerfile \in Seq(Line)
      /\ DOMAIN c = {"requirements", "dockerfile"}
      /\ c = [requirements |-> c.requirements, dockerfile |-> c.dockerfile]
  BY DEF Files
<1>2. Own \notin Docker!Lines(c.requirements) /\ Own \notin Docker!Lines(c.dockerfile)
  BY <1>1 DEF Docker!HoldOwn
<1>3. {Own, Pkg} \in SUBSET Line /\ {Own} \in SUBSET Line
  BY DEF Line
<1> QED
  BY <1>1, <1>2, <1>3, LinesRestored

LEMMA DevEdits ==
  ASSUME DockerInv, NEW t \in Terminal, NEW from, from \notin Resting, NEW l \in Docker!Steps,
         NEW x \in {"requirements", "dockerfile"}, NEW f \in Seq(Line),
         Docker!EditFile(t, from, l, x, f), Follows(l, djob[t]),
         l \in Resting \union {"adddb", "build", "remove", "ports"},
         \A c \in Files : ~Docker!HoldOwn(c) /\ files = FilesAt(from, djob[t], c) =>
            [files EXCEPT ![x] = f] = FilesAt(l, djob[t], c)
  PROVE  DockerInv'
<1>1. dpc[t] = from /\ Docker!Goto(t, l) /\ UNCHANGED <<conf, volume, probes, left, box, route>>
  BY DEF Docker!EditFile, Docker!bounds
<1>2. WorldTyped
  BY DEF DockerInv, DockerTyped
<1>3. CASE files' = [files EXCEPT ![x] = f] /\ UNCHANGED djob
  <2>1. WorldTyped'
    BY <1>1, <1>2, <1>3 DEF WorldTyped, Files
  <2>2. ASSUME djob[t].calm
        PROVE  Undisturbed(t, l, djob[t], volume', probes', left', box', route', files')
    <3>1. djob[t].clean # None => djob[t].clean \in Files
      BY DevKnown DEF DevJobs
    <3> QED
      BY <1>1, <1>3, <2>2, <3>1, DevKnown DEF Undisturbed, Resting
  <2> QED
    BY <1>1, <1>3, <2>1, <2>2, DevGoes
<1>4. CASE UNCHANGED files /\ Docker!Shrug(t)
  <2>1. WorldTyped'
    BY <1>1, <1>2, <1>4 DEF WorldTyped
  <2> QED
    BY <1>1, <1>4, <2>1, DevShrugs
<1> QED
  BY <1>3, <1>4 DEF Docker!EditFile

LEMMA FilesKnown ==
  ASSUME DockerInv
  PROVE  /\ files \in Files /\ files.requirements \in Seq(Line) /\ files.dockerfile \in Seq(Line)
         /\ {Own, Pkg} \in SUBSET Line /\ {Own} \in SUBSET Line
  BY DEF DockerInv, DockerTyped, WorldTyped, Files, Line

LEMMA PackageAdded ==
  ASSUME DockerInv, NEW t \in Terminal, Docker!AddPackage(t)
  PROVE  DockerInv'
<1> DEFINE l == IF djob[t].op = "run" THEN "adddb" ELSE "build"
           f == Docker!WithLine(files.requirements, {Own, Pkg})
<1>1. f \in Seq(Line)
  BY FilesKnown, LineAdded
<1>2. Docker!EditFile(t, "add", l, "requirements", f) /\ dpc[t] = "add"
  BY DEF Docker!AddPackage, Docker!EditFile
<1>3. Follows("add", djob[t]) /\ djob[t].op \in Docker!Ops
  BY <1>2, DevKnown DEF DevJobs
<1>4. /\ Follows(l, djob[t]) /\ l \in Docker!Steps /\ "add" \notin Resting
      /\ l \in Resting \union {"adddb", "build", "remove", "ports"}
  BY <1>3 DEF Follows, Docker!Ops, Docker!Starts, Docker!Steps, Resting
<1>5. \A c \in Files : files = FilesAt("add", djob[t], c) =>
         [files EXCEPT !["requirements"] = f] = FilesAt(l, djob[t], c)
  BY DEF FilesAt, Files
<1> HIDE DEF l, f
<1> QED
  BY <1>1, <1>2, <1>4, <1>5, DevEdits

LEMMA DbInitAdded ==
  ASSUME DockerInv, NEW t \in Terminal, Docker!AddDbInit(t)
  PROVE  DockerInv'
<1> DEFINE f == Docker!WithLine(files.dockerfile, {Own})
<1>1. f \in Seq(Line)
  BY FilesKnown, LineAdded
<1>2. Docker!EditFile(t, "adddb", "build", "dockerfile", f) /\ dpc[t] = "adddb"
  BY DEF Docker!AddDbInit, Docker!EditFile
<1>3. Follows("adddb", djob[t]) /\ djob[t].op \in Docker!Ops
  BY <1>2, DevKnown DEF DevJobs
<1>4. /\ djob[t].op = "run" /\ Follows("build", djob[t]) /\ "build" \in Docker!Steps
      /\ "adddb" \notin Resting
  BY <1>3 DEF Follows, Docker!Ops, Docker!Starts, Docker!Steps, Resting
<1>5. \A c \in Files : files = FilesAt("adddb", djob[t], c) =>
         [files EXCEPT !["dockerfile"] = f] = FilesAt("build", djob[t], c)
  <2> SUFFICES ASSUME NEW c \in Files, files = FilesAt("adddb", djob[t], c)
               PROVE  [files EXCEPT !["dockerfile"] = f] = FilesAt("build", djob[t], c)
    OBVIOUS
  <2>1. files = [requirements |-> Docker!WithLine(c.requirements, {Own, Pkg}),
                 dockerfile |-> c.dockerfile]
    BY DEF FilesAt
  <2>2. f = Docker!WithLine(c.dockerfile, {Own})
    BY <2>1
  <2> QED
    BY <1>4, <2>1, <2>2 DEF FilesAt
<1> HIDE DEF f
<1> QED
  BY <1>1, <1>2, <1>4, <1>5, DevEdits

LEMMA DbInitRemoved ==
  ASSUME DockerInv, NEW t \in Terminal, Docker!RemoveDbInit(t)
  PROVE  DockerInv'
<1> DEFINE f == Docker!WithoutLine(files.dockerfile)
<1>1. f \in Seq(Line)
  BY FilesKnown, LineRemoved
<1>2. dpc[t] = "removedb" /\ "removedb" \notin Resting
  BY DEF Docker!RemoveDbInit, Docker!EditFile, Resting
<1>3. CASE Docker!EditFile(t, "removedb", "remove", "dockerfile", f)
  <2>1. Follows("removedb", djob[t]) /\ djob[t].op \in Docker!Ops
    BY <1>2, DevKnown DEF DevJobs
  <2>2. Follows("remove", djob[t]) /\ "remove" \in Docker!Steps
    BY <2>1 DEF Follows, Docker!Ops, Docker!Starts, Docker!Steps, Resting
  <2>3. \A c \in Files : ~Docker!HoldOwn(c) /\ files = FilesAt("removedb", djob[t], c) =>
           [files EXCEPT !["dockerfile"] = f] = FilesAt("remove", djob[t], c)
    BY CleanLines DEF FilesAt
  <2> HIDE DEF f
  <2> QED
    BY <1>1, <1>2, <1>3, <2>2, <2>3, DevEdits
<1>4. CASE Docker!End(t, "idle") /\ UNCHANGED Docker!world
  <2>1. WorldTyped'
    BY <1>4 DEF DockerInv, DockerTyped, WorldTyped, Docker!world
  <2> QED
    BY <1>2, <1>4, <2>1, DevEnds DEF Resting
<1> QED
  BY <1>3, <1>4 DEF Docker!RemoveDbInit

LEMMA PackageRemoved ==
  ASSUME DockerInv, NEW t \in Terminal, Docker!RemovePackage(t)
  PROVE  DockerInv'
<1> DEFINE l == IF djob[t].failed THEN "idle" ELSE IF djob[t].op = "run" THEN "done" ELSE "ports"
           f == Docker!WithoutLine(files.requirements)
<1>1. f \in Seq(Line)
  BY FilesKnown, LineRemoved
<1>2. Docker!EditFile(t, "remove", l, "requirements", f) /\ dpc[t] = "remove"
  BY DEF Docker!RemovePackage, Docker!EditFile
<1>3. Follows("remove", djob[t]) /\ djob[t].op \in Docker!Ops
  BY <1>2, DevKnown DEF DevJobs
<1>4. /\ Follows(l, djob[t]) /\ l \in Docker!Steps /\ "remove" \notin Resting
      /\ l \in Resting \union {"adddb", "build", "remove", "ports"}
  BY <1>3 DEF Follows, Docker!Ops, Docker!Starts, Docker!Steps, Resting
<1>5. \A c \in Files : ~Docker!HoldOwn(c) /\ files = FilesAt("remove", djob[t], c) =>
         [files EXCEPT !["requirements"] = f] = FilesAt(l, djob[t], c)
  BY CleanLines DEF FilesAt
<1> HIDE DEF l, f
<1> QED
  BY <1>1, <1>2, <1>4, <1>5, DevEdits

-----------------------------------------------------------------------------
(* The image, the port and the version.                                    *)

LEMMA WorldKept ==
  ASSUME DockerInv, UNCHANGED Docker!world
  PROVE  WorldTyped'
  BY DEF DockerInv, DockerTyped, WorldTyped, Docker!world

LEMMA CommandIs ==
  ASSUME DockerInv, NEW t \in Terminal
  PROVE  /\ djob[t] \in DevJobs /\ djob[t].op \in Docker!Ops /\ conf \in Majors
         /\ volume \in Majors \union {None, 0} /\ djob[t].tag \in Majors \union {0}
         /\ Follows(dpc[t], djob[t])
  BY DevKnown DEF DevJobs, DockerInv, DockerTyped, WorldTyped

LEMMA ImageBuilt ==
  ASSUME DockerInv, NEW t \in Terminal, Docker!BuildImage(t)
  PROVE  DockerInv'
<1> DEFINE l == IF djob[t].op = "run" THEN "removedb" ELSE "remove"
<1>1. /\ dpc[t] = "build" /\ Docker!Goto(t, l) /\ UNCHANGED Docker!world
      /\ \E ok \in BOOLEAN : djob' = [djob EXCEPT ![t].failed = ~ok]
  BY DEF Docker!BuildImage
<1>2. PICK ok \in BOOLEAN : djob' = [djob EXCEPT ![t].failed = ~ok]
  BY <1>1
<1> DEFINE j == [djob[t] EXCEPT !.failed = ~ok]
<1>3. /\ j \in DevJobs /\ j.op = djob[t].op /\ j.calm = djob[t].calm /\ j.clean = djob[t].clean
      /\ j.warned = djob[t].warned /\ j.tag = djob[t].tag /\ j.proxy = djob[t].proxy
  BY CommandIs DEF DevJobs
<1>4. /\ Follows(l, djob[t]) /\ l \in Docker!Steps /\ dpc[t] \notin Resting
      /\ l \in {"remove", "removedb"} /\ (l = "removedb" <=> djob[t].op = "run")
  BY <1>1, CommandIs DEF Follows, Docker!Ops, Docker!Starts, Docker!Steps, Resting
<1>5. Goes(t, l, j)
  BY <1>1, <1>2 DEF Goes, Docker!Goto
<1>6. WorldTyped' /\ UNCHANGED <<volume, probes, left, box, route, files>>
  BY <1>1, WorldKept DEF Docker!world
<1> HIDE DEF l, j
<1>7. j.calm => Undisturbed(t, l, j, volume', probes', left', box', route', files')
  BY <1>1, <1>3, <1>4, <1>6, DevKnown DEF Undisturbed, FilesAt
<1> QED
  BY <1>3, <1>4, <1>5, <1>6, <1>7, DevLearns

LEMMA ImageTagged ==
  ASSUME DockerInv, NEW t \in Terminal, Docker!TagImage(t)
  PROVE  DockerInv'
<1>1. /\ dpc[t] = "tag" /\ Docker!Goto(t, "ports") /\ UNCHANGED Docker!world /\ UNCHANGED djob
      /\ UNCHANGED <<volume, probes, left, box, route, files>>
  BY DEF Docker!TagImage, Docker!world
<1>2. Follows("ports", djob[t]) /\ "ports" \in Docker!Steps /\ dpc[t] \notin Resting
  BY <1>1, CommandIs DEF Follows, Docker!Ops, Docker!Starts, Docker!Steps, Resting
<1>3. djob[t].calm =>
         Undisturbed(t, "ports", djob[t], volume', probes', left', box', route', files')
  BY <1>1, <1>2, DevKnown DEF Undisturbed, FilesAt
<1> QED
  BY <1>1, <1>2, <1>3, WorldKept, DevGoes

LEMMA PortChosen ==
  ASSUME DockerInv, NEW t \in Terminal, Docker!ChoosePort(t)
  PROVE  DockerInv'
<1>1. /\ dpc[t] = "ports" /\ Docker!Goto(t, "volume") /\ UNCHANGED Docker!world
      /\ \E p \in Docker!Port : djob' = [djob EXCEPT ![t].port = p]
  BY DEF Docker!ChoosePort
<1>2. PICK p \in Docker!Port : djob' = [djob EXCEPT ![t].port = p]
  BY <1>1
<1> DEFINE j == [djob[t] EXCEPT !.port = p]
<1>3. /\ j \in DevJobs /\ j.op = djob[t].op /\ j.calm = djob[t].calm /\ j.clean = djob[t].clean
      /\ j.warned = djob[t].warned /\ j.tag = djob[t].tag /\ j.proxy = djob[t].proxy
  BY CommandIs DEF DevJobs
<1>4. Follows("volume", djob[t]) /\ "volume" \in Docker!Steps /\ dpc[t] \notin Resting
  BY <1>1, CommandIs DEF Follows, Docker!Ops, Docker!Starts, Docker!Steps, Resting
<1>5. Goes(t, "volume", j)
  BY <1>1, <1>2 DEF Goes, Docker!Goto
<1>6. WorldTyped' /\ UNCHANGED <<volume, probes, left, box, route, files>>
  BY <1>1, WorldKept DEF Docker!world
<1> HIDE DEF j
<1>7. j.calm => Undisturbed(t, "volume", j, volume', probes', left', box', route', files')
  BY <1>1, <1>3, <1>4, <1>6, DevKnown DEF Undisturbed, FilesAt
<1> QED
  BY <1>3, <1>4, <1>5, <1>6, <1>7, DevLearns

\* Where a command goes with the version it has settled on.
LEMMA SettledIs ==
  ASSUME DockerInv, NEW t \in Terminal, dpc[t] \in {"volume", "probe", "unprobe"}
  PROVE  /\ Docker!Settled(t) \in {"up", "write"} /\ Docker!Settled(t) \in Docker!Steps
         /\ Follows(Docker!Settled(t), djob[t]) /\ Follows("probe", djob[t])
         /\ dpc[t] \notin Resting
  BY CommandIs DEF Follows, Docker!Ops, Docker!Starts, Docker!Steps, Resting, Docker!Settled

\* The command takes a version, and may warn.
LEMMA VersionTaken ==
  ASSUME DockerInv, NEW t \in Terminal, NEW g \in Majors \union {0}, NEW w \in BOOLEAN,
         NEW l \in {"unprobe", "up", "write"}, Docker!Goto(t, l),
         djob' = [djob EXCEPT ![t] = [djob[t] EXCEPT !.tag = g, !.warned = w]],
         dpc[t] \in {"volume", "probe", "copy"}, Follows(l, djob[t]),
         UNCHANGED Docker!world,
         djob[t].calm /\ Pinned /\ ~w => volume \in {None, 0, g}
  PROVE  DockerInv'
<1> DEFINE j == [djob[t] EXCEPT !.tag = g, !.warned = w]
<1>1. /\ j \in DevJobs /\ j.op = djob[t].op /\ j.calm = djob[t].calm /\ j.clean = djob[t].clean
      /\ j.warned = w /\ j.tag = g
  BY CommandIs DEF DevJobs
<1>2. Goes(t, l, j) /\ l \in Docker!Steps /\ dpc[t] \notin Resting
  BY DEF Goes, Docker!Goto, Docker!Steps, Resting
<1>3. WorldTyped' /\ UNCHANGED <<volume, probes, left, box, route, files>>
  BY WorldKept DEF Docker!world
<1> HIDE DEF j
<1>4. j.calm => Undisturbed(t, l, j, volume', probes', left', box', route', files')
  BY <1>1, <1>2, <1>3, DevKnown DEF Undisturbed, FilesAt
<1> QED
  BY <1>1, <1>2, <1>3, <1>4, DevLearns

LEMMA VolumeFound ==
  ASSUME DockerInv, NEW t \in Terminal, Docker!FindVolume(t)
  PROVE  DockerInv'
<1>1. dpc[t] = "volume" /\ UNCHANGED Docker!world
  BY DEF Docker!FindVolume
<1>2. CASE Pinned /\ volume # None
  <2>1. /\ Docker!Goto(t, "probe") /\ UNCHANGED djob /\ "probe" \in Docker!Steps
        /\ UNCHANGED <<volume, probes, left, box, route, files>>
    BY <1>1, <1>2 DEF Docker!FindVolume, Docker!world, Docker!Steps
  <2>2. Follows("probe", djob[t]) /\ dpc[t] \notin Resting
    BY <1>1, SettledIs
  <2>3. djob[t].calm =>
           Undisturbed(t, "probe", djob[t], volume', probes', left', box', route', files')
    BY <1>1, <2>1, <2>2, DevKnown DEF Undisturbed, FilesAt
  <2> QED
    BY <1>1, <2>1, <2>2, <2>3, WorldKept, DevGoes
<1>3. CASE ~(Pinned /\ volume # None)
  <2>1. Docker!Goto(t, Docker!Settled(t)) /\ djob' = [djob EXCEPT ![t].tag = conf]
    BY <1>3 DEF Docker!FindVolume
  <2>2. /\ djob[t].warned \in BOOLEAN
        /\ [djob[t] EXCEPT !.tag = conf]
              = [djob[t] EXCEPT !.tag = conf, !.warned = djob[t].warned]
    BY CommandIs DEF DevJobs
  <2>3. djob' = [djob EXCEPT ![t] =
                    [djob[t] EXCEPT !.tag = conf, !.warned = djob[t].warned]]
    BY <2>1, <2>2
  <2>4. Pinned => volume \in {None, 0, conf}
    BY <1>3
  <2>5. /\ conf \in Majors \union {0} /\ Docker!Settled(t) \in {"unprobe", "up", "write"}
        /\ Follows(Docker!Settled(t), djob[t]) /\ dpc[t] \in {"volume", "probe", "copy"}
    BY <1>1, SettledIs, CommandIs
  <2> DEFINE l == Docker!Settled(t)
             w == djob[t].warned
  <2>6. /\ w \in BOOLEAN /\ Docker!Goto(t, l) /\ l \in {"unprobe", "up", "write"}
        /\ djob' = [djob EXCEPT ![t] = [djob[t] EXCEPT !.tag = conf, !.warned = w]]
        /\ Follows(l, djob[t])
    BY <2>1, <2>2, <2>3, <2>5
  <2> HIDE DEF l, w
  <2> QED
    BY <1>1, <2>4, <2>5, <2>6, VersionTaken
<1> QED
  BY <1>2, <1>3

LEMMA ProbeCreated ==
  ASSUME DockerInv, NEW t \in Terminal, Docker!CreateProbe(t)
  PROVE  DockerInv'
<1>1. dpc[t] = "probe" /\ UNCHANGED <<conf, box, route, files>>
  BY DEF Docker!CreateProbe
<1>2. CASE /\ probes' = {t} /\ left' = FALSE
           /\ volume' = IF volume = None THEN 0 ELSE volume
           /\ Docker!Goto(t, "copy")
           /\ UNCHANGED djob
  <2>1. WorldTyped'
    BY <1>1, <1>2 DEF DockerInv, DockerTyped, WorldTyped
  <2>2. Follows("copy", djob[t]) /\ "copy" \in Docker!Steps /\ dpc[t] \notin Resting
    BY <1>1, CommandIs DEF Follows, Docker!Ops, Docker!Starts, Docker!Steps, Resting
  <2>3. djob[t].calm =>
           Undisturbed(t, "copy", djob[t], volume', probes', left', box', route', files')
    BY <1>1, <1>2, <2>2, DevKnown DEF Undisturbed, FilesAt
  <2> QED
    BY <1>2, <2>1, <2>2, <2>3, DevGoes
<1>3. CASE Docker!Unchecked(t, Docker!Settled(t)) /\ UNCHANGED <<volume, probes, left>>
  <2>1. UNCHANGED Docker!world
    BY <1>1, <1>3 DEF Docker!world
  <2> QED
    BY <1>1, <1>3, <2>1, SettledIs, CommandIs, VersionTaken DEF Docker!Unchecked
<1> QED
  BY <1>2, <1>3 DEF Docker!CreateProbe

LEMMA VersionCopied ==
  ASSUME DockerInv, NEW t \in Terminal, Docker!CopyVersion(t)
  PROVE  DockerInv'
<1> DEFINE g == IF t \notin probes \/ volume \in {None, 0} THEN conf ELSE volume
<1>1. dpc[t] = "copy" /\ UNCHANGED Docker!world
  BY DEF Docker!CopyVersion
<1>2. Follows("unprobe", djob[t])
  BY <1>1, CommandIs DEF Follows, Docker!Ops, Docker!Starts, Resting
<1>3. CASE djob' = [djob EXCEPT ![t].tag = g] /\ Docker!Goto(t, "unprobe")
  <2>1. g \in Majors
    BY CommandIs
  <2>2. djob[t].calm => volume \in {None, 0, g}
    BY <1>1, DevKnown DEF Undisturbed, Resting
  <2> HIDE DEF g
  <2>3. /\ djob[t].warned \in BOOLEAN
        /\ [djob[t] EXCEPT !.tag = g] = [djob[t] EXCEPT !.tag = g, !.warned = djob[t].warned]
    BY CommandIs DEF DevJobs
  <2>4. djob' = [djob EXCEPT ![t] = [djob[t] EXCEPT !.tag = g, !.warned = djob[t].warned]]
    BY <1>3, <2>3
  <2> QED
    BY <1>1, <1>2, <1>3, <2>1, <2>2, <2>3, <2>4, VersionTaken
<1>4. CASE Docker!Unchecked(t, "unprobe")
  BY <1>1, <1>2, <1>4, CommandIs, VersionTaken DEF Docker!Unchecked
<1> QED
  BY <1>3, <1>4 DEF Docker!CopyVersion

LEMMA ProbeRemoved ==
  ASSUME DockerInv, NEW t \in Terminal, Docker!RemoveProbe(t)
  PROVE  DockerInv'
<1> DEFINE l == Docker!Settled(t)
<1>1. /\ dpc[t] = "unprobe" /\ Docker!Goto(t, l)
      /\ UNCHANGED <<conf, volume, box, route, files>>
  BY DEF Docker!RemoveProbe
<1>2. l \in {"up", "write"} /\ l \in Docker!Steps /\ Follows(l, djob[t]) /\ dpc[t] \notin Resting
  BY <1>1, SettledIs
<1>3. probes' = probes \ {t} /\ left' \in BOOLEAN
  BY DEF Docker!RemoveProbe, DockerInv, DockerTyped, WorldTyped
<1>4. WorldTyped'
  BY <1>1, <1>3 DEF DockerInv, DockerTyped, WorldTyped
<1> HIDE DEF l
<1>5. CASE UNCHANGED <<left, djob>>
  <2>1. djob[t].calm =>
           Undisturbed(t, l, djob[t], volume', probes', left', box', route', files')
    BY <1>1, <1>2, <1>5, DevKnown DEF Undisturbed, FilesAt
  <2> QED
    BY <1>1, <1>2, <1>4, <1>5, <2>1, DevGoes
<1>6. CASE Docker!Shrug(t)
  BY <1>1, <1>2, <1>4, <1>6, DevShrugs
<1> QED
  BY <1>5, <1>6 DEF Docker!RemoveProbe

-----------------------------------------------------------------------------
(* The containers and the route.                                           *)

LEMMA ComposeIsUp ==
  ASSUME DockerInv, NEW t \in Terminal, Docker!ComposeUp(t)
  PROVE  DockerInv'
<1>1. /\ dpc[t] = "up" /\ Docker!Goto(t, "health") /\ UNCHANGED djob
      /\ box' = [state |-> "up", port |-> djob[t].port, tag |-> djob[t].tag]
      /\ volume' = (IF volume = None THEN 0 ELSE volume)
      /\ UNCHANGED <<conf, probes, left, route, files>>
  BY DEF Docker!ComposeUp
<1>2. box' \in Boxes
  BY <1>1, CommandIs DEF Boxes, DevJobs
<1>3. WorldTyped'
  BY <1>1, <1>2 DEF DockerInv, DockerTyped, WorldTyped
<1>4. Follows("health", djob[t]) /\ "health" \in Docker!Steps /\ dpc[t] \notin Resting
  BY <1>1, CommandIs DEF Follows, Docker!Ops, Docker!Starts, Docker!Steps, Resting
<1>5. djob[t].calm =>
         Undisturbed(t, "health", djob[t], volume', probes', left', box', route', files')
  BY <1>1, <1>4, DevKnown DEF Undisturbed, FilesAt
<1> QED
  BY <1>1, <1>3, <1>4, <1>5, DevGoes

LEMMA IsHealthy ==
  ASSUME DockerInv, NEW t \in Terminal, Docker!Healthy(t)
  PROVE  DockerInv'
<1> DEFINE l == IF djob[t].proxy THEN "route" ELSE "status"
<1>1. /\ dpc[t] = "health" /\ Docker!Goto(t, l) /\ UNCHANGED djob /\ UNCHANGED Docker!world
      /\ UNCHANGED <<volume, probes, left, box, route, files>>
      /\ box.state = "up" /\ box.port = djob[t].port /\ volume = box.tag
  BY DEF Docker!Healthy, Docker!world, Docker!Bound
<1>2. /\ Follows(l, djob[t]) /\ l \in Docker!Steps /\ dpc[t] \notin Resting
      /\ l \in {"route", "status"} /\ (l = "status" => ~djob[t].proxy)
  BY <1>1, CommandIs DEF Follows, Docker!Ops, Docker!Starts, Docker!Steps, Resting
<1> HIDE DEF l
<1>3. djob[t].calm =>
         Undisturbed(t, l, djob[t], volume', probes', left', box', route', files')
  BY <1>1, <1>2, DevKnown DEF Undisturbed, FilesAt
<1> QED
  BY <1>1, <1>2, <1>3, WorldKept, DevGoes

LEMMA RouteAdded ==
  ASSUME DockerInv, NEW t \in Terminal, Docker!AddRoute(t)
  PROVE  DockerInv'
<1>1. /\ dpc[t] = "route" /\ Docker!Goto(t, "status")
      /\ UNCHANGED <<conf, volume, probes, left, box, files>>
  BY DEF Docker!AddRoute
<1>2. Follows("status", djob[t]) /\ "status" \in Docker!Steps /\ dpc[t] \notin Resting
  BY <1>1, CommandIs DEF Follows, Docker!Ops, Docker!Starts, Docker!Steps, Resting
<1>3. CASE route' = djob[t].port /\ UNCHANGED djob
  <2>1. WorldTyped'
    BY <1>1, <1>3, CommandIs DEF DockerInv, DockerTyped, WorldTyped, DevJobs
  <2>2. djob[t].calm =>
           Undisturbed(t, "status", djob[t], volume', probes', left', box', route', files')
    BY <1>1, <1>2, <1>3, DevKnown DEF Undisturbed, FilesAt
  <2> QED
    BY <1>1, <1>2, <1>3, <2>1, <2>2, DevGoes
<1>4. CASE UNCHANGED route /\ Docker!Shrug(t)
  <2>1. WorldTyped'
    BY <1>1, <1>4 DEF DockerInv, DockerTyped, WorldTyped
  <2> QED
    BY <1>1, <1>2, <1>4, <2>1, DevShrugs
<1> QED
  BY <1>3, <1>4 DEF Docker!AddRoute

LEMMA RouteRemoved ==
  ASSUME DockerInv, NEW t \in Terminal, Docker!RemoveRoute(t)
  PROVE  DockerInv'
<1> DEFINE l == IF djob[t].op \in {"stop", "restart"} THEN "stop" ELSE "clear"
<1>1. /\ dpc[t] = "unroute" /\ Docker!Goto(t, l)
      /\ UNCHANGED <<conf, volume, probes, left, box, files>>
  BY DEF Docker!RemoveRoute
<1>2. /\ Follows(l, djob[t]) /\ l \in Docker!Steps /\ dpc[t] \notin Resting
      /\ l \in {"stop", "clear"}
  BY <1>1, CommandIs DEF Follows, Docker!Ops, Docker!Starts, Docker!Steps, Resting
<1>3. WorldTyped'
  BY <1>1 DEF DockerInv, DockerTyped, WorldTyped, Docker!RemoveRoute
<1> HIDE DEF l
<1>4. CASE route' = None /\ UNCHANGED djob
  <2>1. djob[t].calm =>
           Undisturbed(t, l, djob[t], volume', probes', left', box', route', files')
    BY <1>1, <1>2, <1>4, DevKnown DEF Undisturbed, FilesAt
  <2> QED
    BY <1>1, <1>2, <1>3, <1>4, <2>1, DevGoes
<1>5. CASE Docker!Shrug(t)
  BY <1>1, <1>2, <1>3, <1>5, DevShrugs
<1> QED
  BY <1>4, <1>5 DEF Docker!RemoveRoute

LEMMA ProbesCleared ==
  ASSUME DockerInv, NEW t \in Terminal, Docker!ClearProbes(t)
  PROVE  DockerInv'
<1>1. /\ dpc[t] = "clear" /\ Docker!Goto(t, "down")
      /\ UNCHANGED <<conf, volume, box, route, files>>
  BY DEF Docker!ClearProbes
<1>2. Follows("down", djob[t]) /\ "down" \in Docker!Steps /\ dpc[t] \notin Resting
  BY <1>1, CommandIs DEF Follows, Docker!Ops, Docker!Starts, Docker!Steps, Resting
<1>3. WorldTyped'
  BY <1>1 DEF DockerInv, DockerTyped, WorldTyped, Docker!ClearProbes
<1>4. CASE probes' = {} /\ left' = FALSE /\ UNCHANGED djob
  <2>1. djob[t].calm =>
           Undisturbed(t, "down", djob[t], volume', probes', left', box', route', files')
    BY <1>1, <1>2, <1>4, DevKnown DEF Undisturbed, FilesAt
  <2> QED
    BY <1>1, <1>2, <1>3, <1>4, <2>1, DevGoes
<1>5. CASE Docker!Shrug(t)
  BY <1>1, <1>2, <1>3, <1>5, DevShrugs
<1> QED
  BY <1>4, <1>5 DEF Docker!ClearProbes

\* After the containers: a restart goes on as a start.
LEMMA StartFollows ==
  ASSUME DockerInv, NEW t \in Terminal, dpc[t] \in {"stop", "down"}, Docker!AndStart(t),
         WorldTyped', files' = files
  PROVE  DockerInv'
<1> DEFINE l == IF djob[t].image THEN "tag" ELSE "add"
<1>1. dpc[t] \notin Resting
  BY DEF Resting
<1>2. CASE djob[t].op \in Docker!Starts
  <2>1. Docker!Goto(t, l) /\ UNCHANGED djob
    BY <1>2 DEF Docker!AndStart
  <2>2. Follows(l, djob[t]) /\ l \in Docker!Steps /\ l \in {"tag", "add"}
    BY <1>2 DEF Follows, Docker!Starts, Docker!Steps, Resting
  <2> HIDE DEF l
  <2>3. djob[t].calm =>
           Undisturbed(t, l, djob[t], volume', probes', left', box', route', files')
    BY <1>1, <2>2, DevKnown DEF Undisturbed, FilesAt
  <2> QED
    BY <1>1, <2>1, <2>2, <2>3, DevGoes
<1>3. CASE djob[t].op \notin Docker!Starts
  <2>1. Docker!End(t, "done")
    BY <1>3 DEF Docker!AndStart
  <2> QED
    BY <1>1, <2>1, DevEnds DEF Resting
<1> QED
  BY <1>2, <1>3

LEMMA ComposeStopped ==
  ASSUME DockerInv, NEW t \in Terminal, Docker!ComposeStop(t)
  PROVE  DockerInv'
<1>1. box \in Boxes
  BY DEF DockerInv, DockerTyped, WorldTyped
<1>2. box' \in Boxes
  BY <1>1 DEF Docker!ComposeStop, Boxes
<1>3. WorldTyped'
  BY <1>2 DEF DockerInv, DockerTyped, WorldTyped, Docker!ComposeStop
<1> QED
  BY <1>3, StartFollows DEF Docker!ComposeStop

LEMMA ComposeIsDown ==
  ASSUME DockerInv, NEW t \in Terminal, Docker!ComposeDown(t)
  PROVE  DockerInv'
<1>1. box' \in Boxes
  BY DEF Docker!ComposeDown, Boxes
<1>2. WorldTyped'
  BY <1>1 DEF DockerInv, DockerTyped, WorldTyped, Docker!ComposeDown
<1> QED
  BY <1>2, StartFollows DEF Docker!ComposeDown

-----------------------------------------------------------------------------
(* Ends, and what else happens.                                            *)

LEMMA CommandFails ==
  ASSUME DockerInv, NEW t \in Terminal, Docker!Fail(t)
  PROVE  DockerInv'
<1>1. dpc[t] \notin Resting /\ Docker!End(t, "idle") /\ UNCHANGED Docker!world
  BY DEF Docker!Fail, Resting
<1> QED
  BY <1>1, WorldKept, DevEnds DEF Resting

LEMMA CommandDone ==
  ASSUME DockerInv, NEW t \in Terminal, Docker!PrintStatus(t) \/ Docker!WriteCompose(t)
  PROVE  DockerInv'
<1>1. dpc[t] \notin Resting /\ Docker!End(t, "done") /\ UNCHANGED Docker!world
  BY DEF Docker!PrintStatus, Docker!WriteCompose, Resting
<1> QED
  BY <1>1, WorldKept, DevEnds DEF Resting

LEMMA CommandKilled ==
  ASSUME DockerInv, NEW t \in Terminal, Docker!Killed(t)
  PROVE  DockerInv'
<1>1. dpc[t] \notin Resting /\ Docker!End(t, "idle")
  BY DEF Docker!Killed, Docker!Idle, Resting
<1>2. WorldTyped'
  BY DEF DockerInv, DockerTyped, WorldTyped, Docker!Killed
<1> QED
  BY <1>1, <1>2, DevEnds DEF Resting

\* What the other commands know once something has happened: nothing.
LEMMA DisturbedIs ==
  ASSUME DockerInv, NEW t \in Terminal
  PROVE  /\ Docker!Disturbed(djob)[t] \in DevJobs
         /\ ~Docker!Disturbed(djob)[t].calm /\ Docker!Disturbed(djob)[t].clean = None
         /\ Docker!Disturbed(djob)[t].op = djob[t].op
         /\ \A l, v, ps, lf, bx, rt, fs : Follows(l, djob[t]) =>
               Fits(t, l, Docker!Disturbed(djob)[t], v, ps, lf, bx, rt, fs)
<1> DEFINE j == [djob[t] EXCEPT !.calm = FALSE, !.clean = None]
<1>1. j \in DevJobs /\ ~j.calm /\ j.clean = None /\ j.op = djob[t].op
  BY CommandIs DEF DevJobs
<1>2. Docker!Disturbed(djob)[t] = j
  BY DEF Docker!Disturbed
<1> HIDE DEF j
<1> QED
  BY <1>1, <1>2 DEF Fits, Follows

LEMMA CommandBegins ==
  ASSUME DockerInv, NEW t \in Terminal, Docker!Begin(t)
  PROVE  DockerInv'
<1> DEFINE alone == \A u \in Terminal \ {t} : Docker!Idle(u)
           c == IF alone /\ ~Docker!HoldOwn(files) THEN files ELSE None
<1>1. /\ dpc[t] \in Resting /\ UNCHANGED Docker!world
      /\ UNCHANGED <<volume, probes, left, box, route, files>>
  BY DEF Docker!Begin, Docker!Idle, Resting, Docker!world
<1>2. PICK op \in Docker!Ops, img \in BOOLEAN, proxy \in BOOLEAN :
         /\ op # "start" => ~img /\ proxy
         /\ Docker!Goto(t, Docker!FirstStep(op, img))
         /\ djob' = [Docker!Disturbed(djob) EXCEPT ![t] =
               [Docker!NoJob EXCEPT !.op = op, !.image = img, !.proxy = proxy,
                  !.calm = alone, !.clean = c]]
  BY DEF Docker!Begin
<1> DEFINE j == [Docker!NoJob EXCEPT !.op = op, !.image = img, !.proxy = proxy,
                    !.calm = alone, !.clean = c]
           l == Docker!FirstStep(op, img)
<1>3. alone \in BOOLEAN /\ c \in Files \union {None}
  BY FilesKnown
<1>4. c # None => alone /\ ~Docker!HoldOwn(c) /\ c = files
  OBVIOUS
<1>5. l \in Docker!Steps /\ l \in Resting \union {"unroute", "volume", "add", "tag"}
  BY DEF Docker!FirstStep, Docker!Steps, Resting
<1>6. /\ op = "export" => l = "volume"
      /\ op \in {"kill", "stop"} => l = "unroute"
      /\ op = "run" => l \in {"done", "add"}
  BY DEF Docker!FirstStep
<1> HIDE DEF alone, c, l
<1>7. j \in DevJobs /\ j.op = op /\ j.calm = alone /\ j.clean = c
  BY <1>3, NoJobIs DEF DevJobs
<1>8. /\ djob' = [Docker!Disturbed(djob) EXCEPT ![t] = j]
      /\ dpc' = [dpc EXCEPT ![t] = l]
  BY <1>2 DEF Docker!Goto, l
<1> HIDE DEF j
<1>9. /\ DOMAIN Docker!Disturbed(djob) = Terminal
      /\ Docker!Disturbed(djob) = [u \in Terminal |-> Docker!Disturbed(djob)[u]]
  BY DEF Docker!Disturbed
<1>10. djob'[t] = j /\ \A u \in Terminal \ {t} : djob'[u] = Docker!Disturbed(djob)[u]
  BY <1>8, <1>9
<1>11. dpc'[t] = l /\ \A u \in Terminal \ {t} : dpc'[u] = dpc[u]
  BY <1>8 DEF DockerInv, DockerTyped
<1>12. djob' \in [Terminal -> DevJobs]
  BY <1>7, <1>8, <1>9, <1>10, DisturbedIs
<1>13. dpc' \in [Terminal -> Docker!Steps]
  BY <1>5, <1>8 DEF DockerInv, DockerTyped
<1>14. DockerTyped'
  BY <1>1, <1>12, <1>13, WorldKept DEF DockerTyped
<1>15. Follows(l, j)
  BY <1>5, <1>6, <1>7 DEF Follows, Docker!Starts, Resting
<1>16. alone /\ l \notin Resting => Undisturbed(t, l, j, volume, probes, left, box, route, files)
  <2>1. c # None => FilesAt(l, j, c) = files
    BY <1>4, <1>5, FilesKnown DEF FilesAt, Files, Resting
  <2> QED
    BY <1>4, <1>5, <1>7, <2>1 DEF Undisturbed, Resting
<1>17. Fits(t, l, j, volume, probes, left, box, route, files)
  BY <1>4, <1>7, <1>15, <1>16 DEF Fits
<1>18. ASSUME NEW u \in Terminal
       PROVE  Fits(u, dpc'[u], djob'[u], volume', probes', left', box', route', files')
  <2>1. CASE u = t
    BY <1>1, <1>10, <1>11, <1>17, <2>1
  <2>2. CASE u # t
    BY <1>10, <1>11, <2>2, CommandIs, DisturbedIs
  <2> QED
    BY <2>1, <2>2
<1>19. ASSUME NEW u \in Terminal, djob'[u].calm
       PROVE  \A w \in Terminal \ {u} : dpc'[w] \in Resting
  <2>1. u = t /\ alone
    BY <1>7, <1>10, <1>19, DisturbedIs
  <2> QED
    BY <1>11, <2>1 DEF alone, Docker!Idle, Resting
<1> QED
  BY <1>14, <1>18, <1>19 DEF DockerInv

\* Something that leaves the commands where they are.
LEMMA CommandsStay ==
  ASSUME DockerInv, UNCHANGED dpc, WorldTyped', djob' \in [Terminal -> DevJobs],
         \A u \in Terminal : djob'[u].calm => djob[u].calm,
         \A u \in Terminal :
            Fits(u, dpc[u], djob'[u], volume', probes', left', box', route', files')
  PROVE  DockerInv'
<1>1. DockerTyped'
  BY DEF DockerInv, DockerTyped
<1> QED
  BY <1>1 DEF DockerInv

LEMMA DbInitialized ==
  ASSUME DockerInv, Docker!InitDb
  PROVE  DockerInv'
<1>1. /\ UNCHANGED dpc /\ UNCHANGED <<conf, probes, left, box, route, files>>
      /\ volume' = box.tag
      /\ djob' = [t \in Terminal |->
                     IF dpc[t] = "health" THEN djob[t] ELSE Docker!Disturbed(djob)[t]]
  BY DEF Docker!InitDb
<1>2. WorldTyped'
  BY <1>1 DEF DockerInv, DockerTyped, WorldTyped, Boxes
<1>3. djob' \in [Terminal -> DevJobs] /\ \A u \in Terminal : djob'[u].calm => djob[u].calm
  BY <1>1, CommandIs, DisturbedIs
<1>4. ASSUME NEW u \in Terminal
      PROVE  Fits(u, dpc[u], djob'[u], volume', probes', left', box', route', files')
  <2>1. CASE dpc[u] = "health"
    BY <1>1, <2>1, DevKnown DEF Fits, Undisturbed
  <2>2. CASE dpc[u] # "health"
    BY <1>1, <2>2, CommandIs, DisturbedIs
  <2> QED
    BY <2>1, <2>2
<1> QED
  BY <1>1, <1>2, <1>3, <1>4, CommandsStay

LEMMA ContainersEnded ==
  ASSUME DockerInv, Docker!ContainersEnd
  PROVE  DockerInv'
<1>1. UNCHANGED dpc /\ djob' = Docker!Disturbed(djob)
  BY DEF Docker!ContainersEnd
<1>2. box \in Boxes
  BY DEF DockerInv, DockerTyped, WorldTyped
<1>3. box' \in Boxes
  BY <1>2 DEF Docker!ContainersEnd, Boxes
<1>4. WorldTyped'
  BY <1>3 DEF DockerInv, DockerTyped, WorldTyped, Docker!ContainersEnd
<1>5. /\ DOMAIN Docker!Disturbed(djob) = Terminal
      /\ Docker!Disturbed(djob) = [u \in Terminal |-> Docker!Disturbed(djob)[u]]
  BY DEF Docker!Disturbed
<1>6. djob' \in [Terminal -> DevJobs] /\ \A u \in Terminal : ~djob'[u].calm
  BY <1>1, <1>5, DisturbedIs
<1>7. \A u \in Terminal :
         Fits(u, dpc[u], djob'[u], volume', probes', left', box', route', files')
  BY <1>1, CommandIs, DisturbedIs
<1> QED
  BY <1>1, <1>4, <1>6, <1>7, CommandsStay

LEMMA ConfigChanged ==
  ASSUME DockerInv, Docker!ChangeConfig
  PROVE  DockerInv'
<1>1. UNCHANGED <<dpc, djob, volume, probes, left, box, route, files>> /\ conf' \in Majors
  BY DEF Docker!ChangeConfig
<1>2. WorldTyped' /\ djob \in [Terminal -> DevJobs]
  BY <1>1 DEF DockerInv, DockerTyped, WorldTyped
<1> QED
  BY <1>1, <1>2, DevKnown, CommandsStay

LEMMA RequirementsEdited ==
  ASSUME DockerInv, Docker!EditRequirements
  PROVE  DockerInv'
<1>1. /\ UNCHANGED <<dpc, conf, volume, probes, left, box, route>>
      /\ files' = [files EXCEPT !.requirements = Append(files.requirements, User)]
      /\ djob' = [t \in Terminal |-> [djob[t] EXCEPT !.clean = None]]
  BY DEF Docker!EditRequirements
<1>2. Append(files.requirements, User) \in Seq(Line)
  BY FilesKnown DEF Line
<1>3. files' \in Files
  BY <1>1, <1>2, FilesKnown DEF Files
<1>4. WorldTyped'
  BY <1>1, <1>3 DEF DockerInv, DockerTyped, WorldTyped
<1>5. ASSUME NEW u \in Terminal
      PROVE  /\ djob'[u] \in DevJobs /\ djob'[u].clean = None /\ djob'[u].calm = djob[u].calm
             /\ djob'[u].op = djob[u].op /\ djob'[u].port = djob[u].port
             /\ djob'[u].proxy = djob[u].proxy /\ djob'[u].tag = djob[u].tag
             /\ djob'[u].warned = djob[u].warned
  BY <1>1, CommandIs DEF DevJobs
<1>6. djob' \in [Terminal -> DevJobs]
  BY <1>1, <1>5
<1>7. ASSUME NEW u \in Terminal
      PROVE  Fits(u, dpc[u], djob'[u], volume', probes', left', box', route', files')
  BY <1>1, <1>5, DevKnown DEF Fits, Follows, Undisturbed
<1> QED
  BY <1>1, <1>4, <1>5, <1>6, <1>7, CommandsStay

-----------------------------------------------------------------------------
(* The invariant.                                                          *)

LEMMA DockerStarts ==
  ASSUME Docker!Init
  PROVE  DockerInv
<1>1. DockerTyped
  <2>1. box \in Boxes
    BY DEF Docker!Init, Boxes
  <2>2. files \in Files
    <3>1. PICK r \in {<<User>>, <<User, Pkg>>}, d \in {<<User>>, <<User, Own, User>>} :
             files = [requirements |-> r, dockerfile |-> d]
      BY DEF Docker!Init
    <3>2. <<User>> \in Seq(Line) /\ <<User, Pkg>> \in Seq(Line) /\ <<User, Own, User>> \in Seq(Line)
      BY DEF Line
    <3> QED
      BY <3>1, <3>2 DEF Files
  <2> QED
    BY <2>1, <2>2, NoJobIs DEF Docker!Init, DockerTyped, WorldTyped, Docker!Steps
<1>2. \A t \in Terminal : djob[t] = Docker!NoJob /\ dpc[t] \in Resting
  BY DEF Docker!Init, Resting
<1> QED
  BY <1>1, <1>2, NoJobIs, RestFits DEF DockerInv

LEMMA DockerStays ==
  ASSUME DockerInv, [Docker!Next]_Docker!vars
  PROVE  DockerInv'
<1>1. CASE UNCHANGED Docker!vars
  BY <1>1, WorldKept DEF DockerInv, DockerTyped, Docker!vars, Docker!world
<1>2. ASSUME NEW t \in Terminal, Docker!Edit(t)
      PROVE  DockerInv'
  BY <1>2, PackageAdded, DbInitAdded, DbInitRemoved, PackageRemoved DEF Docker!Edit
<1>3. ASSUME NEW t \in Terminal, Docker!Resolve(t)
      PROVE  DockerInv'
  BY <1>3, VolumeFound, ProbeCreated, VersionCopied, ProbeRemoved DEF Docker!Resolve
<1>4. ASSUME NEW t \in Terminal, Docker!Start(t)
      PROVE  DockerInv'
  BY <1>4, ImageBuilt, ImageTagged, PortChosen, ComposeIsUp, IsHealthy, RouteAdded, CommandDone
     DEF Docker!Start
<1>5. ASSUME NEW t \in Terminal, Docker!Stop(t)
      PROVE  DockerInv'
  BY <1>5, RouteRemoved, ComposeStopped, ProbesCleared, ComposeIsDown DEF Docker!Stop
<1> QED
  BY <1>1, <1>2, <1>3, <1>4, <1>5, CommandBegins, CommandFails, CommandKilled, DbInitialized,
     ContainersEnded, ConfigChanged, RequirementsEdited DEF Docker!Next

-----------------------------------------------------------------------------
(* The steps that end a command.                                           *)

\* t's own steps.
Moves(t) ==
    \/ Docker!Begin(t) \/ Docker!Edit(t) \/ Docker!Resolve(t) \/ Docker!Start(t)
    \/ Docker!Stop(t) \/ Docker!Fail(t) \/ Docker!Killed(t)

LEMMA MovesOneself ==
  ASSUME NEW u \in Terminal, Moves(u)
  PROVE  \E l : dpc' = [dpc EXCEPT ![u] = l]
<1>1. CASE Docker!Begin(u) \/ Docker!Fail(u) \/ Docker!Killed(u)
  BY <1>1 DEF Docker!Begin, Docker!Fail, Docker!Killed, Docker!Goto, Docker!End
<1>2. CASE Docker!Edit(u)
  BY <1>2 DEF Docker!Edit, Docker!AddPackage, Docker!AddDbInit, Docker!RemoveDbInit,
     Docker!RemovePackage, Docker!EditFile, Docker!Goto, Docker!End
<1>3. CASE Docker!Resolve(u)
  BY <1>3 DEF Docker!Resolve, Docker!FindVolume, Docker!CreateProbe, Docker!CopyVersion,
     Docker!RemoveProbe, Docker!Unchecked, Docker!Goto
<1>4. CASE Docker!Start(u)
  BY <1>4 DEF Docker!Start, Docker!BuildImage, Docker!TagImage, Docker!ChoosePort,
     Docker!ComposeUp, Docker!Healthy, Docker!AddRoute, Docker!PrintStatus, Docker!WriteCompose,
     Docker!Goto, Docker!End
<1>5. CASE Docker!Stop(u)
  BY <1>5 DEF Docker!Stop, Docker!RemoveRoute, Docker!ComposeStop, Docker!ClearProbes,
     Docker!ComposeDown, Docker!AndStart, Docker!Goto, Docker!End
<1> QED
  BY <1>1, <1>2, <1>3, <1>4, <1>5 DEF Moves

LEMMA OnlyItsOwn ==
  ASSUME DockerInv, [Docker!Next]_Docker!vars, NEW t \in Terminal, dpc'[t] # dpc[t]
  PROVE  Moves(t)
<1>1. dpc \in [Terminal -> Docker!Steps]
  BY DEF DockerInv, DockerTyped
<1>2. CASE UNCHANGED dpc
  BY <1>2
<1>3. ASSUME NEW u \in Terminal, Moves(u)
      PROVE  Moves(t)
  <2>1. PICK l : dpc' = [dpc EXCEPT ![u] = l]
    BY <1>3, MovesOneself
  <2>2. u = t
    BY <1>1, <2>1
  <2> QED
    BY <1>3, <2>2
<1>4. CASE \E u \in Terminal : Moves(u)
  BY <1>3, <1>4
<1> QED
  BY <1>2, <1>4 DEF Docker!Next, Docker!vars, Moves, Docker!InitDb, Docker!ContainersEnd,
     Docker!ChangeConfig, Docker!EditRequirements

\* A command ends where it prints its status or writes the compose file, has
\* removed its line, fails, is killed, or has stopped the containers.
LEMMA EndsAre ==
  ASSUME DockerInv, NEW t \in Terminal, Moves(t), dpc[t] \notin Resting, dpc'[t] \in Resting
  PROVE  \/ Docker!PrintStatus(t) \/ Docker!WriteCompose(t) \/ Docker!Fail(t) \/ Docker!Killed(t)
         \/ Docker!RemovePackage(t)
         \/ dpc[t] = "removedb"
         \/ Docker!ComposeStop(t) /\ djob[t].op \notin Docker!Starts
         \/ Docker!ComposeDown(t) /\ djob[t].op \notin Docker!Starts
<1>1. dpc \in [Terminal -> Docker!Steps]
  BY DEF DockerInv, DockerTyped
<1>2. \A l : dpc' = [dpc EXCEPT ![t] = l] => dpc'[t] = l
  BY <1>1
<1>3. CASE Docker!Begin(t)
  BY <1>3 DEF Docker!Begin, Docker!Idle, Resting
<1>4. CASE Docker!Edit(t)
  BY <1>2, <1>4 DEF Docker!Edit, Docker!AddPackage, Docker!AddDbInit, Docker!RemoveDbInit,
     Docker!EditFile, Docker!Goto, Resting
<1>5. CASE Docker!Resolve(t)
  BY <1>2, <1>5 DEF Docker!Resolve, Docker!FindVolume, Docker!CreateProbe, Docker!CopyVersion,
     Docker!RemoveProbe, Docker!Unchecked, Docker!Settled, Docker!Goto, Resting
<1>6. CASE Docker!Start(t)
  BY <1>2, <1>6 DEF Docker!Start, Docker!BuildImage, Docker!TagImage, Docker!ChoosePort,
     Docker!ComposeUp, Docker!Healthy, Docker!AddRoute, Docker!Goto, Resting
<1>7. CASE Docker!Stop(t)
  BY <1>2, <1>7 DEF Docker!Stop, Docker!RemoveRoute, Docker!ComposeStop, Docker!ClearProbes,
     Docker!ComposeDown, Docker!AndStart, Docker!Goto, Resting
<1> QED
  BY <1>3, <1>4, <1>5, <1>6, <1>7 DEF Moves

-----------------------------------------------------------------------------
(* What the commands promise.                                              *)

LEMMA StartsServe ==
  ASSUME DockerInv, [Docker!Next]_Docker!vars, NEW t \in Terminal, Docker!Ends(t),
         djob[t].op \in Docker!Starts, djob[t].calm
  PROVE  /\ box.state = "up" /\ volume = box.tag
         /\ djob[t].proxy => route = box.port
<1>1. /\ dpc[t] \notin Resting /\ dpc'[t] = "done" /\ dpc'[t] \in Resting /\ dpc'[t] # dpc[t]
      /\ dpc \in [Terminal -> Docker!Steps]
  BY DEF Docker!Ends, Docker!Idle, Resting, DockerInv, DockerTyped
<1>2. Moves(t)
  BY <1>1, OnlyItsOwn
<1>3. dpc[t] \notin {"write", "removedb"} /\ djob[t].op # "run"
  BY <1>1, CommandIs DEF Follows, Docker!Starts
<1>4. ~Docker!WriteCompose(t) /\ ~Docker!RemovePackage(t)
  BY <1>1, <1>3 DEF Docker!WriteCompose, Docker!RemovePackage, Docker!EditFile, Docker!Goto
<1>5. ~Docker!Fail(t) /\ ~Docker!Killed(t)
  BY <1>1 DEF Docker!Fail, Docker!Killed, Docker!End, Docker!Goto
<1>6. dpc[t] = "status"
  BY <1>1, <1>2, <1>3, <1>4, <1>5, EndsAre DEF Docker!PrintStatus
<1> QED
  BY <1>6, DevKnown DEF Undisturbed, Resting

LEMMA KillsLeaveNothing ==
  ASSUME DockerInv, [Docker!Next]_Docker!vars, NEW t \in Terminal, Docker!Ends(t),
         djob[t].op = "kill", djob[t].calm
  PROVE  /\ box'.state = "none" /\ volume' = None /\ route' = None
         /\ probes' = {} /\ ~left'
<1>1. /\ dpc[t] \notin Resting /\ dpc'[t] = "done" /\ dpc'[t] \in Resting /\ dpc'[t] # dpc[t]
      /\ dpc \in [Terminal -> Docker!Steps]
  BY DEF Docker!Ends, Docker!Idle, Resting, DockerInv, DockerTyped
<1>2. Moves(t)
  BY <1>1, OnlyItsOwn
<1>3. dpc[t] \in {"unroute", "clear", "down"}
  BY <1>1, CommandIs DEF Follows
<1>4. ~Docker!WriteCompose(t) /\ ~Docker!RemovePackage(t) /\ ~Docker!PrintStatus(t)
      /\ ~Docker!ComposeStop(t)
  BY <1>3 DEF Docker!WriteCompose, Docker!RemovePackage, Docker!EditFile, Docker!PrintStatus,
     Docker!ComposeStop
<1>5. ~Docker!Fail(t) /\ ~Docker!Killed(t)
  BY <1>1 DEF Docker!Fail, Docker!Killed, Docker!End, Docker!Goto
<1>6. Docker!ComposeDown(t)
  BY <1>1, <1>2, <1>3, <1>4, <1>5, EndsAre
<1>7. dpc[t] = "down"
  BY <1>6 DEF Docker!ComposeDown
<1>8. route = None /\ probes = {} /\ ~left
  BY <1>7, DevKnown DEF Undisturbed, Resting
<1> QED
  BY <1>6, <1>8 DEF Docker!ComposeDown

LEMMA KeepsDatabase ==
  ASSUME DockerInv, NEW t \in Terminal, dpc[t] \in {"up", "write"}, Pinned,
         djob[t].calm, ~djob[t].warned
  PROVE  volume \in {None, 0, djob[t].tag}
  BY DevKnown DEF Undisturbed, Resting

LEMMA RestoresFiles ==
  ASSUME DockerInv, kills \in Nat, [Docker!Next]_Docker!vars, NEW t \in Terminal,
         ~Docker!Idle(t), dpc'[t] \in {"idle", "done"}, kills' = kills, djob[t].calm,
         djob[t].clean # None, dpc[t] # "removedb", ~Docker!Shrug(t)
  PROVE  files' = djob[t].clean
<1> DEFINE c == djob[t].clean
<1>1. /\ dpc[t] \notin Resting /\ dpc'[t] \in Resting /\ dpc'[t] # dpc[t]
      /\ dpc \in [Terminal -> Docker!Steps]
  BY DEF Docker!Idle, Resting, DockerInv, DockerTyped
<1>2. Moves(t)
  BY <1>1, OnlyItsOwn
<1>3. c \in Files /\ ~Docker!HoldOwn(c) /\ files = FilesAt(dpc[t], djob[t], c)
  BY <1>1, DevKnown DEF DevJobs, Undisturbed
<1>4. ~Docker!Killed(t)
  BY DEF Docker!Killed
<1>5. CASE Docker!RemovePackage(t)
  <2>1. dpc[t] = "remove" /\ files' = [files EXCEPT !["requirements"] =
                                          Docker!WithoutLine(files.requirements)]
    BY <1>5 DEF Docker!RemovePackage, Docker!EditFile
  <2>2. files = [requirements |-> Docker!WithLine(c.requirements, {Own, Pkg}),
                 dockerfile |-> c.dockerfile]
    BY <1>3, <2>1 DEF FilesAt
  <2>3. files' = [requirements |-> c.requirements, dockerfile |-> c.dockerfile]
    BY <1>3, <2>1, <2>2, CleanLines
  <2> QED
    BY <1>3, <2>3, CleanLines
<1>6. CASE ~Docker!RemovePackage(t)
  <2>1. /\ UNCHANGED files
        /\ dpc[t] \in {"tag", "ports", "volume", "write", "up", "health", "status", "stop", "down"}
    BY <1>1, <1>2, <1>4, <1>6, EndsAre DEF Docker!PrintStatus, Docker!WriteCompose, Docker!Fail,
       Docker!ComposeStop, Docker!ComposeDown, Docker!world
  <2>2. files = [requirements |-> c.requirements, dockerfile |-> c.dockerfile]
    BY <1>3, <2>1 DEF FilesAt
  <2> QED
    BY <1>3, <2>1, <2>2, CleanLines
<1> QED
  BY <1>5, <1>6

LEMMA KillsCounted ==
  ASSUME kills \in Nat, [Docker!Next]_Docker!vars
  PROVE  kills' \in Nat
<1>1. ASSUME NEW u \in Terminal, Docker!Begin(u) \/ Docker!Fail(u) \/ Docker!Killed(u)
      PROVE  kills' = kills \/ kills' = kills + 1
  <2>1. CASE Docker!Begin(u)
    BY <2>1 DEF Docker!Begin
  <2>2. CASE Docker!Fail(u)
    BY <2>2 DEF Docker!Fail, Docker!bounds
  <2>3. CASE Docker!Killed(u)
    BY <2>3 DEF Docker!Killed
  <2> QED
    BY <1>1, <2>1, <2>2, <2>3
<1>2. ASSUME NEW u \in Terminal, Docker!Edit(u)
      PROVE  kills' = kills
  BY <1>2 DEF Docker!Edit, Docker!AddPackage, Docker!AddDbInit, Docker!RemoveDbInit,
     Docker!RemovePackage, Docker!EditFile, Docker!bounds
<1>3. ASSUME NEW u \in Terminal, Docker!Resolve(u)
      PROVE  kills' = kills
  BY <1>3 DEF Docker!Resolve, Docker!FindVolume, Docker!CreateProbe, Docker!CopyVersion,
     Docker!RemoveProbe, Docker!bounds
<1>4. ASSUME NEW u \in Terminal, Docker!Start(u)
      PROVE  kills' = kills
  BY <1>4 DEF Docker!Start, Docker!BuildImage, Docker!TagImage, Docker!ChoosePort,
     Docker!ComposeUp, Docker!Healthy, Docker!AddRoute, Docker!PrintStatus, Docker!WriteCompose,
     Docker!bounds
<1>5. ASSUME NEW u \in Terminal, Docker!Stop(u)
      PROVE  kills' = kills
  BY <1>5 DEF Docker!Stop, Docker!RemoveRoute, Docker!ComposeStop, Docker!ClearProbes,
     Docker!ComposeDown, Docker!bounds
<1>6. CASE Docker!InitDb \/ Docker!ContainersEnd \/ Docker!ChangeConfig \/ Docker!EditRequirements
  BY <1>6 DEF Docker!InitDb, Docker!ContainersEnd, Docker!ChangeConfig, Docker!EditRequirements,
     Docker!bounds
<1>7. CASE UNCHANGED Docker!vars
  BY <1>7 DEF Docker!vars, Docker!bounds
<1> QED
  BY <1>1, <1>2, <1>3, <1>4, <1>5, <1>6, <1>7 DEF Docker!Next

DockerIInv == DockerInv /\ kills \in Nat

LEMMA DockerHolds == Docker!Spec => []DockerIInv
<1>1. Docker!Init => DockerIInv
  <2>1. Docker!Init => kills \in Nat
    BY DEF Docker!Init
  <2> QED
    BY <2>1, DockerStarts DEF DockerIInv
<1>2. DockerIInv /\ [Docker!Next]_Docker!vars => DockerIInv'
  BY DockerStays, KillsCounted DEF DockerIInv
<1> QED
  BY <1>1, <1>2, PTL DEF Docker!Spec

\* Whatever interrupted, failed or ran at once before: a start that runs
\* undisturbed and ends well leaves containers that run over a database they
\* can read, at the port the project's route names.
THEOREM StartsServeWell == Docker!Spec => StartServes
<1>1. DockerIInv /\ [Docker!Next]_Docker!vars =>
         [\A t \in Terminal :
             Docker!Ends(t) /\ djob[t].op \in Docker!Starts /\ djob[t].calm =>
                /\ box.state = "up" /\ volume = box.tag
                /\ djob[t].proxy => route = box.port]_Docker!vars
  BY StartsServe DEF DockerIInv
<1> QED
  BY <1>1, DockerHolds, PTL DEF StartServes, Docker!StartServes, Docker!Spec

\* A kill that runs undisturbed and ends well leaves no container, no route,
\* no probe and no volume.
THEOREM KillsLeaveNothingBehind == Docker!Spec => KillLeavesNothing
<1>1. DockerIInv /\ [Docker!Next]_Docker!vars =>
         [\A t \in Terminal :
             Docker!Ends(t) /\ djob[t].op = "kill" /\ djob[t].calm =>
                /\ box'.state = "none" /\ volume' = None /\ route' = None
                /\ probes' = {} /\ ~left']_Docker!vars
  BY KillsLeaveNothing DEF DockerIInv
<1> QED
  BY <1>1, DockerHolds, PTL DEF KillLeavesNothing, Docker!KillLeavesNothing, Docker!Spec

\* No server is started over a data directory it refuses, nor exported,
\* unless the user was warned, with a command that runs undisturbed.
THEOREM DatabasesKept == Docker!Spec => DatabaseKept
<1>1. DockerIInv /\ [Docker!Next]_Docker!vars =>
         [\A t \in Terminal :
             /\ dpc[t] \in {"up", "write"} /\ dpc'[t] \in {"health", "done"}
             /\ Pinned /\ djob[t].calm /\ ~djob[t].warned
             => volume \in {None, 0, djob[t].tag}]_Docker!vars
  BY KeepsDatabase DEF DockerIInv
<1> QED
  BY <1>1, DockerHolds, PTL DEF DatabaseKept, Docker!DatabaseKept, Docker!Spec

\* A command leaves requirements.txt and the Dockerfile as it found them,
\* also when the build or anything after it fails.
THEOREM FilesAreRestored == Docker!Spec => FilesRestored
<1>1. DockerIInv /\ [Docker!Next]_Docker!vars =>
         [\A t \in Terminal :
             /\ ~Docker!Idle(t) /\ dpc'[t] \in {"idle", "done"} /\ kills' = kills
             /\ djob[t].calm /\ djob[t].clean # None
             /\ dpc[t] # "removedb" /\ ~Docker!Shrug(t)
             => files' = djob[t].clean]_Docker!vars
  BY RestoresFiles DEF DockerIInv
<1> QED
  BY <1>1, DockerHolds, PTL DEF FilesRestored, Docker!FilesRestored, Docker!Spec

-----------------------------------------------------------------------------
(* Imports, exports and copies of Airflow objects. Of every object that is *)
(* wanted, the last item for it is still pending or the Airflow has all    *)
(* of it, unless another changed it since (raced).                         *)

Told == Objects!Content \union Objects!Entry
AnItem == [step : 1..4, o : Objects!Object, e : Told]
ObjectJobs == [kind : {None, "import", "export", "env", "copy"}, todo : SUBSET AnItem,
               kinds : SUBSET (1..3), mem : [Objects!Object -> Told \union {None}],
               want : [Objects!Object -> Told \union {None}], to : Objects!Airflow \union {None},
               at : AnItem \union {None}, asked : SUBSET (1..3), ok : BOOLEAN]
Spot == Objects!Airflow \union {"file", "env"}
ObjectSteps == {"idle", "done", "list", "send", "patch", "exec", "truncate", "write", "append"}

PlacesTyped ==
    /\ airflow \in [Objects!Airflow -> [Objects!Object -> Objects!Content \union {None}]]
    /\ file \in [Objects!Object -> Objects!Entry \union {None}]
    /\ envFile \in [Objects!Object -> Objects!Entry \union {None}]
ObjectsTyped ==
    /\ PlacesTyped
    /\ opc \in [Terminal -> ObjectSteps] /\ ojob \in [Terminal -> ObjectJobs]
    /\ oraced \in [Terminal -> SUBSET (Spot \X Objects!Object)]

\* What Airflow holds of o, c, has all that the command sends of it, w.
Arrived(kind, o, w, c) ==
    /\ c # None /\ c.main = w.main
    /\ o \in Connections \union ExtraPools /\ w.rest # None => c.rest = w.rest
    /\ kind = "copy" => c.hidden = w.hidden

\* The items still to be sent, and the one for o that is the last.
Pending(j) == j.todo \union ({j.at} \ {None})
OnTheWay(j, o) ==
    \E x \in Pending(j) :
        /\ x.o = o /\ x.e = j.want[o]
        /\ \A y \in Pending(j) : y.o = o => y = x \/ y.step < x.step
Brought(j, o, air, r) ==
    /\ \A y \in Pending(j) : y.o # o
    /\ <<j.to, o>> \notin r => Arrived(j.kind, o, j.want[o], air[j.to][o])

\* An import or a copy j at l.
Carries(l, j, air, r) ==
    /\ l \in {"list", "send", "patch"} => j.kind \in {"import", "copy"}
    /\ j.kind \in {"import", "copy"} /\ l # "idle" =>
          /\ l \in {"list", "send", "patch", "done"} /\ j.to \in Objects!Airflow
          /\ j.kind = "import" => j.to = local
          /\ j.at # None <=> l = "patch"
          /\ l = "done" => j.todo = {}
          /\ j.at \notin j.todo
          /\ j.at # None => \A y \in j.todo : j.at.step <= y.step
          /\ j.kind = "copy" => \A x \in Pending(j) : x.e \in Objects!Content
          /\ \A o \in Objects!Object :
                j.want[o] # None => OnTheWay(j, o) \/ Brought(j, o, air, r)

\* What an export has to write of o.
ToWrite(o, air, r) ==
    Objects!Exports(o) /\ air[local][o] # None /\ <<local, o>> \notin r
Taken(l, j) ==
    (j.asked \ j.kinds) \union
        (IF l \in {"truncate", "write"} THEN {Objects!First(j.kinds)} ELSE {})

\* An export j at l.
Writes(l, j, air, fi, en, r) ==
    /\ l \in {"exec", "truncate", "write", "append"} => j.kind \in {"export", "env"}
    /\ j.kind \in {"export", "env"} /\ l # "idle" =>
          /\ l \in {"exec", "done"} \union
                   (IF j.kind = "export" THEN {"truncate", "write"} ELSE {"append"})
          /\ j.mem \in [Objects!Object -> Objects!Entry \union {None}]
          /\ j.kinds \subseteq j.asked
          /\ IF l = "done" THEN j.kinds = {} /\ j.ok ELSE j.kinds # {}
    /\ j.kind = "export" /\ l # "idle" =>
          /\ \A o \in Objects!Object : j.want[o] # None => j.mem[o] # None
          /\ j.ok /\ l \in {"exec", "done"} =>
                \A o \in Objects!Object : <<"file", o>> \notin r => fi[o] = j.mem[o]
          /\ j.ok => \A i \in Taken(l, j) : \A o \in Objects!Kinds[i] :
                ToWrite(o, air, r) => j.mem[o] = Objects!Exported(o, air[local][o])
    /\ j.kind = "env" /\ l # "idle" =>
          /\ j.ok => \A i \in Taken(l, j) : \A o \in Objects!Kinds[i] :
                ToWrite(o, air, r) /\ <<"env", o>> \notin r =>
                   en[o] = Objects!Exported(o, air[local][o])
          /\ l = "append" => \A o \in Objects!Kinds[Objects!First(j.kinds)] :
                ToWrite(o, air, r) => j.mem[o] = Objects!Exported(o, air[local][o])

ObjectsInv ==
    /\ ObjectsTyped
    /\ \A t \in Terminal :
          /\ Carries(opc[t], ojob[t], airflow, oraced[t])
          /\ Writes(opc[t], ojob[t], airflow, file, envFile, oraced[t])
-----------------------------------------------------------------------------
(* The objects and the commands.                                           *)

LEMMA ConstantsSound == Objects!Sound
  BY ObjectsSound

\* A kind is one of three sets, which have nothing in common.
LEMMA KindsAre ==
  /\ Objects!Kinds[1] = Objects!Pools /\ Objects!Kinds[2] = Variables
  /\ Objects!Kinds[3] = Connections
  /\ \A i \in 1..3 : Objects!Kinds[i] \subseteq Objects!Object
  /\ \A i, k \in 1..3 : \A o \in Objects!Kinds[i] : o \in Objects!Kinds[k] => i = k
<1>1. /\ Objects!Kinds[1] = Objects!Pools /\ Objects!Kinds[2] = Variables
      /\ Objects!Kinds[3] = Connections
  BY DEF Objects!Kinds
<1>2. /\ Objects!Pools \intersect (Variables \union Connections) = {}
      /\ Variables \intersect Connections = {}
  BY ConstantsSound DEF Objects!Sound
<1>3. \A i \in 1..3 : i = 1 \/ i = 2 \/ i = 3
  OBVIOUS
<1> QED
  BY <1>1, <1>2, <1>3 DEF Objects!Object

LEMMA FirstIs ==
  ASSUME NEW S \in SUBSET (1..3), S # {}
  PROVE  Objects!First(S) \in S /\ \A k \in S : Objects!First(S) <= k
<1>1. S \in SUBSET Nat
  OBVIOUS
<1>2. \E m \in S : \A k \in S : m <= k
  BY <1>1, Least
<1> QED
  BY <1>2 DEF Objects!First

LEMMA NoneIsNone ==
  /\ None \notin Terminal
  /\ \A e \in Told : None # e
  /\ \A x \in AnItem : None # x
<1>1. /\ None \notin Terminal
      /\ \A e \in Told : None # e /\ \A i \in 1..4, o \in Objects!Object : None # Objects!Item(i, o, e)
  BY ConstantsSound DEF Objects!Sound, Told
<1>2. ASSUME NEW x \in AnItem
      PROVE  x = Objects!Item(x.step, x.o, x.e) /\ x.step \in 1..4 /\ x.o \in Objects!Object /\ x.e \in Told
  BY DEF AnItem, Objects!Item
<1> QED
  BY <1>1, <1>2

LEMMA EntryFields ==
  /\ \A e \in Told : e.main \in Objects!Maybe /\ e.rest \in Objects!Maybe
  /\ \A e \in Objects!Content :
        e.main \in Objects!Maybe /\ e.rest \in Objects!Maybe /\ e.hidden \in Objects!Maybe
  BY DEF Told, Objects!Content, Objects!Entry

\* What a request makes of an object has all that it sends of it.
LEMMA CreatedIs ==
  ASSUME NEW kind, NEW o \in Objects!Object, NEW e \in Told,
         kind = "copy" => e \in Objects!Content
  PROVE  /\ Objects!Created(kind, o, e) \in Objects!Content
         /\ Arrived(kind, o, e, Objects!Created(kind, o, e))
<1> DEFINE c == [main |-> e.main, rest |-> IF o \in Variables THEN None ELSE e.rest, hidden |-> None]
<1>1. e.main \in Objects!Maybe /\ e.rest \in Objects!Maybe /\ None \in Objects!Maybe
  BY EntryFields DEF Objects!Maybe
<1>2. o \in Connections \union ExtraPools => o \notin Variables
  BY ConstantsSound DEF Objects!Sound, Objects!Pools
<1>3. CASE kind = "copy"
  BY <1>3, NoneIsNone DEF Objects!Created, Arrived, Told
<1>4. CASE kind # "copy"
  <2>1. Objects!Created(kind, o, e) = c
    BY <1>4 DEF Objects!Created
  <2>2. c \in Objects!Content
    BY <1>1 DEF Objects!Content
  <2>3. c # None
    BY <2>2, NoneIsNone DEF Told
  <2> QED
    BY <1>2, <1>4, <2>1, <2>2, <2>3 DEF Arrived
<1> QED
  BY <1>3, <1>4

LEMMA UpdatedIs ==
  ASSUME NEW kind, NEW o \in Objects!Object, NEW e \in Told, NEW old \in Objects!Content,
         kind = "copy" => e \in Objects!Content
  PROVE  /\ Objects!Updated(kind, o, e, old) \in Objects!Content
         /\ Arrived(kind, o, e, Objects!Updated(kind, o, e, old))
<1> DEFINE c == Objects!Updated(kind, o, e, old)
<1>1. /\ e.main \in Objects!Maybe /\ e.rest \in Objects!Maybe /\ None \in Objects!Maybe
      /\ old.rest \in Objects!Maybe /\ old.hidden \in Objects!Maybe
  BY EntryFields DEF Objects!Maybe
<1>2. /\ o = dp => o \notin Connections \union ExtraPools
      /\ o \in Variables => o \notin Connections \union ExtraPools
      /\ o \in ExtraPools => o \in Objects!Pools
  BY ConstantsSound DEF Objects!Sound, Objects!Pools
<1>3. CASE kind = "copy"
  <2>1. c = IF o = dp THEN [e EXCEPT !.rest = old.rest] ELSE e
    BY <1>3 DEF Objects!Updated
  <2>2. c \in Objects!Content /\ c.main = e.main /\ c.hidden = e.hidden /\ (o # dp => c.rest = e.rest)
    BY <1>1, <1>3, <2>1 DEF Objects!Content
  <2> QED
    BY <1>2, <2>2, NoneIsNone DEF Arrived, Told
<1>4. CASE kind # "copy"
  <2>1. /\ c \in Objects!Content /\ c.main = e.main
        /\ o \in Connections \union ExtraPools /\ e.rest # None => c.rest = e.rest
    <3>1. CASE o \in Objects!Pools
      <4>1. c = [main |-> e.main, hidden |-> None, rest |-> IF o = dp THEN old.rest ELSE e.rest]
        BY <1>4, <3>1 DEF Objects!Updated
      <4> QED
        BY <1>1, <1>2, <4>1 DEF Objects!Content
    <3>2. CASE o \notin Objects!Pools /\ (o \in Variables \/ e.rest = None)
      <4>1. c = [old EXCEPT !.main = e.main]
        BY <1>4, <3>2 DEF Objects!Updated
      <4> QED
        BY <1>1, <1>2, <3>2, <4>1 DEF Objects!Content
    <3>3. CASE o \notin Objects!Pools /\ ~(o \in Variables \/ e.rest = None)
      <4>1. c = [old EXCEPT !.main = e.main, !.rest = e.rest]
        BY <1>4, <3>3 DEF Objects!Updated
      <4> QED
        BY <1>1, <4>1 DEF Objects!Content
    <3> QED
      BY <3>1, <3>2, <3>3
  <2> QED
    BY <1>4, <2>1, NoneIsNone DEF Arrived, Told
<1> QED
  BY <1>3, <1>4

LEMMA ExportedIs ==
  ASSUME NEW o \in Objects!Object, NEW c \in Objects!Content
  PROVE  Objects!Exported(o, c) \in Objects!Entry /\ Objects!Exported(o, c) # None
<1>1. Objects!Exported(o, c) \in Objects!Entry
  BY EntryFields DEF Objects!Exported, Objects!Entry, Objects!Maybe
<1> QED
  BY <1>1, NoneIsNone DEF Told

-----------------------------------------------------------------------------
(* One command's step.                                                     *)

LEMMA ObjectsKnown ==
  ASSUME ObjectsInv, NEW t \in Terminal
  PROVE  /\ ojob[t] \in ObjectJobs /\ opc[t] \in ObjectSteps
         /\ oraced[t] \in SUBSET (Spot \X Objects!Object)
         /\ Carries(opc[t], ojob[t], airflow, oraced[t])
         /\ Writes(opc[t], ojob[t], airflow, file, envFile, oraced[t])
         /\ PlacesTyped
  BY DEF ObjectsInv, ObjectsTyped

\* What has not been raced is as it was.
Quiet(air, fi, en, air2, fi2, en2, r2) ==
    \A o \in Objects!Object :
        /\ \A a \in Objects!Airflow : <<a, o>> \notin r2 => air2[a][o] = air[a][o]
        /\ <<"file", o>> \notin r2 => fi2[o] = fi[o]
        /\ <<"env", o>> \notin r2 => en2[o] = en[o]

LEMMA RacedCarries ==
  ASSUME NEW l, NEW j \in ObjectJobs, NEW air, NEW fi, NEW en, NEW r, Carries(l, j, air, r),
         NEW air2, NEW fi2, NEW en2, NEW r2, r \subseteq r2, Quiet(air, fi, en, air2, fi2, en2, r2)
  PROVE  Carries(l, j, air2, r2)
<1>1. ASSUME NEW o \in Objects!Object, Brought(j, o, air, r), j.to \in Objects!Airflow
      PROVE  Brought(j, o, air2, r2)
  BY <1>1 DEF Brought, Quiet
<1> QED
  BY <1>1 DEF Carries

LEMMA RacedWrites ==
  ASSUME NEW l, NEW j \in ObjectJobs, NEW air, NEW fi, NEW en, NEW r, Writes(l, j, air, fi, en, r),
         NEW air2, NEW fi2, NEW en2, NEW r2, r \subseteq r2, Quiet(air, fi, en, air2, fi2, en2, r2),
         l \in {"exec", "truncate", "write", "append"} => j.kinds # {}
  PROVE  Writes(l, j, air2, fi2, en2, r2)
<1>1. local \in Objects!Airflow
  BY DEF Objects!Airflow
<1>2. ASSUME NEW o \in Objects!Object, ToWrite(o, air2, r2)
      PROVE  ToWrite(o, air, r) /\ air2[local][o] = air[local][o]
  BY <1>1, <1>2 DEF ToWrite, Quiet
<1>3. Taken(l, j) \subseteq 1..3 /\ (l = "append" => Objects!First(j.kinds) \in 1..3)
  BY FirstIs DEF Taken, ObjectJobs
<1>4. \A i \in 1..3 : \A o \in Objects!Kinds[i] : o \in Objects!Object
  BY KindsAre
<1>5. \A o \in Objects!Object : <<"file", o>> \notin r2 => <<"file", o>> \notin r /\ fi2[o] = fi[o]
  BY DEF Quiet
<1>6. \A o \in Objects!Object : <<"env", o>> \notin r2 => <<"env", o>> \notin r /\ en2[o] = en[o]
  BY DEF Quiet
<1>7. j.kind = "export" /\ l # "idle" /\ j.ok =>
         \A i \in Taken(l, j) : \A o \in Objects!Kinds[i] :
            ToWrite(o, air2, r2) => j.mem[o] = Objects!Exported(o, air2[local][o])
  BY <1>2, <1>3, <1>4 DEF Writes
<1>8. j.kind = "env" /\ l # "idle" /\ j.ok =>
         \A i \in Taken(l, j) : \A o \in Objects!Kinds[i] :
            ToWrite(o, air2, r2) /\ <<"env", o>> \notin r2 =>
               en2[o] = Objects!Exported(o, air2[local][o])
  BY <1>2, <1>3, <1>4, <1>6 DEF Writes
<1>9. j.kind = "env" /\ l = "append" =>
         \A o \in Objects!Kinds[Objects!First(j.kinds)] :
            ToWrite(o, air2, r2) => j.mem[o] = Objects!Exported(o, air2[local][o])
  BY <1>2, <1>3, <1>4 DEF Writes
<1>10. j.kind = "export" /\ l # "idle" /\ j.ok /\ l \in {"exec", "done"} =>
          \A o \in Objects!Object : <<"file", o>> \notin r2 => fi2[o] = j.mem[o]
  BY <1>5 DEF Writes
<1> QED
  BY <1>7, <1>8, <1>9, <1>10 DEF Writes

\* The command is at l, as j; what it has not changed of the world, nobody has.
At(t, l, j) == opc' = [opc EXCEPT ![t] = l] /\ ojob' = [ojob EXCEPT ![t] = j]
OthersRaced(t) ==
    /\ oraced' \in [Terminal -> SUBSET (Spot \X Objects!Object)]
    /\ \A u \in Terminal \ {t} :
          /\ oraced[u] \subseteq oraced'[u]
          /\ Quiet(airflow, file, envFile, airflow', file', envFile', oraced'[u])

LEMMA KindsLeft ==
  ASSUME ObjectsInv, NEW t \in Terminal, opc[t] \in {"exec", "truncate", "write", "append"}
  PROVE  ojob[t].kinds # {}
  BY ObjectsKnown DEF Writes

LEMMA ObjectsStep ==
  ASSUME ObjectsInv, NEW t \in Terminal, NEW l \in ObjectSteps, NEW j \in ObjectJobs, At(t, l, j),
         PlacesTyped', OthersRaced(t), Carries(l, j, airflow', oraced'[t]),
         Writes(l, j, airflow', file', envFile', oraced'[t])
  PROVE  ObjectsInv'
<1>1. opc'[t] = l /\ ojob'[t] = j /\ ObjectsTyped'
  BY DEF ObjectsInv, ObjectsTyped, At, OthersRaced
<1>2. \A u \in Terminal \ {t} : opc'[u] = opc[u] /\ ojob'[u] = ojob[u]
  BY DEF ObjectsInv, ObjectsTyped, At
<1>3. ASSUME NEW u \in Terminal \ {t}
      PROVE  /\ Carries(opc'[u], ojob'[u], airflow', oraced'[u])
             /\ Writes(opc'[u], ojob'[u], airflow', file', envFile', oraced'[u])
  <2>1. /\ oraced[u] \subseteq oraced'[u]
        /\ Quiet(airflow, file, envFile, airflow', file', envFile', oraced'[u])
    BY DEF OthersRaced
  <2>2. /\ ojob[u] \in ObjectJobs /\ Carries(opc[u], ojob[u], airflow, oraced[u])
        /\ Writes(opc[u], ojob[u], airflow, file, envFile, oraced[u])
    BY ObjectsKnown
  <2>3. opc[u] \in {"exec", "truncate", "write", "append"} => ojob[u].kinds # {}
    BY KindsLeft
  <2> QED
    BY <1>2, <2>1, <2>2, <2>3, RacedCarries, RacedWrites
<1> QED
  BY <1>1, <1>3 DEF ObjectsInv

\* Nothing has changed but what the command knows.
LEMMA NothingRaced ==
  ASSUME ObjectsInv, NEW t \in Terminal, UNCHANGED <<airflow, file, envFile>>,
         oraced' = oraced \/ oraced' = [oraced EXCEPT ![t] = {}]
  PROVE  PlacesTyped' /\ OthersRaced(t)
  BY DEF ObjectsInv, ObjectsTyped, PlacesTyped, OthersRaced, Quiet

\* Objects of one place have changed.
LEMMA HaveRaced ==
  ASSUME ObjectsInv, NEW t \in Terminal \union {None}, NEW place \in Spot,
         NEW S \in SUBSET Objects!Object, Objects!Race(t, place, S)
  PROVE  /\ oraced' \in [Terminal -> SUBSET (Spot \X Objects!Object)]
         /\ \A u \in Terminal \ {t} :
               oraced[u] \subseteq oraced'[u] /\ \A o \in S : <<place, o>> \in oraced'[u]
         /\ t \in Terminal => oraced'[t] = oraced[t]
<1>1. \A u \in Terminal : oraced[u] \in SUBSET (Spot \X Objects!Object)
  BY ObjectsKnown
<1>2. oraced' = [u \in Terminal |->
                    IF u = t THEN oraced[u] ELSE oraced[u] \union ({place} \X S)]
  BY DEF Objects!Race
<1> QED
  BY <1>1, <1>2

AirflowSet(t, a, o, c) ==
    /\ airflow' = [airflow EXCEPT ![a][o] = c] /\ UNCHANGED <<file, envFile>>
    /\ Objects!Race(t, a, {o})
AirflowHas(t, a, o, c) ==
    /\ PlacesTyped' /\ OthersRaced(t) /\ airflow'[a][o] = c
    /\ \A x \in Objects!Object \ {o} : airflow'[a][x] = airflow[a][x]
    /\ t \in Terminal => oraced'[t] = oraced[t]

LEMMA AirflowRaced ==
  ASSUME ObjectsInv, NEW t \in Terminal \union {None}, NEW a \in Objects!Airflow,
         NEW o \in Objects!Object, NEW c \in Objects!Content \union {None},
         AirflowSet(t, a, o, c)
  PROVE  AirflowHas(t, a, o, c)
<1> USE DEF AirflowSet
<1>1. airflow \in [Objects!Airflow -> [Objects!Object -> Objects!Content \union {None}]]
  BY DEF ObjectsInv, ObjectsTyped, PlacesTyped
<1>2. /\ airflow' \in [Objects!Airflow -> [Objects!Object -> Objects!Content \union {None}]]
      /\ airflow'[a][o] = c
      /\ \A b \in Objects!Airflow, x \in Objects!Object :
            b # a \/ x # o => airflow'[b][x] = airflow[b][x]
  BY <1>1
<1>3. /\ oraced' \in [Terminal -> SUBSET (Spot \X Objects!Object)]
      /\ \A u \in Terminal \ {t} : oraced[u] \subseteq oraced'[u] /\ <<a, o>> \in oraced'[u]
      /\ t \in Terminal => oraced'[t] = oraced[t]
  BY HaveRaced DEF Spot
<1>4. PlacesTyped'
  BY <1>2 DEF ObjectsInv, ObjectsTyped, PlacesTyped
<1>5. OthersRaced(t)
  BY <1>2, <1>3 DEF OthersRaced, Quiet
<1> QED
  BY <1>2, <1>3, <1>4, <1>5 DEF AirflowHas

\* The command fails, or is killed, or rests.
LEMMA IdleIs ==
  /\ Objects!Idle \in ObjectJobs
  /\ \A j, air, fi, en, r : Carries("idle", j, air, r) /\ Writes("idle", j, air, fi, en, r)
<1>1. Objects!Idle \in ObjectJobs
  BY DEF Objects!Idle, ObjectJobs, Objects!Nothing
<1>2. \A j, air, fi, en, r : Carries("idle", j, air, r) /\ Writes("idle", j, air, fi, en, r)
  BY DEF Carries, Writes
<1> QED
  BY <1>1, <1>2

LEMMA GivesUp ==
  ASSUME ObjectsInv, NEW t \in Terminal, Objects!GiveUp(t), UNCHANGED <<airflow, file, envFile>>
  PROVE  ObjectsInv'
<1>1. At(t, "idle", Objects!Idle) /\ oraced' = [oraced EXCEPT ![t] = {}]
  BY DEF Objects!GiveUp, Objects!Goto, At
<1> QED
  BY <1>1, NothingRaced, IdleIs, ObjectsStep DEF ObjectSteps

-----------------------------------------------------------------------------
(* Imports and copies.                                                     *)

Same(j, j2) == j2.kind = j.kind /\ j2.want = j.want /\ j2.to = j.to
OnlyAt(a, o, air, air2) == \A x \in Objects!Object \ {o} : air2[a][x] = air[a][x]
Each(j, air, r) ==
    \A o \in Objects!Object : j.want[o] # None => OnTheWay(j, o) \/ Brought(j, o, air, r)

LEMMA PendingIs ==
  ASSUME NEW j \in ObjectJobs
  PROVE  /\ Pending(j) \in SUBSET AnItem
         /\ j.at = None => Pending(j) = j.todo
         /\ j.at # None => Pending(j) = j.todo \union {j.at} /\ j.at \in AnItem
  BY DEF Pending, ObjectJobs

\* An item that has been dealt with, none before it.
LEMMA ItemDone ==
  ASSUME NEW j, NEW j2, NEW item, NEW air, NEW air2, NEW r, Same(j, j2), Each(j, air, r),
         Pending(j) \in SUBSET AnItem, item \in Pending(j), Pending(j2) = Pending(j) \ {item},
         \A y \in Pending(j) : item.step <= y.step,
         OnlyAt(j.to, item.o, air, air2), Arrived(j.kind, item.o, item.e, air2[j.to][item.o])
  PROVE  Each(j2, air2, r)
<1> SUFFICES ASSUME NEW o \in Objects!Object, j.want[o] # None
             PROVE  OnTheWay(j2, o) \/ Brought(j2, o, air2, r)
  BY DEF Each, Same
<1>1. CASE Brought(j, o, air, r)
  <2>1. o # item.o
    BY <1>1 DEF Brought
  <2> QED
    BY <1>1, <2>1 DEF Brought, Same, OnlyAt
<1>2. CASE OnTheWay(j, o)
  <2>1. PICK x \in Pending(j) : /\ x.o = o /\ x.e = j.want[o]
                                /\ \A y \in Pending(j) : y.o = o => y = x \/ y.step < x.step
    BY <1>2 DEF OnTheWay
  <2>2. CASE x # item
    BY <2>1, <2>2 DEF OnTheWay, Same
  <2>3. CASE x = item
    <3>1. \A y \in Pending(j) : y.step \in 1..4
      BY DEF AnItem
    <3>2. \A y \in Pending(j2) : y.o # o
      BY <2>1, <2>3, <3>1
    <3> QED
      BY <2>1, <2>3, <3>2 DEF Brought, Same
  <2> QED
    BY <2>2, <2>3
<1> QED
  BY <1>1, <1>2 DEF Each

\* One that has been sent and is to be sent again, or is as it was.
LEMMA ItemStays ==
  ASSUME NEW j, NEW j2, NEW item, NEW air, NEW air2, NEW r, Same(j, j2), Each(j, air, r),
         item \in Pending(j), Pending(j2) = Pending(j), OnlyAt(j.to, item.o, air, air2)
  PROVE  Each(j2, air2, r)
<1> SUFFICES ASSUME NEW o \in Objects!Object, j.want[o] # None
             PROVE  OnTheWay(j2, o) \/ Brought(j2, o, air2, r)
  BY DEF Each, Same
<1>1. CASE Brought(j, o, air, r)
  <2>1. o # item.o
    BY <1>1 DEF Brought
  <2> QED
    BY <1>1, <2>1 DEF Brought, Same, OnlyAt
<1>2. CASE OnTheWay(j, o)
  BY <1>2 DEF OnTheWay, Same
<1> QED
  BY <1>1, <1>2 DEF Each

\* Where a command goes with what is left.
LEMMA GoesOn ==
  ASSUME ObjectsInv, NEW t \in Terminal, opc[t] \in {"send", "patch"},
         NEW todo \in SUBSET AnItem, NEW at \in AnItem \union {None}, Objects!GoOn(t, todo, at),
         PlacesTyped', OthersRaced(t), oraced'[t] = oraced[t],
         at \notin todo, at # None => \A y \in todo : at.step <= y.step,
         todo \subseteq Pending(ojob[t]), at # None => at \in Pending(ojob[t]),
         \A j \in ObjectJobs : Same(ojob[t], j) /\ j.todo = todo /\ j.at = at =>
            Each(j, airflow', oraced[t])
  PROVE  ObjectsInv'
<1> DEFINE j == [ojob[t] EXCEPT !.todo = todo, !.at = at]
           l == IF at # None THEN "patch" ELSE IF todo = {} THEN "done" ELSE "send"
<1>1. ojob[t] \in ObjectJobs /\ Carries(opc[t], ojob[t], airflow, oraced[t])
  BY ObjectsKnown
<1>2. j \in ObjectJobs /\ Same(ojob[t], j) /\ j.todo = todo /\ j.at = at
  BY <1>1 DEF ObjectJobs, Same
<1>3. At(t, l, j)
  BY DEF Objects!GoOn, Objects!Goto, At
<1>4. /\ l \in {"send", "patch", "done"} /\ (at # None <=> l = "patch")
      /\ (l = "done" => todo = {})
  OBVIOUS
<1> HIDE DEF j, l
<1>5. Pending(j) \subseteq Pending(ojob[t])
  BY <1>1, <1>2 DEF Pending
<1>6. ojob[t].kind \in {"import", "copy"}
  BY <1>1 DEF Carries
<1>7. Carries(l, j, airflow', oraced'[t])
  BY <1>1, <1>2, <1>4, <1>5, <1>6 DEF Carries, Same, Each
<1>8. Writes(l, j, airflow', file', envFile', oraced'[t])
  BY <1>2, <1>4, <1>6 DEF Writes, Same
<1>9. l \in ObjectSteps
  BY <1>4 DEF ObjectSteps
<1> QED
  BY <1>2, <1>3, <1>7, <1>8, <1>9, ObjectsStep

LEMMA CarrierIs ==
  ASSUME ObjectsInv, NEW t \in Terminal, opc[t] \in {"list", "send", "patch"}
  PROVE  /\ ojob[t] \in ObjectJobs /\ ojob[t].kind \in {"import", "copy"}
         /\ ojob[t].to \in Objects!Airflow /\ (ojob[t].at # None <=> opc[t] = "patch")
         /\ Each(ojob[t], airflow, oraced[t]) /\ ojob[t].at \notin ojob[t].todo
         /\ ojob[t].at # None => \A y \in ojob[t].todo : ojob[t].at.step <= y.step
         /\ ojob[t].kind = "copy" => \A x \in Pending(ojob[t]) : x.e \in Objects!Content
         /\ Pending(ojob[t]) \in SUBSET AnItem
  BY ObjectsKnown, PendingIs DEF Carries, Each

LEMMA ItemSent ==
  ASSUME ObjectsInv, NEW t \in Terminal, Objects!Send(t)
  PROVE  ObjectsInv'
<1> DEFINE j == ojob[t]
<1>1. opc[t] = "send" /\ UNCHANGED <<file, envFile>>
  BY DEF Objects!Send
<1>2. /\ j \in ObjectJobs /\ j.kind \in {"import", "copy"} /\ j.to \in Objects!Airflow
      /\ j.at = None /\ Each(j, airflow, oraced[t]) /\ Pending(j) = j.todo
      /\ j.todo \in SUBSET AnItem /\ (j.kind = "copy" => \A x \in Pending(j) : x.e \in Objects!Content)
  BY <1>1, CarrierIs, PendingIs
<1>3. PICK item \in j.todo :
         /\ \A x \in j.todo \ {item} : item.step <= x.step
         /\ \/ Objects!GoOn(t, j.todo \ {item}, item) /\ UNCHANGED <<airflow, oraced>>
            \/ /\ airflow' = [airflow EXCEPT ![j.to][item.o] =
                                Objects!Created(j.kind, item.o, item.e)]
               /\ Objects!Race(t, j.to, {item.o})
               /\ \/ Objects!GoOn(t, j.todo \ {item}, None)
                  \/ Objects!GoOn(t, j.todo \ {item}, item)
  BY DEF Objects!Send
<1> DEFINE todo == j.todo \ {item}
           c == Objects!Created(j.kind, item.o, item.e)
<1>4. /\ item \in AnItem /\ item.step \in 1..4 /\ item.o \in Objects!Object /\ item.e \in Told
      /\ item # None /\ todo \in SUBSET AnItem
  BY <1>2, NoneIsNone DEF AnItem
<1>5. \A y \in Pending(j) : item.step <= y.step
  BY <1>2, <1>3, <1>4
<1>6. c \in Objects!Content /\ Arrived(j.kind, item.o, item.e, c)
  BY <1>2, <1>4, CreatedIs
<1> HIDE DEF j, c
<1>7. \A j2 \in ObjectJobs : j2.todo = todo /\ j2.at = item => Pending(j2) = Pending(j)
  BY <1>2, <1>4 DEF Pending
<1>8. \A j2 \in ObjectJobs : j2.todo = todo /\ j2.at = None => Pending(j2) = Pending(j) \ {item}
  BY <1>2, PendingIs
<1>9. CASE Objects!GoOn(t, todo, item) /\ UNCHANGED <<airflow, oraced>>
  <2>1. OnlyAt(j.to, item.o, airflow, airflow')
    BY <1>9 DEF OnlyAt
  <2>2. \A j2 \in ObjectJobs : Same(j, j2) /\ j2.todo = todo /\ j2.at = item =>
           Each(j2, airflow', oraced[t])
    BY <1>2, <1>7, <2>1, ItemStays
  <2>3. PlacesTyped' /\ OthersRaced(t)
    BY <1>1, <1>9, NothingRaced
  <2> QED
    BY <1>1, <1>2, <1>3, <1>4, <1>9, <2>2, <2>3, GoesOn DEF j
<1>10. CASE /\ airflow' = [airflow EXCEPT ![j.to][item.o] = c]
            /\ Objects!Race(t, j.to, {item.o})
            /\ Objects!GoOn(t, todo, None) \/ Objects!GoOn(t, todo, item)
  <2>1. /\ PlacesTyped' /\ OthersRaced(t) /\ airflow'[j.to][item.o] = c
        /\ OnlyAt(j.to, item.o, airflow, airflow') /\ oraced'[t] = oraced[t]
    <3>1. AirflowSet(t, j.to, item.o, c)
      BY <1>1, <1>10 DEF AirflowSet
    <3>2. AirflowHas(t, j.to, item.o, c)
      BY <1>2, <1>4, <1>6, <3>1, AirflowRaced
    <3> QED
      BY <3>2 DEF OnlyAt, AirflowHas
  <2>2. CASE Objects!GoOn(t, todo, None)
    <3>1. \A j2 \in ObjectJobs : Same(j, j2) /\ j2.todo = todo /\ j2.at = None =>
             Each(j2, airflow', oraced[t])
      BY <1>2, <1>3, <1>5, <1>6, <1>8, <2>1, ItemDone
    <3>2. None \notin todo
      BY <1>4, NoneIsNone
    <3> QED
      BY <1>1, <1>2, <1>4, <2>1, <2>2, <3>1, <3>2, GoesOn DEF j
  <2>3. CASE Objects!GoOn(t, todo, item)
    <3>1. \A j2 \in ObjectJobs : Same(j, j2) /\ j2.todo = todo /\ j2.at = item =>
             Each(j2, airflow', oraced[t])
      BY <1>2, <1>7, <2>1, ItemStays
    <3> QED
      BY <1>1, <1>2, <1>3, <1>4, <2>1, <2>3, <3>1, GoesOn DEF j
  <2> QED
    BY <1>10, <2>2, <2>3
<1> QED
  BY <1>3, <1>9, <1>10 DEF j, c

LEMMA ItemPatched ==
  ASSUME ObjectsInv, NEW t \in Terminal, Objects!Patch(t)
  PROVE  ObjectsInv'
<1> DEFINE j == ojob[t]
           item == j.at
           c == Objects!Updated(j.kind, item.o, item.e, airflow[j.to][item.o])
<1>1. opc[t] = "patch" /\ UNCHANGED <<file, envFile>>
  BY DEF Objects!Patch
<1>2. /\ j \in ObjectJobs /\ j.kind \in {"import", "copy"} /\ j.to \in Objects!Airflow
      /\ item # None /\ Each(j, airflow, oraced[t]) /\ Pending(j) = j.todo \union {item}
      /\ item \notin j.todo /\ item \in AnItem /\ j.todo \in SUBSET AnItem
      /\ \A y \in j.todo : item.step <= y.step
      /\ j.kind = "copy" => \A x \in Pending(j) : x.e \in Objects!Content
  BY <1>1, CarrierIs, PendingIs DEF ObjectJobs
<1>3. /\ item.step \in 1..4 /\ item.o \in Objects!Object /\ item.e \in Told
      /\ \A y \in Pending(j) : item.step <= y.step
      /\ None \notin j.todo
  BY <1>2, NoneIsNone DEF AnItem
<1>4. CASE airflow[j.to][item.o] = None
  BY <1>1, <1>4, GivesUp DEF Objects!Patch
<1>5. ASSUME airflow[j.to][item.o] # None
      PROVE  /\ airflow' = [airflow EXCEPT ![j.to][item.o] = c] /\ Objects!Race(t, j.to, {item.o})
             /\ Objects!GoOn(t, j.todo, None)
  BY <1>5 DEF Objects!Patch
<1> HIDE DEF j, item, c
<1>6. CASE airflow[j.to][item.o] # None
  <2>1. /\ airflow' = [airflow EXCEPT ![j.to][item.o] = c] /\ Objects!Race(t, j.to, {item.o})
        /\ Objects!GoOn(t, j.todo, None)
    BY <1>5, <1>6
  <2>2. airflow[j.to][item.o] \in Objects!Content
    BY <1>2, <1>3, <1>6 DEF ObjectsInv, ObjectsTyped, PlacesTyped
  <2>3. c \in Objects!Content /\ Arrived(j.kind, item.o, item.e, c)
    BY <1>2, <1>3, <2>2, UpdatedIs DEF c
  <2>4. /\ PlacesTyped' /\ OthersRaced(t) /\ airflow'[j.to][item.o] = c
        /\ OnlyAt(j.to, item.o, airflow, airflow') /\ oraced'[t] = oraced[t]
    <3>1. AirflowSet(t, j.to, item.o, c)
      BY <1>1, <2>1 DEF AirflowSet
    <3>2. AirflowHas(t, j.to, item.o, c)
      BY <1>2, <1>3, <2>3, <3>1, AirflowRaced
    <3> QED
      BY <3>2 DEF OnlyAt, AirflowHas
  <2>5. \A j2 \in ObjectJobs : j2.todo = j.todo /\ j2.at = None => Pending(j2) = Pending(j) \ {item}
    BY <1>2, PendingIs
  <2>6. \A j2 \in ObjectJobs : Same(j, j2) /\ j2.todo = j.todo /\ j2.at = None =>
           Each(j2, airflow', oraced[t])
    <3> SUFFICES ASSUME NEW j2 \in ObjectJobs, Same(j, j2), j2.todo = j.todo, j2.at = None
                 PROVE  Each(j2, airflow', oraced[t])
      OBVIOUS
    <3>1. /\ item \in Pending(j) /\ Pending(j) \in SUBSET AnItem
          /\ Arrived(j.kind, item.o, item.e, airflow'[j.to][item.o])
      BY <1>2, <2>3, <2>4
    <3>2. Pending(j2) = Pending(j) \ {item} /\ Each(j, airflow, oraced[t])
      BY <1>2, <2>5
    <3> QED
      BY <1>3, <2>4, <3>1, <3>2, ItemDone
  <2> DEFINE todo == j.todo
  <2>7. /\ todo \in SUBSET AnItem /\ todo \subseteq Pending(ojob[t]) /\ None \notin todo
        /\ Objects!GoOn(t, todo, None) /\ opc[t] \in {"send", "patch"}
        /\ PlacesTyped' /\ OthersRaced(t) /\ oraced'[t] = oraced[t]
    BY <1>1, <1>2, <1>3, <2>1, <2>4 DEF j
  <2>8. \A j2 \in ObjectJobs : Same(ojob[t], j2) /\ j2.todo = todo /\ j2.at = None =>
           Each(j2, airflow', oraced[t])
    BY <2>6 DEF j
  <2> HIDE DEF todo
  <2> QED
    BY <2>7, <2>8, GoesOn
<1> QED
  BY <1>4, <1>6 DEF item, c

LEMMA TargetListed ==
  ASSUME ObjectsInv, NEW t \in Terminal, Objects!ListTarget(t)
  PROVE  ObjectsInv'
<1> DEFINE j == [ojob[t] EXCEPT !.mem = airflow[ojob[t].to]]
<1>1. /\ opc[t] = "list" /\ UNCHANGED <<airflow, file, envFile, oraced>> /\ At(t, "send", j)
  BY DEF Objects!ListTarget, Objects!Goto, At
<1>2. /\ ojob[t] \in ObjectJobs /\ ojob[t].kind \in {"import", "copy"}
      /\ ojob[t].to \in Objects!Airflow /\ ojob[t].at = None
      /\ Carries("list", ojob[t], airflow, oraced[t])
  BY <1>1, CarrierIs, ObjectsKnown
<1>3. airflow[ojob[t].to] \in [Objects!Object -> Told \union {None}]
  BY <1>2 DEF ObjectsInv, ObjectsTyped, PlacesTyped, Told
<1>4. /\ j \in ObjectJobs /\ Same(ojob[t], j) /\ j.todo = ojob[t].todo /\ j.at = ojob[t].at
  BY <1>2, <1>3 DEF ObjectJobs, Same
<1> HIDE DEF j
<1>5. Carries("send", j, airflow, oraced[t])
  BY <1>2, <1>4 DEF Carries, Same, OnTheWay, Brought, Pending
<1>6. Writes("send", j, airflow, file, envFile, oraced[t])
  BY <1>2, <1>4 DEF Writes, Same
<1>7. PlacesTyped' /\ OthersRaced(t)
  BY <1>1, NothingRaced
<1> QED
  BY <1>1, <1>4, <1>5, <1>6, <1>7, ObjectsStep DEF ObjectSteps

\* A command begins with nothing raced.
LEMMA Begins ==
  ASSUME ObjectsInv, NEW t \in Terminal, NEW j \in ObjectJobs, NEW l \in ObjectSteps,
         Objects!Begin(t, j, l), Carries(l, j, airflow, {}),
         Writes(l, j, airflow, file, envFile, {})
  PROVE  ObjectsInv'
<1>1. /\ At(t, l, j) /\ oraced' = [oraced EXCEPT ![t] = {}]
      /\ UNCHANGED <<airflow, file, envFile>>
  BY DEF Objects!Begin, Objects!Goto, At
<1>2. oraced'[t] = {}
  BY <1>1 DEF ObjectsInv, ObjectsTyped
<1> QED
  BY <1>1, <1>2, NothingRaced, ObjectsStep

\* The job of a command that begins.
LEMMA IdleJob ==
  /\ Objects!Idle \in ObjectJobs
  /\ Objects!Idle.todo = {} /\ Objects!Idle.kinds = {} /\ Objects!Idle.mem = Objects!Nothing
  /\ Objects!Idle.want = Objects!Nothing /\ Objects!Idle.to = None /\ Objects!Idle.at = None
  /\ Objects!Idle.asked = {} /\ Objects!Idle.ok
  BY DEF Objects!Idle, ObjectJobs, Objects!Nothing

LEMMA EnvEntryIs == Objects!EnvEntry \in Objects!Entry
<1>1. Contents # {}
  BY ConstantsSound DEF Objects!Sound
<1>2. (CHOOSE v \in Contents : TRUE) \in Contents
  BY <1>1
<1> QED
  BY <1>2 DEF Objects!EnvEntry, Objects!Entry, Objects!Maybe

LEMMA ImportBegins ==
  ASSUME ObjectsInv, NEW t \in Terminal, Objects!Import(t)
  PROVE  ObjectsInv'
<1>1. PICK k \in KindAsks, env \in SUBSET EnvConnections :
         LET items == UNION {Objects!Items(file, i) : i \in k}
             todo == items \union Objects!EnvItems(env)
             want == [o \in Objects!Object |-> IF o \in env THEN Objects!EnvEntry
                       ELSE IF \E x \in items : x.o = o THEN file[o] ELSE None] IN
         Objects!Begin(t, [Objects!Idle EXCEPT !.kind = "import", !.mem = file, !.want = want,
                             !.to = local, !.todo = todo, !.asked = k], "send")
  BY DEF Objects!Import
<1> DEFINE items == UNION {Objects!Items(file, i) : i \in k}
           todo == items \union Objects!EnvItems(env)
           want == [o \in Objects!Object |-> IF o \in env THEN Objects!EnvEntry
                     ELSE IF \E x \in items : x.o = o THEN file[o] ELSE None]
           j == [Objects!Idle EXCEPT !.kind = "import", !.mem = file, !.want = want,
                             !.to = local, !.todo = todo, !.asked = k]
<1>2. Objects!Begin(t, j, "send")
  BY <1>1
<1>3. k \in SUBSET (1..3) /\ env \subseteq Connections
  BY ConstantsSound DEF Objects!Sound
<1>4. /\ file \in [Objects!Object -> Objects!Entry \union {None}]
      /\ file \in [Objects!Object -> Told \union {None}]
  BY DEF ObjectsInv, ObjectsTyped, PlacesTyped, Told
<1>5. ASSUME NEW y \in items
      PROVE  /\ y \in AnItem /\ y.step \in 1..3 /\ y.o \in Objects!Kinds[y.step]
             /\ y = Objects!Item(y.step, y.o, file[y.o]) /\ y.e = file[y.o]
  <2>1. PICK i \in k : y \in Objects!Items(file, i)
    BY <1>5
  <2>2. PICK o \in Objects!Kinds[i] : y = Objects!Item(i, o, file[o]) /\ file[o] # None
    BY <2>1 DEF Objects!Items
  <2>3. i \in 1..3 /\ o \in Objects!Object
    BY <1>3, KindsAre
  <2>4. file[o] \in Told
    BY <1>4, <2>2, <2>3
  <2>5. y.step = i /\ y.o = o /\ y.e = file[o]
    BY <2>2 DEF Objects!Item
  <2>6. y \in AnItem
    BY <2>2, <2>3, <2>4 DEF Objects!Item, AnItem
  <2> QED
    BY <2>2, <2>3, <2>5, <2>6
<1>6. ASSUME NEW y \in Objects!EnvItems(env)
      PROVE  /\ y \in AnItem /\ y.step = 4 /\ y.o \in env
             /\ y = Objects!Item(4, y.o, Objects!EnvEntry)
  <2>1. PICK o \in env : y = Objects!Item(4, o, Objects!EnvEntry)
    BY DEF Objects!EnvItems
  <2>2. o \in Objects!Object
    BY <1>3 DEF Objects!Object
  <2> QED
    BY <2>1, <2>2, EnvEntryIs DEF Objects!Item, AnItem, Told
<1>7. todo \in SUBSET AnItem
  BY <1>5, <1>6
<1>8. want \in [Objects!Object -> Told \union {None}]
  BY <1>4, EnvEntryIs DEF Told
<1>9. /\ j \in ObjectJobs /\ j.kind = "import" /\ j.todo = todo /\ j.at = None
      /\ j.want = want /\ j.to = local
  BY <1>3, <1>4, <1>7, <1>8, IdleJob DEF ObjectJobs, Objects!Airflow
<1>10. \A o \in Objects!Object : want[o] = IF o \in env THEN Objects!EnvEntry
          ELSE IF \E x \in items : x.o = o THEN file[o] ELSE None
  OBVIOUS
<1>11. \A y \in todo : y \in items \/ y \in Objects!EnvItems(env)
  OBVIOUS
<1>12. items \subseteq todo /\ \A o \in env : Objects!Item(4, o, Objects!EnvEntry) \in todo
  BY DEF Objects!EnvItems
<1> HIDE DEF items, todo, want, j
<1>13. Pending(j) = todo
  BY <1>9, PendingIs
<1>14. ASSUME NEW o \in Objects!Object, want[o] # None
       PROVE  OnTheWay(j, o)
  <2>1. CASE o \in env
    <3> DEFINE x == Objects!Item(4, o, Objects!EnvEntry)
    <3>1. x \in todo /\ x.o = o /\ x.e = Objects!EnvEntry /\ x.step = 4
      BY <1>12, <2>1 DEF Objects!Item
    <3> HIDE DEF x
    <3>2. ASSUME NEW y \in todo, y.o = o
          PROVE  y = x \/ y.step < x.step
      <4>1. CASE y \in items
        BY <1>5, <3>1, <4>1
      <4>2. CASE y \in Objects!EnvItems(env)
        BY <1>6, <3>2, <4>2 DEF x
      <4> QED
        BY <1>11, <4>1, <4>2
    <3>3. x.e = want[o]
      BY <1>10, <2>1, <3>1
    <3> QED
      BY <1>9, <1>13, <3>1, <3>2, <3>3 DEF OnTheWay
  <2>2. CASE o \notin env
    <3>1. PICK x \in items : x.o = o /\ want[o] = file[o]
      BY <1>10, <1>14, <2>2
    <3>2. ASSUME NEW y \in todo, y.o = o
          PROVE  y = x
      <4>1. y \in items
        BY <1>6, <1>11, <2>2, <3>2
      <4>2. y.step = x.step
        BY <1>5, <3>1, <3>2, <4>1, KindsAre
      <4> QED
        BY <1>5, <3>1, <3>2, <4>1, <4>2
    <3>3. x.e = want[o] /\ x \in todo
      BY <1>5, <1>12, <3>1
    <3> QED
      BY <1>9, <1>13, <3>1, <3>2, <3>3 DEF OnTheWay
  <2> QED
    BY <2>1, <2>2
<1>15. None \notin todo /\ local \in Objects!Airflow
  BY <1>7, NoneIsNone DEF Objects!Airflow
<1>16. Carries("send", j, airflow, {})
  BY <1>9, <1>14, <1>15 DEF Carries
<1>17. Writes("send", j, airflow, file, envFile, {})
  BY <1>9 DEF Writes
<1> QED
  BY <1>2, <1>9, <1>16, <1>17, Begins DEF ObjectSteps

LEMMA CopyBegins ==
  ASSUME ObjectsInv, NEW t \in Terminal, Objects!Copy(t)
  PROVE  ObjectsInv'
<1>1. PICK from \in Remotes, to \in Remotes, i \in 1..3 :
         LET held == {o \in Objects!Kinds[i] : airflow[from][o] # None} IN
         Objects!Begin(t, [Objects!Idle EXCEPT !.kind = "copy", !.to = to,
                            !.want = [o \in Objects!Object |->
                                IF o \in held THEN airflow[from][o] ELSE None],
                            !.todo = {Objects!Item(i, o, airflow[from][o]) : o \in held}],
                       "list")
  BY DEF Objects!Copy
<1> DEFINE held == {o \in Objects!Kinds[i] : airflow[from][o] # None}
           want == [o \in Objects!Object |-> IF o \in held THEN airflow[from][o] ELSE None]
           todo == {Objects!Item(i, o, airflow[from][o]) : o \in held}
           j == [Objects!Idle EXCEPT !.kind = "copy", !.to = to, !.want = want, !.todo = todo]
<1>2. Objects!Begin(t, j, "list")
  BY <1>1
<1>3. /\ from \in Objects!Airflow /\ to \in Objects!Airflow
      /\ \A o \in held : o \in Objects!Object /\ airflow[from][o] # None
  BY KindsAre DEF Objects!Airflow
<1>4. \A o \in held : airflow[from][o] \in Objects!Content
  BY <1>3 DEF ObjectsInv, ObjectsTyped, PlacesTyped
<1>5. ASSUME NEW y \in todo
      PROVE  /\ y \in AnItem /\ y.o \in held /\ y = Objects!Item(i, y.o, airflow[from][y.o])
             /\ y.e \in Objects!Content
  <2>1. PICK o \in held : y = Objects!Item(i, o, airflow[from][o])
    OBVIOUS
  <2>2. y.step = i /\ y.o = o /\ y.e = airflow[from][o] /\ i \in 1..4
    BY <2>1 DEF Objects!Item
  <2> HIDE DEF held
  <2>3. airflow[from][o] \in Told
    BY <1>4 DEF Told
  <2>4. y \in AnItem
    BY <1>3, <2>1, <2>2, <2>3 DEF Objects!Item, AnItem
  <2> QED
    BY <1>4, <2>1, <2>2, <2>4
<1>6. todo \in SUBSET AnItem
  BY <1>5
<1>7. want \in [Objects!Object -> Told \union {None}]
  BY <1>4 DEF Told
<1>8. /\ j \in ObjectJobs /\ j.kind = "copy" /\ j.todo = todo /\ j.at = None
      /\ j.want = want /\ j.to = to
  BY <1>3, <1>6, <1>7, IdleJob DEF ObjectJobs
<1>9. \A o \in Objects!Object : want[o] = IF o \in held THEN airflow[from][o] ELSE None
  OBVIOUS
<1>10. \A o \in held : Objects!Item(i, o, airflow[from][o]) \in todo
  OBVIOUS
<1> HIDE DEF held, todo, want, j
<1>11. Pending(j) = todo
  BY <1>8, PendingIs
<1>12. ASSUME NEW o \in Objects!Object, want[o] # None
       PROVE  OnTheWay(j, o)
  <2> DEFINE x == Objects!Item(i, o, airflow[from][o])
  <2>1. o \in held /\ x \in todo /\ x.o = o /\ x.e = want[o]
    BY <1>9, <1>10, <1>12 DEF Objects!Item
  <2>2. \A y \in todo : y.o = o => y = x
    BY <1>5
  <2> HIDE DEF x
  <2> QED
    BY <1>8, <1>11, <2>1, <2>2 DEF OnTheWay
<1>13. None \notin todo
  BY <1>6, NoneIsNone
<1>14. Carries("list", j, airflow, {})
  BY <1>3, <1>5, <1>8, <1>11, <1>12, <1>13 DEF Carries
<1>15. Writes("list", j, airflow, file, envFile, {})
  BY <1>8 DEF Writes
<1> QED
  BY <1>2, <1>8, <1>14, <1>15, Begins DEF ObjectSteps

-----------------------------------------------------------------------------
(* Exports.                                                                *)

LEMMA ExporterIs ==
  ASSUME ObjectsInv, NEW t \in Terminal, opc[t] \in {"exec", "truncate", "write", "append"}
  PROVE  /\ ojob[t] \in ObjectJobs /\ ojob[t].kind \in {"export", "env"}
         /\ ojob[t].mem \in [Objects!Object -> Objects!Entry \union {None}]
         /\ ojob[t].kinds \subseteq ojob[t].asked /\ ojob[t].kinds # {}
         /\ ojob[t].kinds \in SUBSET (1..3) /\ ojob[t].asked \in SUBSET (1..3)
         /\ Objects!First(ojob[t].kinds) \in ojob[t].kinds
         /\ opc[t] \in {"truncate", "write"} => ojob[t].kind = "export"
         /\ opc[t] = "append" => ojob[t].kind = "env"
         /\ Writes(opc[t], ojob[t], airflow, file, envFile, oraced[t])
<1>1. /\ ojob[t] \in ObjectJobs /\ Writes(opc[t], ojob[t], airflow, file, envFile, oraced[t])
      /\ ojob[t].kinds \in SUBSET (1..3) /\ ojob[t].asked \in SUBSET (1..3)
  BY ObjectsKnown DEF ObjectJobs
<1>2. /\ ojob[t].kind \in {"export", "env"}
      /\ ojob[t].mem \in [Objects!Object -> Objects!Entry \union {None}]
      /\ ojob[t].kinds \subseteq ojob[t].asked /\ ojob[t].kinds # {}
      /\ opc[t] \in {"truncate", "write"} => ojob[t].kind = "export"
      /\ opc[t] = "append" => ojob[t].kind = "env"
  BY <1>1 DEF Writes
<1> QED
  BY <1>1, <1>2, FirstIs

LEMMA ExportBegins ==
  ASSUME ObjectsInv, NEW t \in Terminal, Objects!Export(t) \/ Objects!EnvExport(t)
  PROVE  ObjectsInv'
<1>1. \A k \in KindAsks : k \in SUBSET (1..3) /\ k # {}
  BY ConstantsSound DEF Objects!Sound
<1>2. /\ file \in [Objects!Object -> Objects!Entry \union {None}]
      /\ file \in [Objects!Object -> Told \union {None}]
      /\ Objects!Nothing \in [Objects!Object -> Objects!Entry \union {None}]
  BY DEF ObjectsInv, ObjectsTyped, PlacesTyped, Told, Objects!Nothing
<1>3. CASE Objects!Export(t)
  <2>1. PICK k \in KindAsks :
           Objects!Begin(t, [Objects!Idle EXCEPT !.kind = "export", !.mem = file, !.want = file,
                              !.kinds = k, !.asked = k], "exec")
    BY <1>3 DEF Objects!Export
  <2> DEFINE j == [Objects!Idle EXCEPT !.kind = "export", !.mem = file, !.want = file,
                              !.kinds = k, !.asked = k]
  <2>2. /\ j \in ObjectJobs /\ j.kind = "export" /\ j.mem = file /\ j.want = file
        /\ j.kinds = k /\ j.asked = k
    BY <1>1, <1>2, IdleJob DEF ObjectJobs
  <2>3. Objects!Begin(t, j, "exec")
    BY <2>1
  <2> HIDE DEF j
  <2>4. Taken("exec", j) = {}
    BY <2>2 DEF Taken
  <2>5. Writes("exec", j, airflow, file, envFile, {})
    BY <1>1, <1>2, <2>2, <2>4 DEF Writes
  <2>6. Carries("exec", j, airflow, {})
    BY <2>2 DEF Carries
  <2> QED
    BY <2>2, <2>3, <2>5, <2>6, Begins DEF ObjectSteps
<1>4. CASE Objects!EnvExport(t)
  <2>1. PICK k \in KindAsks :
           Objects!Begin(t, [Objects!Idle EXCEPT !.kind = "env", !.kinds = k, !.asked = k], "exec")
    BY <1>4 DEF Objects!EnvExport
  <2> DEFINE j == [Objects!Idle EXCEPT !.kind = "env", !.kinds = k, !.asked = k]
  <2>2. /\ j \in ObjectJobs /\ j.kind = "env" /\ j.mem = Objects!Nothing
        /\ j.kinds = k /\ j.asked = k
    BY <1>1, <1>2, IdleJob DEF ObjectJobs
  <2>3. Objects!Begin(t, j, "exec")
    BY <2>1
  <2> HIDE DEF j
  <2>4. Taken("exec", j) = {}
    BY <2>2 DEF Taken
  <2>5. Writes("exec", j, airflow, file, envFile, {})
    BY <1>1, <1>2, <2>2, <2>4 DEF Writes
  <2>6. Carries("exec", j, airflow, {})
    BY <2>2 DEF Carries
  <2> QED
    BY <2>2, <2>3, <2>5, <2>6, Begins DEF ObjectSteps
<1> QED
  BY <1>3, <1>4

LEMMA Execed ==
  ASSUME ObjectsInv, NEW t \in Terminal, Objects!Exec(t)
  PROVE  ObjectsInv'
<1> DEFINE i == Objects!First(ojob[t].kinds)
           ids == Objects!Kinds[i]
           listed == {o \in ids : airflow[local][o] # None /\ Objects!Exports(o)}
           mem == [o \in Objects!Object |->
                      IF o \in listed THEN Objects!Exported(o, airflow[local][o])
                      ELSE ojob[t].mem[o]]
           j == [ojob[t] EXCEPT !.mem = mem]
           l == IF ojob[t].kind = "env" THEN "append" ELSE "truncate"
<1>1. opc[t] = "exec" /\ UNCHANGED <<airflow, file, envFile>>
  BY DEF Objects!Exec
<1>2. Objects!GiveUp(t) \/ (At(t, l, j) /\ UNCHANGED oraced)
  BY DEF Objects!Exec, Objects!Goto, At
<1>3. CASE At(t, l, j) /\ UNCHANGED oraced
  <2>1. /\ ojob[t] \in ObjectJobs /\ ojob[t].kind \in {"export", "env"}
        /\ ojob[t].mem \in [Objects!Object -> Objects!Entry \union {None}]
        /\ ojob[t].kinds \subseteq ojob[t].asked /\ ojob[t].kinds # {}
        /\ ojob[t].kinds \in SUBSET (1..3) /\ ojob[t].asked \in SUBSET (1..3)
        /\ i \in ojob[t].kinds
        /\ Writes("exec", ojob[t], airflow, file, envFile, oraced[t])
    BY <1>1, ExporterIs
  <2>2. /\ i \in 1..3 /\ ids \subseteq Objects!Object
        /\ \A k \in 1..3 : \A o \in Objects!Kinds[k] : o \in Objects!Object /\ (o \in ids => k = i)
    BY <2>1, KindsAre
  <2>3. \A o \in listed : /\ Objects!Exported(o, airflow[local][o]) \in Objects!Entry
                          /\ Objects!Exported(o, airflow[local][o]) # None
    <3>1. \A o \in listed : o \in Objects!Object /\ airflow[local][o] \in Objects!Content
      BY <2>2 DEF ObjectsInv, ObjectsTyped, PlacesTyped, Objects!Airflow
    <3> QED
      BY <3>1, ExportedIs
  <2>4. /\ mem \in [Objects!Object -> Objects!Entry \union {None}]
        /\ mem \in [Objects!Object -> Told \union {None}]
    BY <2>1, <2>3 DEF Told
  <2>5. \A o \in Objects!Object :
           mem[o] = IF o \in listed THEN Objects!Exported(o, airflow[local][o]) ELSE ojob[t].mem[o]
    OBVIOUS
  <2>6. \A o \in ids : ToWrite(o, airflow, oraced[t]) => o \in listed
    BY DEF ToWrite
  <2>7. \A o \in listed : o \in ids
    OBVIOUS
  <2> HIDE DEF mem, listed, i
  <2>8. /\ j \in ObjectJobs /\ j.kind = ojob[t].kind /\ j.mem = mem /\ j.want = ojob[t].want
        /\ j.kinds = ojob[t].kinds /\ j.asked = ojob[t].asked /\ j.ok = ojob[t].ok
    BY <2>1, <2>4 DEF ObjectJobs
  <2>9. /\ l \in {"append", "truncate"} /\ (l = "append" <=> j.kind = "env")
        /\ (l = "truncate" <=> j.kind = "export")
    BY <2>1, <2>8
  <2> HIDE DEF j, l, ids
  <2>10. \A o \in Objects!Object : j.want[o] # None /\ j.kind = "export" => j.mem[o] # None
    BY <2>1, <2>3, <2>5, <2>8 DEF Writes
  <2>11. \A o \in ids : o \in Objects!Object /\ (ToWrite(o, airflow, oraced[t]) =>
            j.mem[o] = Objects!Exported(o, airflow[local][o]))
    BY <2>2, <2>5, <2>6, <2>8
  <2>12. ASSUME NEW k \in ojob[t].asked \ ojob[t].kinds, NEW o \in Objects!Kinds[k]
         PROVE  o \in Objects!Object /\ j.mem[o] = ojob[t].mem[o] /\ k \in Taken("exec", ojob[t])
    <3>1. k \in 1..3 /\ k # i /\ o \in Objects!Object
      BY <2>1, <2>2
    <3>2. o \notin listed
      BY <2>2, <2>7, <3>1
    <3> QED
      BY <2>5, <2>8, <3>1, <3>2 DEF Taken
  <2>13. j.kind = "export" /\ j.ok => \A k \in Taken(l, j) : \A o \in Objects!Kinds[k] :
            ToWrite(o, airflow, oraced[t]) => j.mem[o] = Objects!Exported(o, airflow[local][o])
    BY <2>1, <2>8, <2>9, <2>11, <2>12 DEF Writes, Taken, i, ids
  <2>14. j.kind = "env" /\ j.ok => \A k \in Taken(l, j) : \A o \in Objects!Kinds[k] :
            ToWrite(o, airflow, oraced[t]) /\ <<"env", o>> \notin oraced[t] =>
               envFile[o] = Objects!Exported(o, airflow[local][o])
    BY <2>1, <2>8, <2>9, <2>12 DEF Writes, Taken
  <2>15. j.kind = "env" => \A o \in Objects!Kinds[Objects!First(j.kinds)] :
            ToWrite(o, airflow, oraced[t]) => j.mem[o] = Objects!Exported(o, airflow[local][o])
    BY <2>8, <2>11 DEF i, ids
  <2>16. Writes(l, j, airflow, file, envFile, oraced[t])
    BY <2>1, <2>4, <2>8, <2>9, <2>10, <2>13, <2>14, <2>15 DEF Writes
  <2>17. Carries(l, j, airflow, oraced[t])
    BY <2>1, <2>8, <2>9 DEF Carries
  <2>18. PlacesTyped' /\ OthersRaced(t)
    BY <1>1, <1>3, NothingRaced
  <2> QED
    BY <1>1, <1>3, <2>8, <2>9, <2>16, <2>17, <2>18, ObjectsStep DEF ObjectSteps
<1> QED
  BY <1>1, <1>2, <1>3, GivesUp

\* To the next kind, after one that went well or not.
NextJob(j, j2, well) ==
    /\ j2.kind = j.kind /\ j2.mem = j.mem /\ j2.want = j.want /\ j2.asked = j.asked
    /\ j2.kinds = j.kinds \ {Objects!First(j.kinds)} /\ j2.ok = (j.ok /\ well)

LEMMA NextKindIs ==
  ASSUME ObjectsInv, NEW t \in Terminal, opc[t] \in {"exec", "write", "append"},
         NEW well \in BOOLEAN, Objects!NextKind(t, well), PlacesTyped', OthersRaced(t),
         \A j \in ObjectJobs, l \in {"exec", "done"} :
            /\ NextJob(ojob[t], j, well) /\ j.kind \in {"export", "env"}
            /\ j.mem \in [Objects!Object -> Objects!Entry \union {None}]
            /\ j.kinds \subseteq j.asked
            /\ IF l = "done" THEN j.kinds = {} /\ j.ok ELSE j.kinds # {}
            /\ Taken(l, j) = (ojob[t].asked \ ojob[t].kinds) \union {Objects!First(ojob[t].kinds)}
            => Writes(l, j, airflow', file', envFile', oraced'[t])
  PROVE  ObjectsInv'
<1> DEFINE kinds == ojob[t].kinds \ {Objects!First(ojob[t].kinds)}
           ok == ojob[t].ok /\ well
           j == [ojob[t] EXCEPT !.kinds = kinds, !.ok = ok]
           l == IF kinds # {} THEN "exec" ELSE IF ok THEN "done" ELSE "idle"
<1>1. /\ ojob[t] \in ObjectJobs /\ ojob[t].kind \in {"export", "env"}
      /\ ojob[t].mem \in [Objects!Object -> Objects!Entry \union {None}]
      /\ ojob[t].kinds \subseteq ojob[t].asked
      /\ ojob[t].kinds \in SUBSET (1..3) /\ ojob[t].asked \in SUBSET (1..3)
      /\ Objects!First(ojob[t].kinds) \in ojob[t].kinds
  BY ExporterIs
<1>2. At(t, l, j)
  BY DEF Objects!NextKind, Objects!Goto, At
<1>3. ojob[t].ok \in BOOLEAN
  BY <1>1 DEF ObjectJobs
<1>4. j \in ObjectJobs /\ NextJob(ojob[t], j, well) /\ j.kinds = kinds /\ j.ok = ok
  BY <1>1, <1>3 DEF ObjectJobs, NextJob
<1>5. /\ l \in {"exec", "done", "idle"} /\ (l = "done" => kinds = {} /\ ok)
      /\ (l = "exec" => kinds # {})
  OBVIOUS
<1> HIDE DEF j, l
<1>6. CASE l = "idle"
  BY <1>2, <1>4, <1>6, IdleIs, ObjectsStep DEF ObjectSteps
<1>7. CASE l \in {"exec", "done"}
  <2>1. Taken(l, j) = (ojob[t].asked \ ojob[t].kinds) \union {Objects!First(ojob[t].kinds)}
    BY <1>1, <1>4, <1>7 DEF Taken, NextJob
  <2>2. Writes(l, j, airflow', file', envFile', oraced'[t])
    BY <1>1, <1>4, <1>5, <1>7, <2>1 DEF NextJob
  <2>3. Carries(l, j, airflow', oraced'[t])
    BY <1>1, <1>4, <1>7 DEF Carries, NextJob
  <2> QED
    BY <1>2, <1>4, <1>7, <2>2, <2>3, ObjectsStep DEF ObjectSteps
<1> QED
  BY <1>5, <1>6, <1>7

LEMMA KindFailed ==
  ASSUME ObjectsInv, NEW t \in Terminal, Objects!KindFails(t)
  PROVE  ObjectsInv'
<1>1. /\ opc[t] \in {"exec", "write"} /\ Objects!NextKind(t, FALSE)
      /\ UNCHANGED <<airflow, file, envFile, oraced>>
  BY DEF Objects!KindFails
<1>2. PlacesTyped' /\ OthersRaced(t)
  BY <1>1, NothingRaced
<1>3. \A o \in Objects!Object : ojob[t].kind = "export" /\ ojob[t].want[o] # None => ojob[t].mem[o] # None
  BY <1>1, ExporterIs DEF Writes
<1>4. ASSUME NEW j \in ObjectJobs, NEW l \in {"exec", "done"}, NextJob(ojob[t], j, FALSE),
             j.kind \in {"export", "env"},
             j.mem \in [Objects!Object -> Objects!Entry \union {None}],
             j.kinds \subseteq j.asked, IF l = "done" THEN j.kinds = {} /\ j.ok ELSE j.kinds # {}
      PROVE  Writes(l, j, airflow', file', envFile', oraced'[t])
  BY <1>3, <1>4 DEF NextJob, Writes
<1> QED
  BY <1>1, <1>2, <1>4, NextKindIs

LEMMA FileSet ==
  ASSUME ObjectsInv, NEW t \in Terminal, NEW S \in SUBSET Objects!Object,
         file' \in [Objects!Object -> Objects!Entry \union {None}],
         \A o \in Objects!Object \ S : file'[o] = file[o],
         UNCHANGED <<airflow, envFile>>, Objects!Race(t, "file", S)
  PROVE  PlacesTyped' /\ OthersRaced(t) /\ oraced'[t] = oraced[t]
<1>1. /\ oraced' \in [Terminal -> SUBSET (Spot \X Objects!Object)]
      /\ \A u \in Terminal \ {t} : oraced[u] \subseteq oraced'[u] /\ \A o \in S : <<"file", o>> \in oraced'[u]
      /\ oraced'[t] = oraced[t]
  BY HaveRaced DEF Spot
<1>2. OthersRaced(t)
  BY <1>1 DEF OthersRaced, Quiet
<1> QED
  BY <1>1, <1>2 DEF ObjectsInv, ObjectsTyped, PlacesTyped

LEMMA LinesSet ==
  ASSUME ObjectsInv, NEW t \in Terminal, NEW S \in SUBSET Objects!Object,
         envFile' \in [Objects!Object -> Objects!Entry \union {None}],
         \A o \in Objects!Object \ S : envFile'[o] = envFile[o],
         UNCHANGED <<airflow, file>>, Objects!Race(t, "env", S)
  PROVE  PlacesTyped' /\ OthersRaced(t) /\ oraced'[t] = oraced[t]
<1>1. /\ oraced' \in [Terminal -> SUBSET (Spot \X Objects!Object)]
      /\ \A u \in Terminal \ {t} : oraced[u] \subseteq oraced'[u] /\ \A o \in S : <<"env", o>> \in oraced'[u]
      /\ oraced'[t] = oraced[t]
  BY HaveRaced DEF Spot
<1>2. OthersRaced(t)
  BY <1>1 DEF OthersRaced, Quiet
<1> QED
  BY <1>1, <1>2 DEF ObjectsInv, ObjectsTyped, PlacesTyped

LEMMA Truncated ==
  ASSUME ObjectsInv, NEW t \in Terminal, Objects!Truncate(t)
  PROVE  ObjectsInv'
<1>1. /\ opc[t] = "truncate" /\ file' = Objects!Nothing /\ Objects!Race(t, "file", Objects!Object)
      /\ Objects!Goto(t, "write") /\ UNCHANGED <<airflow, envFile, ojob>>
  BY DEF Objects!Truncate
<1>2. file' \in [Objects!Object -> Objects!Entry \union {None}]
  BY <1>1 DEF Objects!Nothing
<1>3. PlacesTyped' /\ OthersRaced(t) /\ oraced'[t] = oraced[t]
  BY <1>1, <1>2, FileSet
<1>4. /\ ojob[t] \in ObjectJobs /\ ojob[t].kind = "export"
      /\ Writes("truncate", ojob[t], airflow, file, envFile, oraced[t])
  BY <1>1, ExporterIs
<1>5. At(t, "write", ojob[t])
  BY <1>1 DEF At, Objects!Goto, ObjectsInv, ObjectsTyped
<1>6. Taken("write", ojob[t]) = Taken("truncate", ojob[t])
  BY DEF Taken
<1>7. Writes("write", ojob[t], airflow', file', envFile', oraced'[t])
  BY <1>1, <1>3, <1>4, <1>6 DEF Writes
<1>8. Carries("write", ojob[t], airflow', oraced'[t])
  BY <1>4 DEF Carries
<1> QED
  BY <1>3, <1>4, <1>5, <1>7, <1>8, ObjectsStep DEF ObjectSteps

LEMMA FileWritten ==
  ASSUME ObjectsInv, NEW t \in Terminal, Objects!WriteFile(t)
  PROVE  ObjectsInv'
<1>1. /\ opc[t] = "write" /\ file' = ojob[t].mem /\ Objects!Race(t, "file", Objects!Object)
      /\ Objects!NextKind(t, TRUE) /\ UNCHANGED <<airflow, envFile>>
  BY DEF Objects!WriteFile
<1>2. /\ ojob[t] \in ObjectJobs /\ ojob[t].kind = "export"
      /\ ojob[t].mem \in [Objects!Object -> Objects!Entry \union {None}]
      /\ Writes("write", ojob[t], airflow, file, envFile, oraced[t])
  BY <1>1, ExporterIs
<1>3. PlacesTyped' /\ OthersRaced(t) /\ oraced'[t] = oraced[t]
  BY <1>1, <1>2, FileSet
<1>4. ASSUME NEW j \in ObjectJobs, NEW l \in {"exec", "done"}, NextJob(ojob[t], j, TRUE),
             j.kind \in {"export", "env"},
             j.mem \in [Objects!Object -> Objects!Entry \union {None}],
             j.kinds \subseteq j.asked, IF l = "done" THEN j.kinds = {} /\ j.ok ELSE j.kinds # {},
             Taken(l, j) = (ojob[t].asked \ ojob[t].kinds) \union {Objects!First(ojob[t].kinds)}
      PROVE  Writes(l, j, airflow', file', envFile', oraced'[t])
  <2>1. Taken(l, j) = Taken("write", ojob[t]) /\ (j.ok = ojob[t].ok \/ ~j.ok)
        /\ (j.ok => ojob[t].ok) /\ j.mem = ojob[t].mem /\ j.want = ojob[t].want /\ j.kind = "export"
    BY <1>2, <1>4 DEF Taken, NextJob
  <2> QED
    BY <1>1, <1>2, <1>3, <1>4, <2>1 DEF Writes
<1> QED
  BY <1>1, <1>3, <1>4, NextKindIs

LEMMA LinesAppended ==
  ASSUME ObjectsInv, NEW t \in Terminal, Objects!AppendLines(t)
  PROVE  ObjectsInv'
<1> DEFINE i == Objects!First(ojob[t].kinds)
           all == {o \in Objects!Kinds[i] : ojob[t].mem[o] # None}
<1>1. opc[t] = "append" /\ UNCHANGED <<airflow, file>>
  BY DEF Objects!AppendLines
<1>2. PICK some \in SUBSET all :
         /\ envFile' = [o \in Objects!Object |-> IF o \in some THEN ojob[t].mem[o] ELSE envFile[o]]
         /\ Objects!Race(t, "env", some)
         /\ Objects!NextKind(t, some = all)
  BY DEF Objects!AppendLines
<1>3. /\ ojob[t] \in ObjectJobs /\ ojob[t].kind = "env"
      /\ ojob[t].mem \in [Objects!Object -> Objects!Entry \union {None}]
      /\ ojob[t].kinds \subseteq ojob[t].asked /\ ojob[t].asked \in SUBSET (1..3)
      /\ i \in ojob[t].kinds
      /\ Writes("append", ojob[t], airflow, file, envFile, oraced[t])
  BY <1>1, ExporterIs
<1>4. /\ i \in 1..3 /\ \A k \in 1..3 : \A o \in Objects!Kinds[k] : o \in Objects!Object
      /\ \A k \in 1..3 : \A o \in Objects!Kinds[k] : o \in Objects!Kinds[i] => k = i
  BY <1>3, KindsAre
<1>5. some \in SUBSET Objects!Object
  BY <1>4
<1>6. envFile \in [Objects!Object -> Objects!Entry \union {None}]
  BY DEF ObjectsInv, ObjectsTyped, PlacesTyped
<1>7. /\ envFile' \in [Objects!Object -> Objects!Entry \union {None}]
      /\ \A o \in Objects!Object : envFile'[o] = IF o \in some THEN ojob[t].mem[o] ELSE envFile[o]
  BY <1>2, <1>3, <1>5, <1>6
<1>8. PlacesTyped' /\ OthersRaced(t) /\ oraced'[t] = oraced[t]
  BY <1>1, <1>2, <1>5, <1>7, LinesSet
<1>9. \A o \in Objects!Kinds[i] : ToWrite(o, airflow, oraced[t]) =>
         /\ o \in all
         /\ ojob[t].mem[o] = Objects!Exported(o, airflow[local][o])
  <2> SUFFICES ASSUME NEW o \in Objects!Kinds[i], ToWrite(o, airflow, oraced[t])
               PROVE  /\ ojob[t].mem[o] # None
                      /\ ojob[t].mem[o] = Objects!Exported(o, airflow[local][o])
    OBVIOUS
  <2>1. ojob[t].mem[o] = Objects!Exported(o, airflow[local][o])
    BY <1>3 DEF Writes
  <2>2. o \in Objects!Object /\ airflow[local][o] \in Objects!Content
    BY <1>4 DEF ToWrite, ObjectsInv, ObjectsTyped, PlacesTyped, Objects!Airflow
  <2> QED
    BY <2>1, <2>2, ExportedIs
<1>10. \A o \in some : o \in Objects!Kinds[i]
  OBVIOUS
<1> DEFINE well == (some = all)
<1>11. well \in BOOLEAN /\ Objects!NextKind(t, well) /\ (well => some = all)
  BY <1>2
<1> HIDE DEF i, all, well
<1>12. ASSUME NEW j \in ObjectJobs, NEW l \in {"exec", "done"}, NextJob(ojob[t], j, well),
              j.kind \in {"export", "env"},
              j.mem \in [Objects!Object -> Objects!Entry \union {None}],
              j.kinds \subseteq j.asked, IF l = "done" THEN j.kinds = {} /\ j.ok ELSE j.kinds # {},
              Taken(l, j) = (ojob[t].asked \ ojob[t].kinds) \union {Objects!First(ojob[t].kinds)}
       PROVE  Writes(l, j, airflow', file', envFile', oraced'[t])
  <2>1. /\ Taken(l, j) = Taken("append", ojob[t]) \union {i}
        /\ (j.ok => ojob[t].ok /\ some = all) /\ j.kind = "env"
    BY <1>3, <1>11, <1>12 DEF Taken, NextJob, i
  <2>2. ASSUME j.ok, NEW k \in Taken(l, j), NEW o \in Objects!Kinds[k],
               ToWrite(o, airflow, oraced[t]), <<"env", o>> \notin oraced[t]
        PROVE  envFile'[o] = Objects!Exported(o, airflow[local][o])
    <3>1. CASE k = i
      <4>1. o \in some /\ o \in Objects!Object
        BY <1>4, <1>9, <2>1, <2>2, <3>1
      <4> QED
        BY <1>7, <1>9, <2>2, <3>1, <4>1
    <3>2. CASE k # i
      <4>1. k \in Taken("append", ojob[t]) /\ k \in 1..3
        BY <1>3, <2>1, <3>2 DEF Taken
      <4>2. o \in Objects!Object /\ o \notin some
        BY <1>4, <1>10, <3>2, <4>1
      <4>3. envFile[o] = Objects!Exported(o, airflow[local][o])
        BY <1>3, <2>1, <2>2, <4>1 DEF Writes
      <4> QED
        BY <1>7, <4>2, <4>3
    <3> QED
      BY <3>1, <3>2
  <2> QED
    BY <1>1, <1>8, <1>12, <2>1, <2>2 DEF Writes
<1> QED
  BY <1>1, <1>8, <1>11, <1>12, NextKindIs

-----------------------------------------------------------------------------
(* Changes by hand.                                                        *)

LEMMA JobsStand ==
  ASSUME ObjectsInv, UNCHANGED <<opc, ojob>>, PlacesTyped',
         oraced' \in [Terminal -> SUBSET (Spot \X Objects!Object)],
         \A u \in Terminal :
            /\ oraced[u] \subseteq oraced'[u]
            /\ Quiet(airflow, file, envFile, airflow', file', envFile', oraced'[u])
  PROVE  ObjectsInv'
<1>1. ASSUME NEW u \in Terminal
      PROVE  /\ Carries(opc'[u], ojob'[u], airflow', oraced'[u])
             /\ Writes(opc'[u], ojob'[u], airflow', file', envFile', oraced'[u])
  <2>1. /\ ojob[u] \in ObjectJobs /\ Carries(opc[u], ojob[u], airflow, oraced[u])
        /\ Writes(opc[u], ojob[u], airflow, file, envFile, oraced[u])
    BY ObjectsKnown
  <2>2. opc[u] \in {"exec", "truncate", "write", "append"} => ojob[u].kinds # {}
    BY KindsLeft
  <2> QED
    BY <2>1, <2>2, RacedCarries, RacedWrites
<1> QED
  BY <1>1 DEF ObjectsInv, ObjectsTyped

LEMMA ChangedByHand ==
  ASSUME ObjectsInv, Objects!Edit
  PROVE  ObjectsInv'
<1>0. ByHand \subseteq Objects!Content
  BY ConstantsSound DEF Objects!Sound
<1>1. UNCHANGED <<opc, ojob, envFile>>
  BY DEF Objects!Edit
<1>2. CASE \E a \in Objects!Airflow, o \in Objects!Object, c \in ByHand \union {None} :
              /\ airflow' = [airflow EXCEPT ![a][o] = c]
              /\ Objects!Race(None, a, {o})
              /\ UNCHANGED file
  <2>1. PICK a \in Objects!Airflow, o \in Objects!Object, c \in Objects!Content \union {None} :
           AirflowSet(None, a, o, c)
    BY <1>0, <1>1, <1>2 DEF AirflowSet
  <2>2. AirflowHas(None, a, o, c)
    BY <2>1, AirflowRaced
  <2>3. Terminal \ {None} = Terminal
    BY NoneIsNone
  <2> QED
    BY <1>1, <2>2, <2>3, JobsStand DEF AirflowHas, OthersRaced
<1>3. CASE \E o \in Objects!Object, c \in ByHand \union {None} :
              /\ file' = [file EXCEPT ![o] = IF c = None THEN None ELSE Objects!Exported(o, c)]
              /\ Objects!Race(None, "file", {o})
              /\ UNCHANGED airflow
  <2>1. PICK o \in Objects!Object, c \in ByHand \union {None} :
              /\ file' = [file EXCEPT ![o] = IF c = None THEN None ELSE Objects!Exported(o, c)]
              /\ Objects!Race(None, "file", {o})
              /\ UNCHANGED airflow
    BY <1>3
  <2>2. (IF c = None THEN None ELSE Objects!Exported(o, c)) \in Objects!Entry \union {None}
    BY <1>0, ExportedIs
  <2>3. /\ file' \in [Objects!Object -> Objects!Entry \union {None}]
        /\ \A x \in Objects!Object \ {o} : file'[x] = file[x]
    BY <2>1, <2>2 DEF ObjectsInv, ObjectsTyped, PlacesTyped
  <2>4. /\ oraced' \in [Terminal -> SUBSET (Spot \X Objects!Object)]
        /\ \A u \in Terminal : oraced[u] \subseteq oraced'[u] /\ <<"file", o>> \in oraced'[u]
    BY <2>1, NoneIsNone, HaveRaced DEF Spot
  <2>5. \A u \in Terminal : Quiet(airflow, file, envFile, airflow', file', envFile', oraced'[u])
    BY <1>1, <2>1, <2>3, <2>4 DEF Quiet
  <2>6. PlacesTyped'
    BY <1>1, <2>1, <2>3 DEF ObjectsInv, ObjectsTyped, PlacesTyped
  <2> QED
    BY <1>1, <2>4, <2>5, <2>6, JobsStand
<1> QED
  BY <1>2, <1>3 DEF Objects!Edit

-----------------------------------------------------------------------------
(* The invariant and what it says.                                         *)

LEMMA ObjectsStart ==
  ASSUME Objects!Init
  PROVE  ObjectsInv
<1>1. /\ \A t \in Terminal : opc[t] = "idle" /\ ojob[t] = Objects!Idle /\ oraced[t] = {}
      /\ opc \in [Terminal -> ObjectSteps]
      /\ oraced \in [Terminal -> SUBSET (Spot \X Objects!Object)]
  BY DEF Objects!Init, ObjectSteps
<1>2. ojob \in [Terminal -> ObjectJobs]
  BY IdleIs DEF Objects!Init
<1>3. PlacesTyped
  BY DEF Objects!Init, PlacesTyped, Objects!Nothing
<1> QED
  BY <1>1, <1>2, <1>3, IdleIs DEF ObjectsInv, ObjectsTyped

LEMMA ObjectsStay ==
  ASSUME ObjectsInv, [Objects!Next]_Objects!vars
  PROVE  ObjectsInv'
<1>1. CASE UNCHANGED Objects!vars
  BY <1>1 DEF ObjectsInv, ObjectsTyped, PlacesTyped, Objects!vars
<1>2. ASSUME NEW t \in Terminal, Objects!Fail(t)
      PROVE  ObjectsInv'
  BY <1>2, GivesUp DEF Objects!Fail
<1> QED
  BY <1>1, <1>2, ImportBegins, ExportBegins, CopyBegins, TargetListed, ItemSent, ItemPatched,
     Execed, Truncated, FileWritten, LinesAppended, KindFailed, ChangedByHand DEF Objects!Next

LEMMA AllArrived ==
  ASSUME ObjectsInv
  PROVE  Objects!ArrivesAsWanted
<1> SUFFICES ASSUME NEW t \in Terminal, opc[t] = "done", ojob[t].kind \in {"import", "copy"},
                    NEW o \in Objects!Object, ojob[t].want[o] # None,
                    Objects!Untouched(t, ojob[t].to, o)
             PROVE  Arrived(ojob[t].kind, o, ojob[t].want[o], airflow[ojob[t].to][o])
  BY Zenon DEF Objects!ArrivesAsWanted, Arrived
<1>1. ojob[t] \in ObjectJobs /\ Carries("done", ojob[t], airflow, oraced[t])
  BY ObjectsKnown
<1>2. ojob[t].todo = {} /\ ojob[t].at = None /\ Pending(ojob[t]) = {}
  BY <1>1, PendingIs DEF Carries
<1>3. Brought(ojob[t], o, airflow, oraced[t])
  BY <1>1, <1>2 DEF Carries, OnTheWay
<1> QED
  BY <1>3 DEF Brought, Objects!Untouched

LEMMA AllWritten ==
  ASSUME ObjectsInv
  PROVE  Objects!ExportsWhole
<1> SUFFICES ASSUME NEW t \in Terminal, opc[t] = "done"
             PROVE  /\ ojob[t].kind = "env" =>
                          \A o \in Objects!Due(t) : Objects!Untouched(t, "env", o) =>
                              envFile[o] = Objects!Exported(o, airflow[local][o])
                    /\ ojob[t].kind = "export" =>
                          \A o \in {x \in Objects!Object : Objects!Untouched(t, "file", x)} :
                              /\ o \in Objects!Due(t) =>
                                    file[o] = Objects!Exported(o, airflow[local][o])
                              /\ ojob[t].want[o] # None => file[o] # None
  BY DEF Objects!ExportsWhole
<1>1. Writes("done", ojob[t], airflow, file, envFile, oraced[t])
  BY ObjectsKnown
<1>2. ojob[t].kind \in {"export", "env"} => ojob[t].ok /\ Taken("done", ojob[t]) = ojob[t].asked
  BY <1>1 DEF Writes, Taken
<1>3. ASSUME NEW o \in Objects!Due(t)
      PROVE  /\ ToWrite(o, airflow, oraced[t])
             /\ \E i \in ojob[t].asked : o \in Objects!Kinds[i]
  BY <1>3 DEF Objects!Due, ToWrite, Objects!Untouched
<1>4. ASSUME ojob[t].kind = "env", NEW o \in Objects!Due(t), Objects!Untouched(t, "env", o)
      PROVE  envFile[o] = Objects!Exported(o, airflow[local][o])
  BY <1>1, <1>2, <1>3, <1>4 DEF Writes, Objects!Untouched
<1>5. ASSUME ojob[t].kind = "export", NEW o \in Objects!Object, Objects!Untouched(t, "file", o)
      PROVE  /\ o \in Objects!Due(t) => file[o] = Objects!Exported(o, airflow[local][o])
             /\ ojob[t].want[o] # None => file[o] # None
  <2>1. file[o] = ojob[t].mem[o]
    BY <1>1, <1>2, <1>5 DEF Writes, Objects!Untouched
  <2>2. ojob[t].want[o] # None => ojob[t].mem[o] # None
    BY <1>1, <1>5 DEF Writes
  <2>3. o \in Objects!Due(t) => ojob[t].mem[o] = Objects!Exported(o, airflow[local][o])
    BY <1>1, <1>2, <1>3, <1>5 DEF Writes
  <2> QED
    BY <2>1, <2>2, <2>3
<1> QED
  BY <1>4, <1>5

LEMMA ObjectsHold == Objects!Spec => []ObjectsInv
<1>1. Objects!Init => ObjectsInv
  BY ObjectsStart
<1>2. ObjectsInv /\ [Objects!Next]_Objects!vars => ObjectsInv'
  BY ObjectsStay
<1> QED
  BY <1>1, <1>2, PTL DEF Objects!Spec

\* Whatever a command carries arrives whole: an import, a copy or an export
\* that says it is done, but for what others have changed meanwhile.
THEOREM TransfersAreWhole == Objects!Spec => []TransfersWhole
<1>1. ObjectsInv => TransfersWhole
  BY AllArrived, AllWritten DEF TransfersWhole, Objects!TransfersWhole
<1> QED
  BY <1>1, ObjectsHold, PTL

-----------------------------------------------------------------------------
(* An export that is imported again.                                       *)

LEMMA UpdateUndoesNothing ==
  ASSUME NEW o \in Objects!Object, o \notin Objects!Pools, NEW c \in Objects!Content
  PROVE  Objects!Updated("import", o, Objects!Exported(o, c), c) = c
<1> DEFINE e == Objects!Exported(o, c)
<1>1. /\ e.main = c.main /\ e.rest = IF o \in Variables THEN None ELSE c.rest
  BY DEF Objects!Exported
<1>2. CASE o \in Variables \/ e.rest = None
  <2>1. Objects!Updated("import", o, e, c) = [c EXCEPT !.main = e.main]
    BY <1>2 DEF Objects!Updated
  <2> QED
    BY <1>1, <2>1 DEF Objects!Content
<1>3. CASE ~(o \in Variables \/ e.rest = None)
  <2>1. Objects!Updated("import", o, e, c) = [c EXCEPT !.main = e.main, !.rest = e.rest]
    BY <1>3 DEF Objects!Updated
  <2> QED
    BY <1>1, <1>3, <2>1 DEF Objects!Content
<1> QED
  BY <1>2, <1>3

LEMMA PatchLeavesIt ==
  ASSUME ObjectsInv, [Objects!Next]_Objects!vars, NEW t \in Terminal, opc[t] = "patch",
         opc'[t] # "patch", ojob[t].kind = "import", ojob[t].at.o \notin Objects!Pools,
         airflow[local][ojob[t].at.o] # None,
         ojob[t].at.e = Objects!Exported(ojob[t].at.o, airflow[local][ojob[t].at.o])
  PROVE  airflow'[local][ojob[t].at.o] = airflow[local][ojob[t].at.o]
<1> DEFINE o == ojob[t].at.o
           c == airflow[local][o]
<1>1. /\ opc \in [Terminal -> ObjectSteps] /\ ojob[t].to = local /\ ojob[t].at \in AnItem
      /\ airflow \in [Objects!Airflow -> [Objects!Object -> Objects!Content \union {None}]]
      /\ local \in Objects!Airflow
  BY ObjectsKnown, PendingIs DEF ObjectsInv, ObjectsTyped, PlacesTyped, Carries, Objects!Airflow
<1>2. o \in Objects!Object /\ c \in Objects!Content
  BY <1>1 DEF AnItem
<1>3. Objects!Updated("import", o, ojob[t].at.e, c) = c
  BY <1>2, UpdateUndoesNothing
<1>4. ASSUME NEW u \in Terminal, NEW l, opc' = [opc EXCEPT ![u] = l]
      PROVE  u = t
  BY <1>1, <1>4
<1>5. CASE Objects!Patch(t)
  <2>1. airflow' = [airflow EXCEPT ![local][o] = Objects!Updated("import", o, ojob[t].at.e, c)]
    BY <1>1, <1>2, <1>5 DEF Objects!Patch
  <2> HIDE DEF o
  <2> QED
    BY <1>1, <1>2, <1>3, <2>1 DEF o
<1>6. CASE UNCHANGED airflow
  BY <1>6
<1>7. ASSUME NEW u \in Terminal, Objects!Send(u)
      PROVE  FALSE
  <2>1. \E l : opc' = [opc EXCEPT ![u] = l]
    BY <1>7 DEF Objects!Send, Objects!GoOn, Objects!Goto
  <2> QED
    BY <1>4, <1>7, <2>1 DEF Objects!Send
<1>8. ASSUME NEW u \in Terminal, Objects!Patch(u)
      PROVE  u = t
  <2>1. \E l : opc' = [opc EXCEPT ![u] = l]
    BY <1>8 DEF Objects!Patch, Objects!GoOn, Objects!GiveUp, Objects!Goto
  <2> QED
    BY <1>4, <2>1
<1>9. ASSUME NEW u \in Terminal, Objects!Import(u) \/ Objects!Export(u) \/ Objects!EnvExport(u)
         \/ Objects!Copy(u)
      PROVE  UNCHANGED airflow
  BY <1>9 DEF Objects!Import, Objects!Export, Objects!EnvExport, Objects!Copy, Objects!Begin
<1>10. ASSUME NEW u \in Terminal, Objects!ListTarget(u) \/ Objects!Exec(u) \/ Objects!Truncate(u)
         \/ Objects!WriteFile(u) \/ Objects!AppendLines(u) \/ Objects!KindFails(u) \/ Objects!Fail(u)
      PROVE  UNCHANGED airflow
  BY <1>10 DEF Objects!ListTarget, Objects!Exec, Objects!Truncate, Objects!WriteFile,
     Objects!AppendLines, Objects!KindFails, Objects!Fail
<1>11. ~Objects!Edit
  BY DEF Objects!Edit
<1>12. UNCHANGED Objects!vars => UNCHANGED airflow
  BY DEF Objects!vars
<1> QED
  BY <1>5, <1>6, <1>7, <1>8, <1>9, <1>10, <1>11, <1>12 DEF Objects!Next

\* What was exported can be imported again without changing Airflow.
THEOREM ImportsUndoNothing == Objects!Spec => ImportUndoesNothing
<1>1. ObjectsInv /\ [Objects!Next]_Objects!vars =>
         [\A t \in Terminal :
             opc[t] = "patch" /\ opc'[t] # "patch" /\ ojob[t].kind = "import" =>
                 LET o == ojob[t].at.o IN
                 o \notin Objects!Pools /\ airflow[local][o] # None
                 /\ ojob[t].at.e = Objects!Exported(o, airflow[local][o])
                 => airflow'[local][o] = airflow[local][o]]_Objects!vars
  BY PatchLeavesIt
<1> QED
  BY <1>1, ObjectsHold, PTL DEF ImportUndoesNothing, Objects!ImportUndoesNothing, Objects!Spec
=============================================================================
