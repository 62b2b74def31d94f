------------------------- MODULE DeploymentsProofs -------------------------
(***************************************************************************)
(* Of a Deployment file: that an update with one option changes that and   *)
(* nothing else (OnlyTheOption), that a file given back as it was written  *)
(* changes nothing (RoundTripKeeps), and that a Deployment is what its     *)
(* file says (FileTakesEffect), for any variables, queues, node pools and  *)
(* bounds.                                                                 *)
(*                                                                         *)
(* Of the commands of admins that share the server: that queues fit the    *)
(* executor (QueuesFitExecutor), that a command changes what it was asked  *)
(* to or what another changed meanwhile (OnlyAskedOrRaced), and that what  *)
(* is done is done as asked (DoneAsAsked), for any admins, Deployments,    *)
(* fields, files and bounds.                                               *)
(*                                                                         *)
(* Sound and Deps!Sound say what the constants are; MCDeployments checks   *)
(* them of the instance that TLC explores.                                 *)
(***************************************************************************)
EXTENDS MCDeployments, TLAPS

-----------------------------------------------------------------------------
(* A Deployment and its file.                                              *)

Texts == {"size", "pod", "identity", "remote", "mail", "schedules"}

Kinds == type \in {Standard, Dedicated, Hybrid} /\ keeps \in BOOLEAN

\* What a request may hold.
Sending == [machine : Machines, disk : Val \union {None, Omit}]
Wanted(qs) == qs \in [Queue -> Sending \union {None}] /\ \E q \in Queue : qs[q] # None
Request(r) ==
    /\ r = [x \in Field |-> r[x]]
    /\ r["name"] \in {Old, New, None, Omit}
    /\ r["executor"] \in Executors \union {Omit}
    /\ r["ha"] \in BOOLEAN \union {Omit} /\ r["dev"] \in BOOLEAN \union {Omit}
    /\ r["dag"] \in BOOLEAN \union {None, Omit}
    /\ r["env"] = Omit \/ r["env"] \in [Key -> Variable \union {None}]
    /\ r["queues"] = Omit \/ Wanted(r["queues"])
    /\ r["pool"] \in Machines \union {None, Omit}
    /\ \A x \in Texts : r[x] \in Val \union {Platform, None, Omit}
    /\ r["remote"] \notin {None, Omit} => type = Dedicated

\* What it may be applied to: a Deployment, or the blank one it creates.
Base(d) ==
    /\ d = [x \in Field |-> d[x]]
    /\ d["name"] \in {Old, New, None}
    /\ d["ha"] \in BOOLEAN /\ d["dev"] \in BOOLEAN
    /\ d["dag"] \in BOOLEAN \union {None}
    /\ d["env"] \in [Key -> Variable \union {None}]
    /\ d["queues"] \in [Queue -> Workers(Machines) \union {None}]
    /\ d["pool"] \in Machines \union {None}
    /\ \A x \in Texts : d[x] \in Val \union {Platform, None}
    /\ d["remote"] # None => type = Dedicated

-----------------------------------------------------------------------------
(* The server.                                                             *)

LEMMA HeldBase == \A d : Held(d) => Base(d) /\ d["executor"] \in Executors
  BY DEF Held, Base, Typed, Texts

LEMMA BlankBase == Base(Blank)
<1>1. /\ Blank = [x \in Field |-> Blank[x]]
      /\ Blank["queues"] = NoQueues /\ Blank["env"] = NoVariables
      /\ Blank["ha"] = FALSE /\ Blank["dev"] = FALSE
      /\ \A x \in Texts \union {"name", "dag", "pool"} : Blank[x] = None
  BY DEF Blank, Field, Texts
<1> QED BY <1>1 DEF Base, Texts, NoQueues, NoVariables

\* s is what request r makes of d, field by field.
StoredAs(s, r, d) ==
    /\ s = [x \in Field |-> s[x]]
    /\ \A x \in Field \ {"env", "schedules", "pool", "queues"} :
          s[x] = IF r[x] = Omit THEN d[x] ELSE r[x]
    /\ s["env"] = [k \in Key |->
          StoredVariable((IF r["env"] = Omit THEN d["env"] ELSE r["env"])[k], d["env"][k])]
    /\ s["schedules"] = IF s["dev"] THEN IF r["schedules"] = Omit THEN d["schedules"]
                                         ELSE r["schedules"] ELSE None
    /\ s["pool"] = IF type = Hybrid /\ s["executor"] = Kubernetes
                   THEN IF r["pool"] = Omit THEN d["pool"] ELSE r["pool"] ELSE None
    /\ s["queues"] = IF HasQueues(s["executor"], s["remote"])
                     THEN StoredQueues(r["queues"], d["queues"]) ELSE NoQueues

LEMMA StoredFields ==
  ASSUME NEW r, NEW d
  PROVE  StoredAs(Stored(r, d), r, d)
<1> DEFINE s == [x \in Field |-> IF r[x] = Omit THEN d[x] ELSE r[x]]
           env == [k \in Key |-> StoredVariable(s["env"][k], d["env"][k])]
           sch == IF s["dev"] THEN s["schedules"] ELSE None
           pool == IF type = Hybrid /\ s["executor"] = Kubernetes THEN s["pool"] ELSE None
           qs == IF HasQueues(s["executor"], s["remote"])
                 THEN StoredQueues(r["queues"], d["queues"]) ELSE NoQueues
<1>1. Stored(r, d) = [s EXCEPT !["env"] = env, !["schedules"] = sch, !["pool"] = pool,
                               !["queues"] = qs]
  BY DEF Stored
<1>2. s = [x \in Field |-> s[x]] /\ \A x \in Field : s[x] = IF r[x] = Omit THEN d[x] ELSE r[x]
  OBVIOUS
<1>3. {"env", "schedules", "pool", "queues", "dev", "executor", "remote"} \subseteq Field
  BY DEF Field
<1> HIDE DEF s, env, sch, pool, qs
<1>4. /\ Stored(r, d) = [x \in Field |-> Stored(r, d)[x]]
      /\ \A x \in Field \ {"env", "schedules", "pool", "queues"} : Stored(r, d)[x] = s[x]
      /\ Stored(r, d)["env"] = env /\ Stored(r, d)["schedules"] = sch
      /\ Stored(r, d)["pool"] = pool /\ Stored(r, d)["queues"] = qs
  BY <1>1, <1>2, <1>3
<1> QED BY <1>2, <1>3, <1>4 DEF env, sch, pool, qs, StoredAs

LEMMA StoredRemote ==
  ASSUME NEW r, NEW d
  PROVE  /\ Stored(r, d)["remote"] = IF r["remote"] = Omit THEN d["remote"] ELSE r["remote"]
         /\ Stored(r, d)["pod"] = IF r["pod"] = Omit THEN d["pod"] ELSE r["pod"]
<1> DEFINE s == Stored(r, d)
<1>1. StoredAs(s, r, d)
  BY StoredFields
<1>2. {"remote", "pod"} \subseteq Field \ {"env", "schedules", "pool", "queues"}
  BY DEF Field
<1> HIDE DEF s
<1>3. \A x \in {"remote", "pod"} : s[x] = IF r[x] = Omit THEN d[x] ELSE r[x]
  BY <1>1, <1>2 DEF StoredAs
<1> QED BY <1>3 DEF s

LEMMA StoredQueuesFit ==
  ASSUME Sound, Kinds, NEW sent, sent = Omit \/ Wanted(sent),
         NEW old, old \in [Queue -> Workers(Machines) \union {None}]
  PROVE  /\ StoredQueues(sent, old) \in [Queue -> Workers(Machines) \union {None}]
         /\ StoredQueues(sent, old) # NoQueues
<1>1. CASE sent # Omit
  <2>1. StoredQueues(sent, old) = [q \in Queue |-> Storage(sent[q], old[q])]
    BY <1>1 DEF StoredQueues
  <2>2. \A q \in Queue : /\ Storage(sent[q], old[q]) \in Workers(Machines) \union {None}
                         /\ sent[q] # None => Storage(sent[q], old[q]) # None
    <3> SUFFICES ASSUME NEW q \in Queue, sent[q] # None
                 PROVE  /\ Storage(sent[q], old[q]) \in Workers(Machines)
                        /\ Storage(sent[q], old[q]) # None
      BY DEF Storage
    <3>1. sent[q] \in Sending
      BY <1>1 DEF Wanted
    <3>2. old[q] \in Workers(Machines) \union {None}
      OBVIOUS
    <3>3. Storage(sent[q], old[q]) \in Workers(Machines)
      BY <3>1, <3>2 DEF Storage, Sending, Workers, Sound
    <3>4. None \notin Workers(Machines)
      BY DEF Sound, Workers, Machines
    <3> QED BY <3>3, <3>4
  <2>3. \E q \in Queue : sent[q] # None
    BY <1>1 DEF Wanted
  <2> QED BY <2>1, <2>2, <2>3 DEF NoQueues
<1>2. CASE sent = Omit /\ old # NoQueues
  BY <1>2 DEF StoredQueues
<1>3. CASE sent = Omit /\ old = NoQueues
  <2> DEFINE w == [machine |-> IF type = Hybrid THEN 1 ELSE TypeOf[1], disk |-> None]
  <2>1. w \in Workers(Machines) /\ w # None
    <3>1. w \in Workers(Machines)
      BY DEF Sound, Workers, Machines, Types
    <3>2. None \notin Workers(Machines)
      BY DEF Sound, Workers, Machines
    <3> QED BY <3>1, <3>2
  <2>2. StoredQueues(sent, old) = [old EXCEPT ![DefaultQueue] = w]
    BY <1>3 DEF StoredQueues
  <2> HIDE DEF w
  <2>3. DefaultQueue \in Queue
    BY DEF Sound
  <2> QED BY <2>1, <2>2, <2>3 DEF NoQueues
<1> QED BY <1>1, <1>2, <1>3

\* A request that comes with an executor and the sizes of task pods, where
\* they are needed, leaves what the server sees to.
LEMMA StoredHeld ==
  ASSUME Sound, Kinds, NEW r, Request(r), NEW d, Base(d),
         r["executor"] = Omit => d["executor"] \in Executors,
         type # Hybrid /\ Stored(r, d)["remote"] = None => Stored(r, d)["pod"] # None
  PROVE  Held(Stored(r, d))
<1> DEFINE s == Stored(r, d)
<1>1. StoredAs(s, r, d)
  BY StoredFields
<1>2. type # Hybrid /\ s["remote"] = None => s["pod"] # None
  OBVIOUS
<1> HIDE DEF s
<1>3. {"name", "executor", "ha", "dev", "dag"} \subseteq Field
      /\ Texts \subseteq Field /\ "queues" \in Field
  BY DEF Field, Texts
<1>4. /\ s["name"] \in {Old, New, None} /\ s["executor"] \in Executors
      /\ s["ha"] \in BOOLEAN /\ s["dev"] \in BOOLEAN
      /\ s["dag"] \in BOOLEAN \union {None}
  BY <1>1, <1>3 DEF Request, Base, StoredAs
<1>5. s["env"] \in [Key -> Variable \union {None}]
  <2> DEFINE e == IF r["env"] = Omit THEN d["env"] ELSE r["env"]
  <2>1. \A new, old \in Variable \union {None} :
           StoredVariable(new, old) \in Variable \union {None}
    BY DEF StoredVariable, Variable
  <2>2. e \in [Key -> Variable \union {None}] /\ d["env"] \in [Key -> Variable \union {None}]
    BY DEF Request, Base
  <2>3. s["env"] = [k \in Key |-> StoredVariable(e[k], d["env"][k])]
    BY <1>1 DEF StoredAs
  <2> HIDE DEF e
  <2>4. \A k \in Key : e[k] \in Variable \union {None} /\ d["env"][k] \in Variable \union {None}
    BY <2>2
  <2> QED BY <2>1, <2>3, <2>4
<1>6. /\ s["queues"] \in [Queue -> Workers(Machines) \union {None}]
      /\ HasQueues(s["executor"], s["remote"]) <=> s["queues"] # NoQueues
  <2>1. /\ StoredQueues(r["queues"], d["queues"]) \in [Queue -> Workers(Machines) \union {None}]
        /\ StoredQueues(r["queues"], d["queues"]) # NoQueues
    BY StoredQueuesFit DEF Request, Base
  <2>2. NoQueues \in [Queue -> Workers(Machines) \union {None}]
    BY DEF NoQueues
  <2> QED BY <1>1, <2>1, <2>2 DEF StoredAs
<1>7. /\ s["pool"] \in Machines \union {None}
      /\ s["pool"] # None => type = Hybrid /\ s["executor"] = Kubernetes
  BY <1>1 DEF Request, Base, StoredAs
<1>8. \A x \in Texts : s[x] \in Val \union {Platform, None}
  BY <1>1, <1>3 DEF Request, Base, Texts, StoredAs
<1>9. /\ ~s["dev"] => s["schedules"] = None
      /\ s["remote"] # None => type = Dedicated
  BY <1>1, <1>3 DEF Request, Base, Texts, StoredAs
<1> QED BY <1>1, <1>2, <1>4, <1>5, <1>6, <1>7, <1>8, <1>9 DEF Held, Typed, Texts, s, StoredAs

-----------------------------------------------------------------------------
(* What inspect writes and what an edit makes of it.                       *)

LEMMA PrintFits ==
  ASSUME Sound, Kinds, NEW d, Held(d), NEW show \in BOOLEAN
  PROVE  /\ Typed(PrintConfig(d, show), Types)
         /\ Typed(Template(PrintConfig(d, show)), Types)
         /\ Template(PrintConfig(d, show))["name"] = None
<1> DEFINE f == PrintConfig(d, show)
           t == Template(f)
<1>1. /\ f = [x \in Field |-> f[x]]
      /\ \A x \in Field \ {"identity", "pod", "pool", "queues", "env"} : f[x] = d[x]
      /\ f["identity"] \in {d["identity"], None, Platform}
      /\ f["pod"] \in {d["pod"], None}
      /\ f["pool"] = IF type = Standard \/ d["pool"] = None THEN None ELSE TypeOf[d["pool"]]
      /\ f["queues"] = PrintQueues(d["queues"])
      /\ f["env"] = PrintVariables(d["env"])
  BY DEF PrintConfig, Held, Typed, Field
<1>2. f["queues"] \in [Queue -> Workers(Types) \union {None}]
  <2> SUFFICES ASSUME NEW q \in Queue
               PROVE  PrintQueues(d["queues"])[q] \in Workers(Types) \union {None}
    BY <1>1 DEF PrintQueues
  <2>1. d["queues"][q] \in Workers(Machines) \union {None}
    BY DEF Held, Typed
  <2> QED BY <2>1 DEF PrintQueues, Workers, Machines, Types
<1>3. f["env"] \in [Key -> Variable \union {None}]
  <2>1. \A k \in Key : d["env"][k] \in Variable \union {None}
    BY DEF Held, Typed
  <2> QED BY <1>1, <2>1 DEF PrintVariables, Variable
<1>4. f["pool"] \in Types \union {None}
  BY <1>1 DEF Held, Typed, Machines, Types
<1> HIDE DEF f
<1>5. Typed(f, Types)
  <2>1. {"name", "executor", "ha", "dev", "dag", "size", "remote", "mail", "schedules"}
          \subseteq Field \ {"identity", "pod", "pool", "queues", "env"}
    BY DEF Field
  <2> QED BY <1>1, <1>2, <1>3, <1>4, <2>1 DEF Held, Typed
<1>6. /\ t = [x \in Field |-> t[x]]
      /\ \A x \in Field \ {"name", "env"} : t[x] = f[x]
      /\ t["name"] = None
      /\ t["env"] = [k \in Key |->
            IF f["env"][k] # None /\ f["env"][k].secret THEN None ELSE f["env"][k]]
  BY <1>1 DEF Template, Field
<1> HIDE DEF t
<1>7. t["env"] \in [Key -> Variable \union {None}]
  BY <1>6, <1>3
<1>8. Typed(t, Types)
  <2>1. {"executor", "ha", "dev", "dag", "queues", "pool", "size", "pod", "identity",
         "remote", "mail", "schedules"} \subseteq Field \ {"name", "env"}
    BY DEF Field
  <2> QED BY <1>5, <1>6, <1>7, <2>1 DEF Typed
<1> QED BY <1>5, <1>6, <1>8 DEF f, t

LEMMA EditFits ==
  ASSUME Sound, Kinds, Typed(file, Types), NEW x \in Editable, NEW v \in Edits(x)
  PROVE  Typed([file EXCEPT ![x] = v], Types)
<1> DEFINE g == [file EXCEPT ![x] = v]
<1>1. x \in Field
  BY DEF Editable, Field
<1>2. /\ g = [y \in Field |-> g[y]]
      /\ g[x] = v /\ \A y \in Field : y # x => g[y] = file[y]
  BY <1>1 DEF Typed
<1> HIDE DEF g
<1>3. /\ x = "name" => v = New
      /\ x = "executor" => v \in Executors
      /\ x \in {"ha", "dev"} => v \in BOOLEAN
      /\ x = "dag" => v \in BOOLEAN \union {None}
      /\ x \in Texts => v \in Val \union {None}
      /\ x = "pool" => v \in Types
  BY DEF Edits, Plain, Types, Texts
<1>4. x = "env" => v \in [Key -> Variable \union {None}]
  BY DEF Edits, Variable, NoVariables
<1>5. x = "queues" => v \in [Queue -> Workers(Types) \union {None}]
  <2> SUFFICES ASSUME x = "queues"
               PROVE  v \in [Queue -> Workers(Types) \union {None}]
    OBVIOUS
  <2>1. file["queues"] \in [Queue -> Workers(Types) \union {None}]
    BY DEF Typed
  <2>2. v \in QueueEdits(file["queues"])
    BY DEF Edits
  <2> QED BY <2>1, <2>2 DEF QueueEdits, NoQueues, Workers, Types
<1>6. Texts \subseteq Field
  BY DEF Texts, Field
<1>7. {"name", "executor", "ha", "dev", "dag", "env", "queues", "pool"} \subseteq Field
  BY DEF Field
<1>8. \A y \in Texts : g[y] \in Val \union {Platform, None}
  BY <1>2, <1>3, <1>6 DEF Typed, Texts
<1>9. g["remote"] # None => type = Dedicated
  BY <1>2, <1>6 DEF Typed, Texts, Editable
<1> QED BY <1>2, <1>3, <1>4, <1>5, <1>7, <1>8, <1>9 DEF Typed, Texts, g

-----------------------------------------------------------------------------
(* The requests.                                                           *)

LEMMA NodePoolFits ==
  ASSUME Sound, NEW t \in Types \union {None}
  PROVE  NodePool(t) \in Pool
<1>1. CASE t = None
  BY <1>1 DEF NodePool, Sound
<1>2. CASE t # None
  <2> DEFINE S == {p \in Pool : TypeOf[p] = t}
  <2>1. S \in (SUBSET Pool) \ {{}}
    BY <1>2 DEF Types
  <2>2. \E m \in S : \A n \in S : m <= n
    BY <2>1 DEF Sound
  <2>3. Min(S) \in S
    BY <2>2 DEF Min
  <2> QED BY <1>2, <2>3 DEF NodePool
<1> QED BY <1>1, <1>2

LEMMA NodePoolOf ==
  ASSUME Sound, NEW t \in Types
  PROVE  TypeOf[NodePool(t)] = t
<1>0. t # None
  BY DEF Sound
<1> DEFINE S == {p \in Pool : TypeOf[p] = t}
<1>1. S \in (SUBSET Pool) \ {{}}
  BY DEF Types
<1>2. \E m \in S : \A n \in S : m <= n
  BY <1>1 DEF Sound
<1>3. Min(S) \in S
  BY <1>2 DEF Min
<1> QED BY <1>0, <1>3 DEF NodePool

LEMMA NoneNotSent ==
  ASSUME Sound
  PROVE  None \notin Sending /\ None \notin Workers(Machines) /\ None \notin Workers(Types)
  BY DEF Sound, Sending, Workers, Machines

LEMMA QueuesFromFileFit ==
  ASSUME Sound, Kinds, NEW f, Typed(f, Types)
  PROVE  QueuesFromFile(f) = Omit \/ Wanted(QueuesFromFile(f))
<1> SUFFICES ASSUME Listed(f) # {} PROVE Wanted(QueuesFromFile(f))
  BY DEF QueuesFromFile
<1> DEFINE pool == NodePool(f["queues"][Max(Listed(f))].machine)
           sent(q) == IF type = Hybrid THEN [machine |-> pool, disk |-> Omit]
                      ELSE [f["queues"][q] EXCEPT !.disk = IF @ = None THEN Omit ELSE @]
<1>1. \A q \in Listed(f) : q \in Queue /\ f["queues"][q] \in Workers(Types)
  BY DEF Listed, Typed
<1>2. Max(Listed(f)) \in Listed(f)
  <2>1. \E m \in Listed(f) : \A n \in Listed(f) : m >= n
    BY DEF Sound, Listed
  <2> QED BY <2>1 DEF Max
<1>3. pool \in Pool
  <2>1. f["queues"][Max(Listed(f))].machine \in Types
    BY <1>1, <1>2 DEF Workers
  <2> QED BY <2>1, NodePoolFits
<1>4. QueuesFromFile(f) = [q \in Queue |-> IF q \notin Listed(f) THEN None ELSE sent(q)]
  BY DEF QueuesFromFile
<1> HIDE DEF pool
<1>5. \A q \in Listed(f) : sent(q) \in Sending
  BY <1>1, <1>3 DEF Sending, Workers, Machines, Sound
<1> HIDE DEF sent
<1> QED BY <1>1, <1>4, <1>5, NoneNotSent DEF Wanted

LEMMA QueuesAsReadFit ==
  ASSUME Sound, NEW qs \in [Queue -> Workers(Machines) \union {None}]
  PROVE  QueuesAsRead(qs) = Omit \/ Wanted(QueuesAsRead(qs))
<1> SUFFICES ASSUME qs # NoQueues PROVE Wanted(QueuesAsRead(qs))
  BY DEF QueuesAsRead
<1>1. PICK q \in Queue : qs[q] # None
  BY DEF NoQueues
<1>2. QueuesAsRead(qs) =
        [p \in Queue |-> IF qs[p] = None THEN None ELSE [qs[p] EXCEPT !.disk = Omit]]
  BY DEF QueuesAsRead
<1>3. \A p \in Queue : qs[p] # None => [qs[p] EXCEPT !.disk = Omit] \in Sending
  BY DEF Sending, Workers
<1> QED BY <1>1, <1>2, <1>3, NoneNotSent DEF Wanted

LEMMA SomeValue == ASSUME Sound PROVE (CHOOSE v \in Val : TRUE) \in Val
  BY DEF Sound

\* The update by file, field by field.
FileFields(r, f, d) ==
    /\ r = [x \in Field |-> r[x]]
    /\ r["name"] = f["name"] /\ r["executor"] = f["executor"] /\ r["size"] = f["size"]
    /\ r["dag"] = IF f["dag"] = None THEN d["dag"] ELSE f["dag"]
    /\ r["env"] = f["env"] /\ r["mail"] = OmitNone(f["mail"])
    /\ r["queues"] = QueuesFromFile(f) /\ r["dev"] = Omit
    /\ r["ha"] = IF type = Hybrid THEN Omit ELSE f["ha"]
    /\ r["pod"] = IF type = Hybrid THEN Omit ELSE IF f["pod"] = None THEN d["pod"] ELSE f["pod"]
    /\ r["identity"] = IF type = Hybrid THEN f["identity"] ELSE OmitNone(f["identity"])
    /\ r["schedules"] = IF type = Hybrid THEN Omit ELSE IF d["dev"] THEN f["schedules"] ELSE Omit
    /\ r["remote"] = IF type # Dedicated \/ d["remote"] = None THEN Omit ELSE f["remote"]
    /\ r["pool"] = IF type = Hybrid /\ f["executor"] = Kubernetes
                   THEN NodePool(f["pool"]) ELSE Omit

LEMMA FileRequestFields ==
  ASSUME Sound, Kinds, NEW f, NEW d
  PROVE  FileFields(FileRequest(f, d), f, d)
<1> USE DEF FileFields
<1> DEFINE u == UpdateFromFile(f, d)
           s == UpdateStandardFromFile(f, d)
<1>1. /\ u = [x \in Field |-> u[x]]
      /\ u["name"] = f["name"] /\ u["executor"] = f["executor"] /\ u["size"] = f["size"]
      /\ u["dag"] = IF f["dag"] = None THEN d["dag"] ELSE f["dag"]
      /\ u["env"] = f["env"] /\ u["mail"] = OmitNone(f["mail"])
      /\ u["queues"] = QueuesFromFile(f)
      /\ \A x \in {"dev", "ha", "pod", "identity", "schedules", "remote", "pool"} : u[x] = Omit
  BY DEF UpdateFromFile, Nothing, Field
<1>2. Field = {"name", "executor", "size", "dag", "ha", "dev", "pod", "identity", "remote",
               "env", "mail", "schedules", "queues", "pool"}
  BY DEF Field
<1>3. CASE type = Hybrid
  <2>1. FileRequest(f, d) =
          [u EXCEPT !["identity"] = f["identity"],
                    !["pool"] = IF f["executor"] = Kubernetes THEN NodePool(f["pool"]) ELSE Omit]
    BY <1>3 DEF FileRequest, UpdateHybridFromFile
  <2> HIDE DEF u
  <2> QED BY <1>1, <1>2, <1>3, <2>1 DEF Sound
<1>4. CASE type # Hybrid
  <2>1. s = [u EXCEPT !["ha"] = f["ha"],
                      !["pod"] = IF f["pod"] = None THEN d["pod"] ELSE f["pod"],
                      !["identity"] = OmitNone(f["identity"]),
                      !["schedules"] = IF d["dev"] THEN f["schedules"] ELSE Omit]
    BY DEF UpdateStandardFromFile
  <2> HIDE DEF u
  <2>2. /\ s = [x \in Field |-> s[x]]
        /\ \A x \in {"name", "executor", "size", "dag", "env", "mail", "queues", "dev",
                     "remote", "pool"} : s[x] = u[x]
        /\ s["ha"] = f["ha"] /\ s["pod"] = IF f["pod"] = None THEN d["pod"] ELSE f["pod"]
        /\ s["identity"] = OmitNone(f["identity"])
        /\ s["schedules"] = IF d["dev"] THEN f["schedules"] ELSE Omit
    BY <1>1, <1>2, <2>1
  <2>3. FileRequest(f, d) =
          IF type = Standard THEN s
          ELSE [s EXCEPT !["remote"] = IF d["remote"] = None THEN Omit ELSE f["remote"]]
    BY <1>4 DEF FileRequest, UpdateDedicatedFromFile
  <2> HIDE DEF s
  <2>4. CASE type = Standard
    BY <1>1, <1>4, <2>2, <2>3, <2>4 DEF Sound
  <2>5. CASE type = Dedicated
    <3>1. FileRequest(f, d) =
            [s EXCEPT !["remote"] = IF d["remote"] = None THEN Omit ELSE f["remote"]]
      BY <2>3, <2>5 DEF Sound
    <3> QED BY <1>1, <1>2, <1>4, <2>2, <2>5, <3>1
  <2> QED BY <1>4, <2>4, <2>5 DEF Kinds
<1> QED BY <1>3, <1>4

LEMMA FieldNames ==
  Field = {"name", "executor", "size", "dag", "ha", "dev", "pod", "identity", "remote",
           "env", "mail", "schedules", "queues", "pool"}
  BY DEF Field

LEMMA FileUpdateHeld ==
  ASSUME Sound, Kinds, NEW f, Typed(f, Types), NEW d, Held(d), f["name"] # None,
         type = Dedicated /\ d["remote"] # None => f["remote"] # None
  PROVE  Held(Stored(FileRequest(f, d), d))
<1> DEFINE r == FileRequest(f, d)
<1>1. FileFields(r, f, d)
  BY FileRequestFields
<1> HIDE DEF r
<1>2. QueuesFromFile(f) = Omit \/ Wanted(QueuesFromFile(f))
  BY QueuesFromFileFit
<1>3. type = Hybrid => NodePool(f["pool"]) \in Machines
  BY NodePoolFits DEF Machines, Typed
<1>4. /\ f["pod"] \in Val \union {Platform, None} /\ d["pod"] \in Val \union {Platform, None}
      /\ f["remote"] \in Val \union {Platform, None} /\ d["remote"] \in Val \union {Platform, None}
      /\ f["dag"] \in BOOLEAN \union {None} /\ d["dag"] \in BOOLEAN \union {None}
      /\ f["env"] \in [Key -> Variable \union {None}]
      /\ f["name"] \in {Old, New, None} /\ f["executor"] \in Executors
      /\ f["ha"] \in BOOLEAN
  BY DEF Held, Typed
<1>5. \A x \in Texts : r[x] \in Val \union {Platform, None, Omit}
  <2>1. \A x \in Texts :
           f[x] \in Val \union {Platform, None} /\ d[x] \in Val \union {Platform, None}
    BY DEF Held, Typed, Texts
  <2> QED BY <1>1, <2>1 DEF Texts, OmitNone, FileFields
<1>6. Request(r)
  BY <1>1, <1>2, <1>3, <1>4, <1>5 DEF Request, FileFields
<1>7. type # Hybrid /\ Stored(r, d)["remote"] = None => Stored(r, d)["pod"] # None
  <2> SUFFICES ASSUME type # Hybrid, Stored(r, d)["remote"] = None
               PROVE  Stored(r, d)["pod"] # None
    OBVIOUS
  <2>1. /\ Stored(r, d)["remote"] = IF r["remote"] = Omit THEN d["remote"] ELSE r["remote"]
        /\ Stored(r, d)["pod"] = IF r["pod"] = Omit THEN d["pod"] ELSE r["pod"]
    BY StoredRemote
  <2>2. d["remote"] = None
    BY <1>1, <2>1 DEF FileFields
  <2>3. d["pod"] # None
    BY <2>2 DEF Held
  <2> QED BY <1>1, <2>1, <2>3 DEF FileFields
<1>8. Base(d) /\ d["executor"] \in Executors
  BY HeldBase
<1>9. Held(Stored(r, d))
  BY <1>6, <1>7, <1>8, StoredHeld
<1> QED BY <1>9 DEF r

\* The create, field by field.
CreateFields(r, f) ==
    /\ r = [x \in Field |-> r[x]]
    /\ r["name"] = f["name"] /\ r["executor"] = f["executor"] /\ r["size"] = f["size"]
    /\ r["dag"] \in BOOLEAN /\ (f["dag"] \in BOOLEAN => r["dag"] = f["dag"])
    /\ r["env"] = Omit /\ r["mail"] = Omit
    /\ r["queues"] = QueuesFromFile(f)
    /\ r["ha"] = IF type = Hybrid THEN Omit ELSE f["ha"]
    /\ r["dev"] = IF type = Hybrid THEN Omit ELSE f["dev"]
    /\ r["pod"] = IF type = Hybrid THEN Omit ELSE PodForCreate(f)
    /\ r["identity"] = IF type = Hybrid THEN f["identity"] ELSE OmitNone(f["identity"])
    /\ r["schedules"] = IF type # Hybrid /\ f["dev"] THEN f["schedules"] ELSE Omit
    /\ r["remote"] = IF type = Dedicated THEN OmitNone(f["remote"]) ELSE Omit
    /\ r["pool"] = IF type = Hybrid /\ f["executor"] = Kubernetes
                   THEN NodePool(f["pool"]) ELSE Omit

LEMMA CreateRequestFields ==
  ASSUME Sound, Kinds, NEW f
  PROVE  CreateFields(CreateRequest(f), f)
<1> USE DEF CreateFields
<1> DEFINE r == CreateRequest(f)
           on == f["dag"] = TRUE
           notOff == f["dag"] # FALSE
<1>0. Nothing = [x \in Field |-> Nothing[x]] /\ \A x \in Field : Nothing[x] = Omit
  BY DEF Nothing
<1>00. /\ on \in BOOLEAN /\ (f["dag"] \in BOOLEAN => on = f["dag"])
       /\ notOff \in BOOLEAN /\ (f["dag"] \in BOOLEAN => notOff = f["dag"])
  OBVIOUS
<1>1. CASE type = Hybrid
  <2>1. r = [Nothing EXCEPT
              !["name"] = f["name"], !["executor"] = f["executor"], !["size"] = f["size"],
              !["dag"] = on, !["identity"] = f["identity"], !["queues"] = QueuesFromFile(f),
              !["pool"] = IF f["executor"] = Kubernetes THEN NodePool(f["pool"]) ELSE Omit]
    BY <1>1 DEF CreateRequest, CreateHybrid
  <2> HIDE DEF r, on, notOff
  <2>2. CreateFields(r, f)
    BY <1>0, <1>00, <1>1, <2>1, FieldNames DEF Sound
  <2> QED BY <2>2 DEF r
<1>2. CASE type # Hybrid
  <2> DEFINE s == CreateStandard(f)
  <2>1. s = [Nothing EXCEPT
              !["name"] = f["name"], !["executor"] = f["executor"], !["size"] = f["size"],
              !["dag"] = notOff,
              !["ha"] = f["ha"], !["dev"] = f["dev"], !["pod"] = PodForCreate(f),
              !["identity"] = OmitNone(f["identity"]), !["queues"] = QueuesFromFile(f),
              !["schedules"] = IF f["dev"] THEN f["schedules"] ELSE Omit]
    BY DEF CreateStandard
  <2>2. r = IF type = Standard THEN s ELSE [s EXCEPT !["remote"] = OmitNone(f["remote"])]
    BY <1>2 DEF CreateRequest, CreateDedicated
  <2> HIDE DEF r, s, on, notOff
  <2>3. /\ s = [x \in Field |-> s[x]]
        /\ s["name"] = f["name"] /\ s["executor"] = f["executor"] /\ s["size"] = f["size"]
        /\ s["dag"] = notOff /\ s["ha"] = f["ha"] /\ s["dev"] = f["dev"]
        /\ s["pod"] = PodForCreate(f) /\ s["identity"] = OmitNone(f["identity"])
        /\ s["queues"] = QueuesFromFile(f)
        /\ s["schedules"] = IF f["dev"] THEN f["schedules"] ELSE Omit
        /\ \A x \in {"remote", "env", "mail", "pool"} : s[x] = Omit
    BY <1>0, <2>1, FieldNames
  <2>4. /\ r = [x \in Field |-> r[x]]
        /\ \A x \in Field \ {"remote"} : r[x] = s[x]
        /\ r["remote"] = IF type = Dedicated THEN OmitNone(f["remote"]) ELSE Omit
    BY <1>2, <2>2, <2>3, FieldNames DEF Kinds, Sound
  <2>5. CreateFields(r, f)
    BY <1>00, <1>2, <2>3, <2>4, FieldNames
  <2> QED BY <2>5 DEF r
<1> QED BY <1>1, <1>2

LEMMA CreateHeld ==
  ASSUME Sound, Kinds, NEW f, Typed(f, Types), f["name"] # None
  PROVE  /\ Held(Stored(CreateRequest(f), Blank))
         /\ type = Dedicated /\ Stored(CreateRequest(f), Blank)["remote"] # None
              => f["remote"] # None
<1> DEFINE r == CreateRequest(f)
<1>1. CreateFields(r, f)
  BY CreateRequestFields
<1> HIDE DEF r
<1>2. QueuesFromFile(f) = Omit \/ Wanted(QueuesFromFile(f))
  BY QueuesFromFileFit
<1>3. type = Hybrid => NodePool(f["pool"]) \in Machines
  BY NodePoolFits DEF Machines, Typed
<1>4. /\ PodForCreate(f) \in Val \union {Platform, Omit}
      /\ f["remote"] = None => PodForCreate(f) # Omit
  BY SomeValue DEF PodForCreate, Typed, Sound
<1>5. \A x \in Texts : r[x] \in Val \union {Platform, None, Omit}
  BY <1>1, <1>4 DEF CreateFields, Texts, Typed, OmitNone
<1>6. Request(r)
  BY <1>1, <1>2, <1>3, <1>5 DEF CreateFields, Request, Typed
<1>7. r["executor"] # Omit
  BY <1>1 DEF CreateFields, Typed, Executors, Sound
<1>8. Blank["remote"] = None /\ Blank["pod"] = None
  BY FieldNames DEF Blank
<1>9. /\ Stored(r, Blank)["remote"] = IF r["remote"] = Omit THEN None ELSE r["remote"]
      /\ Stored(r, Blank)["pod"] = IF r["pod"] = Omit THEN None ELSE r["pod"]
  BY <1>8, StoredRemote
<1>10. Stored(r, Blank)["remote"] = IF type = Dedicated THEN f["remote"] ELSE None
  <2>1. Omit \notin Val \union {Platform, None} /\ f["remote"] \in Val \union {Platform, None}
    BY DEF Sound, Typed
  <2> QED BY <1>1, <1>9, <2>1 DEF CreateFields, OmitNone
<1>11. type # Hybrid /\ Stored(r, Blank)["remote"] = None => Stored(r, Blank)["pod"] # None
  <2> SUFFICES ASSUME type # Hybrid, Stored(r, Blank)["remote"] = None
               PROVE  Stored(r, Blank)["pod"] # None
    OBVIOUS
  <2>1. None \notin Val \union {Platform, Omit}
    BY DEF Sound
  <2>2. f["remote"] = None
    BY <1>10 DEF Typed
  <2> QED BY <1>1, <1>4, <1>9, <2>1, <2>2 DEF CreateFields
<1>12. Held(Stored(r, Blank))
  BY <1>6, <1>7, <1>11, StoredHeld, BlankBase
<1> QED BY <1>10, <1>12 DEF r

\* The update with an option, field by field.
OptionFields(r, d, x, v) ==
    /\ r = [y \in Field |-> r[y]]
    /\ \A y \in {"name", "executor", "size", "dag"} : r[y] = IF x = y THEN v ELSE d[y]
    /\ r["identity"] = IF x = "identity" THEN v ELSE Omit
    /\ r["env"] = PrintVariables(d["env"])
    /\ r["mail"] = Omit /\ r["schedules"] = Omit
    /\ \A y \in {"ha", "dev"} :
          r[y] = IF type = Hybrid THEN Omit ELSE IF x = y THEN v ELSE d[y]
    /\ r["pod"] = IF type = Hybrid THEN Omit ELSE PodForUpdate(d, x, v)
    /\ r["remote"] = IF type = Hybrid \/ d["remote"] = None THEN Omit
                     ELSE IF x = "remote" THEN v ELSE d["remote"]
    /\ r["pool"] = IF type = Hybrid /\ r["executor"] = Kubernetes
                   THEN IF d["executor"] = Celery THEN 1 ELSE d["pool"] ELSE Omit
    /\ r["queues"] =
          IF type # Hybrid THEN QueuesForExecutor(d, r["executor"])
          ELSE IF r["executor"] = Kubernetes THEN Omit
          ELSE IF d["executor"] = Kubernetes /\ d["queues"] = NoQueues
          THEN [NoQueues EXCEPT ![DefaultQueue] = [machine |-> 1, disk |-> Omit]]
          ELSE QueuesAsRead(d["queues"])

LEMMA OptionRequestFields ==
  ASSUME NEW d, NEW x, NEW v
  PROVE  OptionFields(OptionRequest(d, x, v), d, x, v)
<1> USE DEF OptionFields
<1> DEFINE u == UpdateWith(d, x, v)
           h == UpdateHosted(d, x, v)
           r == OptionRequest(d, x, v)
<1>1. /\ u = [y \in Field |-> u[y]]
      /\ \A y \in {"name", "executor", "size", "dag"} : u[y] = IF x = y THEN v ELSE d[y]
      /\ u["identity"] = IF x = "identity" THEN v ELSE Omit
      /\ u["env"] = PrintVariables(d["env"])
      /\ \A y \in {"mail", "schedules", "ha", "dev", "pod", "remote", "pool", "queues"} :
            u[y] = Omit
  BY DEF UpdateWith, Field
<1>2. CASE type = Hybrid
  <2> DEFINE qs == IF d["executor"] = Kubernetes /\ d["queues"] = NoQueues
                   THEN [NoQueues EXCEPT ![DefaultQueue] = [machine |-> 1, disk |-> Omit]]
                   ELSE QueuesAsRead(d["queues"])
             pool == IF d["executor"] = Celery THEN 1 ELSE d["pool"]
  <2>1. r = IF u["executor"] = Kubernetes THEN [u EXCEPT !["pool"] = pool]
            ELSE [u EXCEPT !["queues"] = qs]
    BY <1>2 DEF OptionRequest, UpdateHybrid
  <2> HIDE DEF u, qs, pool, r
  <2>2. CASE u["executor"] = Kubernetes
    <3>1. /\ r = [y \in Field |-> r[y]] /\ r["pool"] = pool
          /\ \A y \in Field \ {"pool"} : r[y] = u[y]
      BY <1>1, <2>1, <2>2, FieldNames
    <3> QED BY <1>1, <1>2, <2>2, <3>1, FieldNames DEF pool, r
  <2>3. CASE u["executor"] # Kubernetes
    <3>1. /\ r = [y \in Field |-> r[y]] /\ r["queues"] = qs
          /\ \A y \in Field \ {"queues"} : r[y] = u[y]
      BY <1>1, <2>1, <2>3, FieldNames
    <3> QED BY <1>1, <1>2, <2>3, <3>1, FieldNames DEF qs, r
  <2> QED BY <2>2, <2>3
<1>3. CASE type # Hybrid
  <2> DEFINE remote == IF d["remote"] = None THEN Omit ELSE IF x = "remote" THEN v ELSE d["remote"]
             pod == PodForUpdate(d, x, v)
             ha == IF x = "ha" THEN v ELSE d["ha"]
             dev == IF x = "dev" THEN v ELSE d["dev"]
  <2>1. h = [u EXCEPT !["ha"] = ha, !["dev"] = dev, !["pod"] = pod, !["remote"] = remote]
    BY DEF UpdateHosted
  <2>2. r = [h EXCEPT !["queues"] = QueuesForExecutor(d, h["executor"])]
    BY <1>3 DEF OptionRequest, UpdateDedicated
  <2> HIDE DEF u, h, r, remote, pod, ha, dev
  <2>3. /\ h = [y \in Field |-> h[y]]
        /\ h["ha"] = ha /\ h["dev"] = dev /\ h["pod"] = pod /\ h["remote"] = remote
        /\ \A y \in Field \ {"ha", "dev", "pod", "remote"} : h[y] = u[y]
    BY <1>1, <2>1, FieldNames
  <2>4. /\ r = [y \in Field |-> r[y]] /\ r["queues"] = QueuesForExecutor(d, h["executor"])
        /\ \A y \in Field \ {"queues"} : r[y] = h[y]
    BY <2>2, <2>3, FieldNames
  <2> QED BY <1>1, <1>3, <2>3, <2>4, FieldNames DEF ha, dev, pod, remote, r
<1> QED BY <1>2, <1>3

LEMMA OptionHeld ==
  ASSUME Sound, Kinds, Held(dep), NEW x \in Option, NEW v \in Plain(x)
  PROVE  Held(Stored(OptionRequest(dep, x, v), dep))
<1> DEFINE r == OptionRequest(dep, x, v)
<1>1. OptionFields(r, dep, x, v)
  BY OptionRequestFields
<1> HIDE DEF r
<1>2. /\ x \in {"executor", "size", "dag", "identity", "ha", "dev", "pod", "remote"}
      /\ x = "remote" => type = Dedicated
      /\ x = "executor" => v \in Executors
      /\ x \in {"dag", "ha", "dev"} => v \in BOOLEAN
      /\ x \in {"size", "identity", "pod", "remote"} => v \in Val
  BY DEF Option, Plain, Held, Typed
<1>3. /\ dep["name"] \in {Old, New, None} /\ dep["executor"] \in Executors
      /\ dep["ha"] \in BOOLEAN /\ dep["dev"] \in BOOLEAN
      /\ dep["dag"] \in BOOLEAN \union {None}
      /\ dep["env"] \in [Key -> Variable \union {None}]
      /\ dep["queues"] \in [Queue -> Workers(Machines) \union {None}]
      /\ dep["pool"] \in Machines \union {None}
      /\ dep["size"] \in Val \union {Platform, None}
      /\ dep["pod"] \in Val \union {Platform, None}
      /\ dep["remote"] \in Val \union {Platform, None}
      /\ dep["remote"] # None => type = Dedicated
      /\ type # Hybrid /\ dep["remote"] = None => dep["pod"] # None
  BY DEF Held, Typed
<1>4. r["queues"] = Omit \/ Wanted(r["queues"])
  <2>1. QueuesAsRead(dep["queues"]) = Omit \/ Wanted(QueuesAsRead(dep["queues"]))
    BY <1>3, QueuesAsReadFit
  <2>2. type = Hybrid => Wanted([NoQueues EXCEPT ![DefaultQueue] = [machine |-> 1, disk |-> Omit]])
    <3> SUFFICES ASSUME type = Hybrid
                 PROVE  Wanted([NoQueues EXCEPT ![DefaultQueue] = [machine |-> 1, disk |-> Omit]])
      OBVIOUS
    <3> DEFINE w == [machine |-> 1, disk |-> Omit]
    <3>1. w \in Sending /\ w # None
      <4>1. w \in Sending
        BY DEF Sound, Sending, Machines
      <4> QED BY <4>1, NoneNotSent
    <3>2. DefaultQueue \in Queue
      BY DEF Sound
    <3> HIDE DEF w
    <3>3. Wanted([NoQueues EXCEPT ![DefaultQueue] = w])
      BY <3>1, <3>2 DEF NoQueues, Wanted
    <3> QED BY <3>3 DEF w
  <2> QED BY <1>1, <2>1, <2>2 DEF QueuesForExecutor, OptionFields
<1>5. PrintVariables(dep["env"]) \in [Key -> Variable \union {None}]
  <2>1. \A k \in Key : dep["env"][k] \in Variable \union {None}
    BY <1>3
  <2> QED BY <2>1 DEF PrintVariables, Variable
<1>6. /\ PodForUpdate(dep, x, v) \in Val \union {Platform, Omit}
      /\ dep["remote"] = None => PodForUpdate(dep, x, v) # Omit
  BY <1>2, <1>3, SomeValue DEF PodForUpdate, Sound
<1>7. type = Hybrid => 1 \in Machines
  BY DEF Sound, Machines
<1>8. Request(r)
  <2>1. \A y \in Texts : r[y] \in Val \union {Platform, None, Omit}
    BY <1>1, <1>2, <1>3, <1>6 DEF Texts, OptionFields
  <2> QED BY <1>1, <1>2, <1>3, <1>4, <1>5, <1>7, <2>1 DEF Request, OptionFields
<1>9. type # Hybrid /\ Stored(r, dep)["remote"] = None => Stored(r, dep)["pod"] # None
  <2> SUFFICES ASSUME type # Hybrid, Stored(r, dep)["remote"] = None
               PROVE  Stored(r, dep)["pod"] # None
    OBVIOUS
  <2>1. /\ Stored(r, dep)["remote"] = IF r["remote"] = Omit THEN dep["remote"] ELSE r["remote"]
        /\ Stored(r, dep)["pod"] = IF r["pod"] = Omit THEN dep["pod"] ELSE r["pod"]
    BY StoredRemote
  <2>2. None \notin Val \union {Platform, Omit}
    BY DEF Sound
  <2>3. dep["remote"] = None
    BY <1>1, <1>2, <2>1, <2>2 DEF OptionFields
  <2> QED BY <1>1, <1>6, <2>1, <2>2, <2>3 DEF OptionFields
<1>10. Base(dep) /\ dep["executor"] \in Executors
  BY HeldBase
<1>11. Held(Stored(r, dep))
  BY <1>8, <1>9, <1>10, StoredHeld
<1> QED BY <1>11 DEF r

-----------------------------------------------------------------------------
(* The invariant.                                                          *)

\* A file nobody has edited is what inspect wrote, or a template.
AsInspected ==
    file # None /\ edited = {} => file = PrintConfig(asOf, shown) \/ file["name"] = None

IInv == TypeOK /\ AsInspected

\* What a Deployment is does not depend on what a step changes.
LEMMA HeldStays ==
  type' = type =>
      /\ Held(dep') => Held(dep)'
      /\ Held(copy') => Held(copy)'
      /\ Held(asOf') => Held(asOf)'
      /\ Typed(file', Types) => Typed(file, Types)'
  BY DEF Held, Typed, Executors, Machines, Workers, HasQueues, Types, NoQueues

LEMMA InitInv == ASSUME Sound, Init PROVE IInv
<1>1. MaxOptions \in Nat /\ MaxEdits \in Nat
  BY DEF Sound
<1>2. /\ type \in {Standard, Dedicated, Hybrid} /\ Held(dep) /\ copy = None
      /\ keeps \in BOOLEAN /\ file = None /\ edited = {} /\ shown = FALSE
      /\ last = [kind |-> "none", field |-> None] /\ options = 0 /\ edits = 0
  BY DEF Init, Quiet
<1>3. options \in 0..MaxOptions /\ edits \in 0..MaxEdits
  BY <1>1, <1>2
<1> QED BY <1>2, <1>3 DEF IInv, TypeOK, AsInspected

LEMMA InspectInv == ASSUME Sound, IInv, Inspect PROVE IInv'
<1>0. Kinds
  BY DEF IInv, TypeOK, Kinds
<1>1. PICK show, template \in BOOLEAN :
         /\ shown' = show
         /\ file' = IF template THEN Template(PrintConfig(dep, show)) ELSE PrintConfig(dep, show)
  BY DEF Inspect
<1>2. /\ asOf' = dep /\ edited' = {} /\ last' = Quiet
      /\ type' = type /\ dep' = dep /\ copy' = copy /\ keeps' = keeps
      /\ options' = options /\ edits' = edits
  BY DEF Inspect
<1>3. /\ Typed(PrintConfig(dep, show), Types)
      /\ Typed(Template(PrintConfig(dep, show)), Types)
      /\ Template(PrintConfig(dep, show))["name"] = None
  BY <1>0, PrintFits DEF IInv, TypeOK
<1>4. Typed(file, Types)' /\ Held(asOf)' /\ Held(dep)' /\ (copy' = None \/ Held(copy)')
  BY <1>1, <1>2, <1>3, HeldStays DEF IInv, TypeOK
<1>5. TypeOK'
  BY <1>1, <1>2, <1>4 DEF IInv, TypeOK, Quiet
<1>6. AsInspected'
  <2>1. PrintConfig(asOf, shown)' = PrintConfig(dep, show)
    BY <1>1, <1>2 DEF PrintConfig, PrintQueues, PrintVariables
  <2> QED BY <1>1, <1>3, <2>1 DEF AsInspected
<1> QED BY <1>5, <1>6 DEF IInv

LEMMA EditInv == ASSUME Sound, IInv, Edit PROVE IInv'
<1>0. Kinds
  BY DEF IInv, TypeOK, Kinds
<1>1. PICK x \in Editable : \E v \in Edits(x) \ {file[x]} :
         file' = [file EXCEPT ![x] = v] /\ edited' = edited \union {x}
  BY DEF Edit
<1>2. PICK v \in Edits(x) : file' = [file EXCEPT ![x] = v]
  BY <1>1
<1>3. /\ edits' = edits + 1 /\ edits < MaxEdits /\ last' = Quiet /\ file # None
      /\ type' = type /\ dep' = dep /\ copy' = copy /\ keeps' = keeps /\ asOf' = asOf
      /\ shown' = shown /\ options' = options
  BY DEF Edit
<1>4. Typed(file', Types)
  <2>1. Typed(file, Types)
    BY <1>3 DEF IInv, TypeOK
  <2>2. Typed([file EXCEPT ![x] = v], Types)
    BY <1>0, <2>1, EditFits
  <2> QED BY <1>2, <2>2
<1>5. Typed(file, Types)' /\ Held(asOf)' /\ Held(dep)' /\ (copy' = None \/ Held(copy)')
  BY <1>3, <1>4, HeldStays DEF IInv, TypeOK
<1>6. edited' \subseteq Field /\ edited' # {}
  BY <1>1 DEF IInv, TypeOK, Editable, Field
<1>7. edits' \in 0..MaxEdits
  BY <1>3 DEF IInv, TypeOK, Sound
<1> QED BY <1>3, <1>5, <1>6, <1>7 DEF IInv, TypeOK, AsInspected, Quiet

LEMMA UpdateByFileInv == ASSUME Sound, IInv, UpdateByFile PROVE IInv'
<1>0. Kinds
  BY DEF IInv, TypeOK, Kinds
<1>1. /\ file # None /\ FileFits(file, "update")
      /\ type = Dedicated /\ dep["remote"] # None => file["remote"] # None
      /\ dep' = Stored(FileRequest(file, dep), dep)
      /\ last' = [kind |-> "file", field |-> None]
      /\ UNCHANGED <<type, copy, keeps, file, asOf, edited, shown, options, edits>>
  BY DEF UpdateByFile
<1>2. Typed(file, Types) /\ Held(dep) /\ file["name"] # None
  BY <1>1 DEF IInv, TypeOK, FileFits
<1>3. Held(dep')
  BY <1>0, <1>1, <1>2, FileUpdateHeld
<1>4. Typed(file, Types)' /\ Held(asOf)' /\ Held(dep)' /\ (copy' = None \/ Held(copy)')
  BY <1>1, <1>3, HeldStays DEF IInv, TypeOK
<1>5. PrintConfig(asOf, shown)' = PrintConfig(asOf, shown)
  BY <1>1 DEF PrintConfig, PrintQueues, PrintVariables
<1> QED BY <1>1, <1>4, <1>5 DEF IInv, TypeOK, AsInspected

LEMMA CreateByFileInv == ASSUME Sound, IInv, CreateByFile PROVE IInv'
<1> DEFINE made == Stored(CreateRequest(file), Blank)
<1>0. Kinds
  BY DEF IInv, TypeOK, Kinds
<1>1. /\ file # None /\ FileFits(file, "create")
      /\ copy' = IF file["env"] # NoVariables \/ file["mail"] # None
                 THEN Stored(FileRequest(file, made), made) ELSE made
      /\ last' = [kind |-> "create", field |-> None]
      /\ UNCHANGED <<type, dep, keeps, file, asOf, edited, shown, options, edits>>
  BY DEF CreateByFile
<1>2. Typed(file, Types) /\ file["name"] # None
  BY <1>1 DEF IInv, TypeOK, FileFits
<1>3. Held(made) /\ (type = Dedicated /\ made["remote"] # None => file["remote"] # None)
  BY <1>0, <1>2, CreateHeld
<1> HIDE DEF made
<1>4. Held(Stored(FileRequest(file, made), made))
  BY <1>0, <1>2, <1>3, FileUpdateHeld
<1>5. Held(copy')
  BY <1>1, <1>3, <1>4
<1>6. Typed(file, Types)' /\ Held(asOf)' /\ Held(dep)' /\ Held(copy)'
  BY <1>1, <1>5, HeldStays DEF IInv, TypeOK
<1>7. PrintConfig(asOf, shown)' = PrintConfig(asOf, shown)
  BY <1>1 DEF PrintConfig, PrintQueues, PrintVariables
<1> QED BY <1>1, <1>6, <1>7 DEF IInv, TypeOK, AsInspected

LEMMA UpdateByOptionInv == ASSUME Sound, IInv, UpdateByOption PROVE IInv'
<1>0. Kinds
  BY DEF IInv, TypeOK, Kinds
<1>1. PICK x \in Option : \E v \in Plain(x) :
         /\ dep' = Stored(OptionRequest(dep, x, v), dep)
         /\ last' = [kind |-> "option", field |-> x]
  BY DEF UpdateByOption
<1>2. PICK v \in Plain(x) : dep' = Stored(OptionRequest(dep, x, v), dep)
  BY <1>1
<1>3. /\ options < MaxOptions /\ options' = options + 1
      /\ UNCHANGED <<type, copy, keeps, file, asOf, edited, shown, edits>>
  BY DEF UpdateByOption
<1>4. Held(dep')
  BY <1>0, <1>2, OptionHeld DEF IInv, TypeOK
<1>5. /\ file' = None \/ (Typed(file, Types)' /\ Held(asOf)')
      /\ Held(dep)' /\ (copy' = None \/ Held(copy)')
  BY <1>3, <1>4, HeldStays DEF IInv, TypeOK
<1>6. PrintConfig(asOf, shown)' = PrintConfig(asOf, shown)
  BY <1>3 DEF PrintConfig, PrintQueues, PrintVariables
<1>7. options' \in 0..MaxOptions
  BY <1>3 DEF IInv, TypeOK, Sound
<1> QED BY <1>1, <1>3, <1>5, <1>6, <1>7 DEF IInv, TypeOK, AsInspected

LEMMA NextInv == ASSUME Sound, IInv, [Next]_vars PROVE IInv'
<1>1. CASE UNCHANGED vars
  <2>1. UNCHANGED <<type, dep, copy, keeps, file, asOf, edited, shown, last, options, edits>>
    BY <1>1 DEF vars
  <2>2. /\ file' = None \/ (Typed(file, Types)' /\ Held(asOf)')
        /\ Held(dep)' /\ (copy' = None \/ Held(copy)')
    BY <2>1, HeldStays DEF IInv, TypeOK
  <2>3. PrintConfig(asOf, shown)' = PrintConfig(asOf, shown)
    BY <2>1 DEF PrintConfig, PrintQueues, PrintVariables
  <2> QED BY <2>1, <2>2, <2>3 DEF IInv, TypeOK, AsInspected
<1>2. CASE Inspect
  BY <1>2, InspectInv
<1>3. CASE Edit
  BY <1>3, EditInv
<1>4. CASE UpdateByFile
  BY <1>4, UpdateByFileInv
<1>5. CASE CreateByFile
  BY <1>5, CreateByFileInv
<1>6. CASE UpdateByOption
  BY <1>6, UpdateByOptionInv
<1> QED BY <1>1, <1>2, <1>3, <1>4, <1>5, <1>6 DEF Next

LEMMA Invariant == ASSUME Sound PROVE Spec => []IInv
<1>1. Init => IInv
  BY InitInv
<1>2. IInv /\ [Next]_vars => IInv'
  BY NextInv
<1> QED BY <1>1, <1>2, PTL DEF Spec

\* Every Deployment is one the server would keep, and every file one that a
\* command could have written or the user edited.
THEOREM Typing == ASSUME Sound PROVE Spec => []TypeOK
<1>1. IInv => TypeOK
  BY DEF IInv
<1> QED BY <1>1, Invariant, PTL

-----------------------------------------------------------------------------
(* What commands leave alone.                                              *)

\* Sent back as it was read, a variable is what it was.
LEMMA VariablesKept ==
  ASSUME Sound
  PROVE  \A v \in Variable \union {None} :
            StoredVariable(IF v # None /\ v.secret THEN [v EXCEPT !.val = Hidden] ELSE v, v) = v
<1> SUFFICES ASSUME NEW v \in Variable
             PROVE StoredVariable(IF v # None /\ v.secret THEN [v EXCEPT !.val = Hidden] ELSE v, v)
                     = v
  BY DEF StoredVariable
<1> DEFINE w == IF v # None /\ v.secret THEN [v EXCEPT !.val = Hidden] ELSE v
<1>0. v # None
  BY DEF Sound
<1>1. /\ v = [val |-> v.val, secret |-> v.secret] /\ v.secret \in BOOLEAN
      /\ w = [val |-> IF v # None /\ v.secret THEN Hidden ELSE v.val, secret |-> v.secret]
  BY DEF Variable
<1>2. w # None
  <2>1. w \in Variable
    BY DEF Variable
  <2> QED BY <2>1 DEF Sound
<1> HIDE DEF w
<1>3. w.val = Hidden => [w EXCEPT !.val = v.val] = v
  BY <1>1
<1>4. w.val # Hidden => w = v
  BY <1>0, <1>1
<1>5. StoredVariable(w, v) = v
  BY <1>0, <1>2, <1>3, <1>4 DEF StoredVariable
<1> QED BY <1>5 DEF w

LEMMA EnvKept ==
  ASSUME Sound, NEW e \in [Key -> Variable \union {None}]
  PROVE  [k \in Key |-> StoredVariable(PrintVariables(e)[k], e[k])] = e
<1>1. \A k \in Key : StoredVariable(PrintVariables(e)[k], e[k]) = e[k]
  <2> TAKE k \in Key
  <2>1. e[k] \in Variable \union {None}
    OBVIOUS
  <2>2. PrintVariables(e)[k] =
          IF e[k] # None /\ e[k].secret THEN [e[k] EXCEPT !.val = Hidden] ELSE e[k]
    BY DEF PrintVariables
  <2> QED BY <2>1, <2>2, VariablesKept
<1> QED BY <1>1

\* Queues that are sent back as they were read keep their storage, if the
\* server keeps what is not sent, or lose it.
LEMMA QueuesKept ==
  ASSUME Sound, Kinds, NEW qs \in [Queue -> Workers(Machines) \union {None}], qs # NoQueues
  PROVE  /\ keeps => StoredQueues(QueuesAsRead(qs), qs) = qs
         /\ ~keeps => \A q \in Queue : qs[q] # None =>
               StoredQueues(QueuesAsRead(qs), qs)[q] = [qs[q] EXCEPT !.disk = None]
<1> DEFINE s == QueuesAsRead(qs)
           t == StoredQueues(s, qs)
<1>1. s = [q \in Queue |-> IF qs[q] = None THEN None ELSE [qs[q] EXCEPT !.disk = Omit]]
  BY DEF QueuesAsRead
<1>2. s # Omit
  <2>1. Wanted(s) \/ s = Omit
    BY QueuesAsReadFit
  <2>2. \A q \in Queue : s[q] \in Sending \union {None}
    BY <1>1 DEF Sending, Workers
  <2>3. s \in [Queue -> Sending \union {None}]
    BY <1>1, <2>2
  <2>4. Sending \subseteq [machine : Pool \union Types, disk : Val \union {None, Omit}]
    BY DEF Sending, Machines
  <2>5. s \in [Queue -> [machine : Pool \union Types, disk : Val \union {None, Omit}] \union {None}]
    BY <2>3, <2>4
  <2> QED BY <2>5 DEF Sound
<1> HIDE DEF s
<1>3. t = [q \in Queue |-> Storage(s[q], qs[q])]
  BY <1>2 DEF StoredQueues
<1>4. \A q \in Queue : qs[q] = None => Storage(s[q], qs[q]) = None
  BY <1>1 DEF Storage
<1>5. \A q \in Queue : qs[q] # None =>
         Storage(s[q], qs[q]) = IF keeps THEN qs[q] ELSE [qs[q] EXCEPT !.disk = None]
  <2> SUFFICES ASSUME NEW q \in Queue, qs[q] # None
               PROVE  Storage(s[q], qs[q]) = IF keeps THEN qs[q] ELSE [qs[q] EXCEPT !.disk = None]
    OBVIOUS
  <2>1. qs[q] \in Workers(Machines)
    OBVIOUS
  <2>2. s[q] = [machine |-> qs[q].machine, disk |-> Omit] /\ s[q] # None
    <3>1. s[q] = [machine |-> qs[q].machine, disk |-> Omit]
      BY <1>1, <2>1 DEF Workers
    <3>2. s[q] \in Sending
      BY <2>1, <3>1 DEF Workers, Sending
    <3> QED BY <3>1, <3>2, NoneNotSent
  <2>3. Storage(s[q], qs[q]) = [s[q] EXCEPT !.disk = IF keeps THEN qs[q].disk ELSE None]
    BY <2>2 DEF Storage
  <2>4. qs[q] = [machine |-> qs[q].machine, disk |-> qs[q].disk]
    BY <2>1 DEF Workers
  <2> QED BY <2>2, <2>3, <2>4
<1> HIDE DEF t
<1>6. keeps => t = qs
  BY <1>3, <1>4, <1>5
<1> QED BY <1>3, <1>5, <1>6 DEF s, t

\* What option x makes of field y.
Leaves(s, x, y) ==
    \/ s[y] = dep[y]
    \/ y = x
    \/ y \in {"queues", "pool"} /\ s["executor"] # dep["executor"]
    \/ y = "schedules" /\ x = "dev"
    \/ /\ y = "queues" /\ ~keeps
       /\ \A q \in Queue :
             dep[y][q] # None => s[y][q] = [dep[y][q] EXCEPT !.disk = None]

LEMMA OptionKeeps ==
  ASSUME Sound, Kinds, Held(dep), NEW x \in Option, NEW v \in Plain(x), NEW y \in Field
  PROVE  Leaves(Stored(OptionRequest(dep, x, v), dep), x, y)
<1> DEFINE r == OptionRequest(dep, x, v)
           s == Stored(r, dep)
<1> SUFFICES ASSUME y # x
             PROVE  Leaves(s, x, y)
  BY DEF Leaves
<1>1. OptionFields(r, dep, x, v)
  BY OptionRequestFields
<1>2. StoredAs(s, r, dep)
  BY StoredFields
<1> HIDE DEF r, s
<1>3. /\ dep["env"] \in [Key -> Variable \union {None}]
      /\ dep["queues"] \in [Queue -> Workers(Machines) \union {None}]
      /\ dep["executor"] \in Executors
      /\ dep["pool"] # None => type = Hybrid /\ dep["executor"] = Kubernetes
      /\ HasQueues(dep["executor"], dep["remote"]) <=> dep["queues"] # NoQueues
      /\ ~dep["dev"] => dep["schedules"] = None
      /\ type # Hybrid /\ dep["remote"] = None => dep["pod"] # None
  BY DEF Held, Typed
<1>4. \A z \in {"name", "executor", "size", "dag", "identity", "mail", "ha", "dev"} :
         z # x => s[z] = dep[z]
  <2>1. \A z \in {"name", "executor", "size", "dag", "identity", "mail", "ha", "dev"} :
           z # x => r[z] \in {dep[z], Omit}
    BY <1>1 DEF OptionFields
  <2> QED BY <1>2, <2>1, FieldNames DEF StoredAs
<1>5. /\ s["remote"] = IF r["remote"] = Omit THEN dep["remote"] ELSE r["remote"]
      /\ s["pod"] = IF r["pod"] = Omit THEN dep["pod"] ELSE r["pod"]
  BY StoredRemote DEF s
<1>6. /\ x # "remote" => s["remote"] = dep["remote"]
      /\ s["remote"] = None <=> dep["remote"] = None
  <2>1. x = "remote" => v \in Val /\ dep["remote"] # None
    BY DEF Plain, Option
  <2> QED BY <1>1, <1>5, <2>1 DEF OptionFields, Sound
<1>7. x # "pod" => s["pod"] = dep["pod"]
  BY <1>1, <1>3, <1>5 DEF OptionFields, PodForUpdate
<1>8. s["env"] = dep["env"]
  <2>1. PrintVariables(dep["env"]) # Omit
    <3>1. \A k \in Key : dep["env"][k] \in Variable \union {None}
      BY <1>3
    <3>2. PrintVariables(dep["env"]) \in [Key -> Variable \union {None}]
      BY <3>1 DEF PrintVariables, Variable
    <3> QED BY <3>2 DEF Sound
  <2>2. r["env"] = PrintVariables(dep["env"])
    BY <1>1 DEF OptionFields
  <2>3. s["env"] = [k \in Key |-> StoredVariable(PrintVariables(dep["env"])[k], dep["env"][k])]
    BY <1>2, <2>1, <2>2 DEF StoredAs
  <2> QED BY <1>3, <2>3, EnvKept
<1>9. x # "dev" => s["schedules"] = dep["schedules"]
  BY <1>1, <1>2, <1>3, <1>4 DEF OptionFields, StoredAs
<1>10. s["executor"] = dep["executor"] => s["pool"] = dep["pool"]
  <2> SUFFICES ASSUME s["executor"] = dep["executor"] PROVE s["pool"] = dep["pool"]
    OBVIOUS
  <2>1. CASE type = Hybrid /\ dep["executor"] = Kubernetes
    <3>1. r["executor"] = Kubernetes
      <4>1. s["executor"] = IF r["executor"] = Omit THEN dep["executor"] ELSE r["executor"]
        BY <1>2, FieldNames DEF StoredAs
      <4>2. r["executor"] = IF x = "executor" THEN v ELSE dep["executor"]
        BY <1>1 DEF OptionFields
      <4>3. x = "executor" => v # Omit
        BY DEF Plain, Executors, Sound
      <4> QED BY <2>1, <4>1, <4>2, <4>3
    <3>2. r["pool"] = dep["pool"]
      BY <1>1, <2>1, <3>1 DEF OptionFields, Sound
    <3> QED BY <1>2, <2>1, <3>2 DEF StoredAs
  <2>2. CASE ~(type = Hybrid /\ dep["executor"] = Kubernetes)
    BY <1>2, <1>3, <2>2 DEF StoredAs
  <2> QED BY <2>1, <2>2
<1>11. s["executor"] = dep["executor"] => Leaves(s, x, "queues")
  <2> SUFFICES ASSUME s["executor"] = dep["executor"] PROVE Leaves(s, x, "queues")
    OBVIOUS
  <2>1. HasQueues(s["executor"], s["remote"]) <=> HasQueues(dep["executor"], dep["remote"])
    BY <1>6 DEF HasQueues
  <2>2. CASE ~HasQueues(dep["executor"], dep["remote"])
    BY <1>2, <1>3, <2>1, <2>2 DEF Leaves, StoredAs
  <2>3. CASE HasQueues(dep["executor"], dep["remote"])
    <3>1. dep["queues"] # NoQueues /\ dep["executor"] # Kubernetes
      BY <1>3, <2>3 DEF HasQueues, Sound
    <3>2. r["executor"] # Kubernetes
      <4>1. s["executor"] = IF r["executor"] = Omit THEN dep["executor"] ELSE r["executor"]
        BY <1>2, FieldNames DEF StoredAs
      <4> QED BY <3>1, <4>1 DEF Sound
    <3>3. r["queues"] = QueuesAsRead(dep["queues"])
      BY <1>1, <3>1, <3>2 DEF OptionFields, QueuesForExecutor
    <3>4. s["queues"] = StoredQueues(QueuesAsRead(dep["queues"]), dep["queues"])
      BY <1>2, <2>1, <2>3, <3>3 DEF StoredAs
    <3> QED BY <1>3, <3>1, <3>4, QueuesKept DEF Leaves
  <2> QED BY <2>2, <2>3
<1>12. CASE y \in {"name", "executor", "size", "dag", "identity", "mail", "ha", "dev"}
  BY <1>4, <1>12 DEF Leaves
<1>13. CASE y \in {"remote", "pod", "env"}
  BY <1>6, <1>7, <1>8, <1>13 DEF Leaves
<1>14. CASE y = "schedules"
  BY <1>9, <1>14 DEF Leaves
<1>15. CASE y = "pool"
  BY <1>10, <1>15 DEF Leaves
<1>16. CASE y = "queues"
  BY <1>11, <1>16 DEF Leaves
<1> QED BY <1>12, <1>13, <1>14, <1>15, <1>16, FieldNames

\* The queues of a file, sent back as inspect wrote them.
LEMMA FileQueuesKept ==
  ASSUME Sound, Kinds, type # Hybrid,
         NEW f, f["queues"] \in [Queue -> Workers(Machines) \union {None}], f["queues"] # NoQueues
  PROVE  StoredQueues(QueuesFromFile(f), f["queues"]) = f["queues"]
<1> DEFINE qs == f["queues"]
           s == QueuesFromFile(f)
           sent(q) == [qs[q] EXCEPT !.disk = IF @ = None THEN Omit ELSE @]
<1>1. Listed(f) # {} /\ \A q \in Queue : q \in Listed(f) <=> qs[q] # None
  BY DEF Listed, NoQueues
<1>2. s = [q \in Queue |-> IF qs[q] = None THEN None ELSE sent(q)]
  BY <1>1 DEF QueuesFromFile
<1>3. \A q \in Queue : qs[q] # None =>
         /\ qs[q] = [machine |-> qs[q].machine, disk |-> qs[q].disk]
         /\ sent(q) = [machine |-> qs[q].machine,
                       disk |-> IF qs[q].disk = None THEN Omit ELSE qs[q].disk]
         /\ sent(q) \in Sending
         /\ qs[q].disk # Omit
  BY DEF Workers, Sending, Sound
<1> HIDE DEF sent, s
<1>4. s # Omit
  <2>1. s \in [Queue -> Sending \union {None}]
    BY <1>2, <1>3
  <2>2. Sending \subseteq [machine : Pool \union Types, disk : Val \union {None, Omit}]
    BY DEF Sending, Machines
  <2>3. s \in [Queue -> [machine : Pool \union Types, disk : Val \union {None, Omit}] \union {None}]
    BY <2>1, <2>2
  <2> QED BY <2>3 DEF Sound
<1>5. StoredQueues(s, qs) = [q \in Queue |-> Storage(s[q], qs[q])]
  BY <1>4 DEF StoredQueues
<1>6. \A q \in Queue : Storage(s[q], qs[q]) = qs[q]
  <2> TAKE q \in Queue
  <2>1. CASE qs[q] = None
    BY <1>2, <2>1 DEF Storage
  <2>2. CASE qs[q] # None
    <3>1. s[q] = sent(q) /\ s[q] # None
      BY <1>2, <1>3, <2>2, NoneNotSent
    <3>2. CASE qs[q].disk = None
      <4> DEFINE m == qs[q].machine
                 k == qs[q].disk
      <4>1. sent(q) = [machine |-> m, disk |-> IF k = None THEN Omit ELSE k]
        BY <1>3, <2>2
      <4>2. k = None
        BY <3>2
      <4> HIDE DEF m, k
      <4>3. s[q] = [machine |-> m, disk |-> Omit]
        BY <3>1, <4>1, <4>2
      <4>4. s[q] = [machine |-> qs[q].machine, disk |-> Omit] /\ s[q].disk = Omit
        BY <4>3 DEF m
      <4>5. Storage(s[q], qs[q]) = [s[q] EXCEPT !.disk = IF keeps THEN qs[q].disk ELSE None]
        BY <2>2, <3>1, <4>4 DEF Storage
      <4>6. [s[q] EXCEPT !.disk = IF keeps THEN qs[q].disk ELSE None]
              = [machine |-> qs[q].machine, disk |-> None]
        BY <3>2, <4>4
      <4>7. qs[q] = [machine |-> qs[q].machine, disk |-> None]
        BY <1>3, <2>2, <3>2
      <4> QED BY <4>5, <4>6, <4>7
    <3>3. CASE qs[q].disk # None
      <4>1. s[q] = qs[q] /\ s[q].disk # Omit
        BY <1>3, <2>2, <3>1, <3>3
      <4> QED BY <4>1 DEF Storage
    <3> QED BY <3>2, <3>3
  <2> QED BY <2>1, <2>2
<1> QED BY <1>5, <1>6 DEF s

\* What a file given back as it was written makes of field y.
Restores(s, y) ==
    \/ s[y] = dep[y]
    \/ y = "identity" /\ type = Hybrid /\ ~shown /\ s[y] = None
    \/ y = "identity" /\ shown /\ dep[y] = None /\ s[y] = Platform
    \/ y \in {"pool", "queues"} /\ type = Hybrid

LEMMA FileRestores ==
  ASSUME Sound, Kinds, Held(dep), shown \in BOOLEAN, NEW y \in Field
  PROVE  Restores(Stored(FileRequest(PrintConfig(dep, shown), dep), dep), y)
<1> DEFINE f == PrintConfig(dep, shown)
           r == FileRequest(f, dep)
           s == Stored(r, dep)
<1> SUFFICES Restores(s, y)
  OBVIOUS
<1>1. /\ \A x \in Field \ {"identity", "pod", "pool", "queues", "env"} : f[x] = dep[x]
      /\ f["identity"] = IF ~shown THEN None
                         ELSE IF dep["identity"] = None THEN Platform ELSE dep["identity"]
      /\ f["pod"] \in {dep["pod"], None}
      /\ f["queues"] = PrintQueues(dep["queues"])
      /\ f["env"] = PrintVariables(dep["env"])
  BY DEF PrintConfig, Held, Typed, Field
<1> HIDE DEF f
<1>2. FileFields(r, f, dep)
  BY FileRequestFields
<1>3. StoredAs(s, r, dep)
  BY StoredFields
<1> HIDE DEF r, s
<1>4. /\ dep["env"] \in [Key -> Variable \union {None}]
      /\ dep["queues"] \in [Queue -> Workers(Machines) \union {None}]
      /\ dep["pool"] # None => type = Hybrid /\ dep["executor"] = Kubernetes
      /\ HasQueues(dep["executor"], dep["remote"]) <=> dep["queues"] # NoQueues
      /\ ~dep["dev"] => dep["schedules"] = None
  BY DEF Held, Typed
<1>5. \A z \in {"name", "executor", "size", "dag", "mail", "ha", "dev", "pod", "remote"} :
         s[z] = dep[z]
  <2>1. \A z \in {"name", "executor", "size", "dag", "mail", "ha", "dev", "remote"} : f[z] = dep[z]
    BY <1>1, FieldNames
  <2>2. \A z \in {"name", "executor", "size", "dag", "mail", "ha", "dev", "pod", "remote"} :
           r[z] \in {dep[z], Omit}
    BY <1>1, <1>2, <2>1 DEF FileFields, OmitNone
  <2> QED BY <1>3, <2>2, FieldNames DEF StoredAs
<1>6. CASE y = "identity"
  <2>1. s[y] = IF r[y] = Omit THEN dep[y] ELSE r[y]
    BY <1>3, <1>6, FieldNames DEF StoredAs
  <2>2. r[y] = IF type = Hybrid THEN f[y] ELSE OmitNone(f[y])
    BY <1>2, <1>6 DEF FileFields
  <2>3. dep[y] # Omit /\ None # Omit /\ Platform # Omit
    BY <1>6 DEF Held, Typed, Sound
  <2> QED BY <1>1, <1>6, <2>1, <2>2, <2>3 DEF Restores, OmitNone
<1>7. CASE y = "env"
  <2>1. PrintVariables(dep["env"]) # Omit
    <3>1. \A k \in Key : dep["env"][k] \in Variable \union {None}
      BY <1>4
    <3>2. PrintVariables(dep["env"]) \in [Key -> Variable \union {None}]
      BY <3>1 DEF PrintVariables, Variable
    <3> QED BY <3>2 DEF Sound
  <2>2. r["env"] = PrintVariables(dep["env"])
    BY <1>1, <1>2 DEF FileFields
  <2>3. s["env"] = [k \in Key |-> StoredVariable(PrintVariables(dep["env"])[k], dep["env"][k])]
    BY <1>3, <2>1, <2>2 DEF StoredAs
  <2>4. s["env"] = dep["env"]
    BY <1>4, <2>3, EnvKept
  <2> QED BY <1>7, <2>4 DEF Restores
<1>8. CASE y = "schedules"
  <2>1. f["schedules"] = dep["schedules"]
    BY <1>1, FieldNames
  <2>2. r["schedules"] \in {dep["schedules"], Omit}
    BY <1>2, <2>1 DEF FileFields
  <2>3. s["schedules"] = dep["schedules"]
    BY <1>3, <1>4, <1>5, <2>2 DEF StoredAs
  <2> QED BY <1>8, <2>3 DEF Restores
<1>9. CASE y = "pool"
  BY <1>3, <1>4, <1>9 DEF Restores, StoredAs
<1>10. CASE y = "queues"
  <2> SUFFICES ASSUME type # Hybrid PROVE s["queues"] = dep["queues"]
    BY <1>10 DEF Restores
  <2>1. f["queues"] = dep["queues"]
    <3>1. PrintQueues(dep["queues"]) = [q \in Queue |-> dep["queues"][q]]
      BY DEF PrintQueues
    <3> QED BY <1>1, <1>4, <3>1
  <2>2. s["queues"] = IF dep["queues"] # NoQueues
                     THEN StoredQueues(QueuesFromFile(f), dep["queues"]) ELSE NoQueues
    BY <1>2, <1>3, <1>4, <1>5 DEF FileFields, StoredAs
  <2> QED BY <1>4, <2>1, <2>2, FileQueuesKept
<1>11. CASE y \in {"name", "executor", "size", "dag", "mail", "ha", "dev", "pod", "remote"}
  BY <1>5, <1>11 DEF Restores
<1> QED BY <1>6, <1>7, <1>8, <1>9, <1>10, <1>11, FieldNames

-----------------------------------------------------------------------------
(* What Deployments and files of a type have.                              *)

\* A file has no more than its type of Deployment.
FileSuits(f) ==
    IF type = Hybrid
    THEN /\ ~f["ha"] /\ ~f["dev"] /\ f["pod"] = None
         /\ \A q \in Queue : f["queues"][q] # None => f["queues"][q].disk = None
    ELSE f["pool"] = None

\* A file, edited or not, that names no node pool or no storage is of a
\* Deployment that has no other pool than the first, and no storage there.
Along(f, d) ==
    /\ f["pool"] = None => d["pool"] \in {None, 1}
    /\ \A q \in Queue :
          f["queues"][q] # None /\ f["queues"][q].disk = None /\ d["queues"][q] # None
             => d["queues"][q].disk = None

\* A queue sent without its storage, over none or one without, has none.
LEMMA StoredDisk ==
  ASSUME Sound, Kinds, NEW sent, sent = Omit \/ Wanted(sent),
         NEW old, old \in [Queue -> Workers(Machines) \union {None}], NEW q \in Queue,
         sent # Omit /\ sent[q] # None => sent[q].disk = Omit,
         old[q] # None => old[q].disk = None,
         StoredQueues(sent, old)[q] # None
  PROVE  StoredQueues(sent, old)[q].disk = None
<1>1. CASE sent # Omit
  <2>1. StoredQueues(sent, old)[q] = Storage(sent[q], old[q])
    BY <1>1 DEF StoredQueues
  <2>2. sent[q] # None
    BY <2>1 DEF Storage
  <2>3. sent[q] \in Sending /\ sent[q].disk = Omit
    BY <1>1, <2>2 DEF Wanted
  <2>4. Storage(sent[q], old[q]) =
          [sent[q] EXCEPT !.disk = IF keeps /\ old[q] # None THEN old[q].disk ELSE None]
    BY <2>2, <2>3 DEF Storage
  <2> QED BY <2>1, <2>3, <2>4 DEF Sending
<1>2. CASE sent = Omit /\ old # NoQueues
  BY <1>2 DEF StoredQueues
<1>3. CASE sent = Omit /\ old = NoQueues
  BY <1>3 DEF StoredQueues, NoQueues, Sound
<1> QED BY <1>1, <1>2, <1>3

\* inspect
LEMMA PrintAlong ==
  ASSUME Sound, Kinds, NEW d, Held(d), Suits(d), NEW show \in BOOLEAN
  PROVE  /\ FileSuits(PrintConfig(d, show)) /\ Along(PrintConfig(d, show), d)
         /\ FileSuits(Template(PrintConfig(d, show))) /\ Along(Template(PrintConfig(d, show)), d)
<1> DEFINE f == PrintConfig(d, show)
           t == Template(f)
<1>1. /\ f = [x \in Field |-> f[x]]
      /\ f["ha"] = d["ha"] /\ f["dev"] = d["dev"]
      /\ f["pod"] = IF type = Hybrid \/ (type = Dedicated /\ d["remote"] # None)
                    THEN None ELSE d["pod"]
      /\ f["pool"] = IF type = Standard \/ d["pool"] = None THEN None ELSE TypeOf[d["pool"]]
      /\ f["queues"] = PrintQueues(d["queues"])
  BY DEF PrintConfig, Held, Typed, Field
<1> HIDE DEF f
<1>2. \A q \in Queue : f["queues"][q] # None =>
         d["queues"][q] # None /\ f["queues"][q].disk = d["queues"][q].disk
  <2> SUFFICES ASSUME NEW q \in Queue, f["queues"][q] # None
               PROVE  d["queues"][q] # None /\ f["queues"][q].disk = d["queues"][q].disk
    OBVIOUS
  <2>1. d["queues"][q] \in Workers(Machines) \union {None}
    BY DEF Held, Typed
  <2>2. f["queues"][q] = IF d["queues"][q] = None \/ type # Hybrid THEN d["queues"][q]
                         ELSE [d["queues"][q] EXCEPT !.machine = TypeOf[@]]
    BY <1>1 DEF PrintQueues
  <2> QED BY <2>1, <2>2 DEF Workers
<1>3. f["pool"] = None => d["pool"] = None
  <2>1. d["pool"] \in Machines \union {None} /\ (d["pool"] # None => type = Hybrid)
    BY DEF Held, Typed
  <2>2. d["pool"] # None => f["pool"] \in Types
    BY <1>1, <2>1 DEF Sound, Machines, Types
  <2> QED BY <2>2 DEF Sound
<1>4. FileSuits(f)
  BY <1>1, <1>2 DEF FileSuits, Suits
<1>5. Along(f, d)
  BY <1>2, <1>3 DEF Along
<1>6. \A x \in {"ha", "dev", "pod", "pool", "queues"} : t[x] = f[x]
  BY <1>1 DEF Template, Field
<1> HIDE DEF t
<1>7. FileSuits(t) /\ Along(t, d)
  BY <1>4, <1>5, <1>6 DEF FileSuits, Along
<1> QED BY <1>4, <1>5, <1>7 DEF f, t

LEMMA EditAlong ==
  ASSUME Sound, Kinds, Typed(file, Types), FileSuits(file), NEW d, Along(file, d),
         NEW x \in Editable, NEW v \in Edits(x)
  PROVE  FileSuits([file EXCEPT ![x] = v]) /\ Along([file EXCEPT ![x] = v], d)
<1> DEFINE g == [file EXCEPT ![x] = v]
<1>1. x \in Field
  BY DEF Editable, Field
<1>2. /\ g[x] = v /\ \A y \in Field : y # x => g[y] = file[y]
  BY <1>1 DEF Typed
<1> HIDE DEF g
<1>3. \A q \in Queue : g["queues"][q] # None =>
         file["queues"][q] # None /\ g["queues"][q].disk = file["queues"][q].disk
  <2>1. CASE x # "queues"
    BY <1>2, <2>1, FieldNames
  <2>2. CASE x = "queues"
    <3>1. file["queues"] \in [Queue -> Workers(Types) \union {None}]
      BY DEF Typed
    <3>2. g["queues"] \in QueueEdits(file["queues"])
      BY <1>2, <2>2 DEF Edits
    <3> QED BY <3>1, <3>2 DEF QueueEdits, NoQueues, Workers
  <2> QED BY <2>1, <2>2
<1>4. /\ g["pool"] = None => file["pool"] = None
      /\ type # Hybrid => g["pool"] = file["pool"]
  <2>1. x = "pool" => v \in Types /\ type = Hybrid
    BY DEF Edits, Editable, Types
  <2>2. None \notin Types
    BY DEF Sound
  <2> QED BY <1>2, <2>1, <2>2, FieldNames
<1>5. type = Hybrid => \A y \in {"ha", "dev", "pod"} : g[y] = file[y]
  BY <1>2, FieldNames DEF Editable
<1>6. FileSuits(g)
  BY <1>3, <1>4, <1>5 DEF FileSuits
<1>7. Along(g, d)
  BY <1>3, <1>4 DEF Along
<1> QED BY <1>6, <1>7 DEF g

\* What the server stores, and what of it matters here.
LEMMA FileStores ==
  ASSUME Sound, Kinds, Typed(file, Types), FileSuits(file), NEW d, Held(d), Suits(d), Along(file, d)
  PROVE  LET s == Stored(FileRequest(file, d), d) IN
         /\ Suits(s) /\ Along(file, s)
<1> DEFINE r == FileRequest(file, d)
           s == Stored(r, d)
<1>1. FileFields(r, file, d)
  BY FileRequestFields
<1>2. StoredAs(s, r, d)
  BY StoredFields
<1> HIDE DEF r, s
<1>3. s["executor"] = file["executor"]
  <2>1. r["executor"] = file["executor"] /\ file["executor"] # Omit
    BY <1>1 DEF FileFields, Typed, Executors, Sound
  <2> QED BY <1>2, <2>1, FieldNames DEF StoredAs
<1>4. type = Hybrid => s["ha"] = d["ha"] /\ s["dev"] = d["dev"]
  BY <1>1, <1>2, FieldNames DEF FileFields, StoredAs
<1>5. s["pool"] = IF type = Hybrid /\ file["executor"] = Kubernetes
                  THEN NodePool(file["pool"]) ELSE None
  <2>1. NodePool(file["pool"]) # Omit
    BY NodePoolFits DEF Typed, Sound
  <2> QED BY <1>1, <1>2, <1>3, <2>1 DEF FileFields, StoredAs
<1>6. NodePool(file["pool"]) # None
  BY NodePoolFits DEF Typed, Sound
<1>7. \A q \in Queue :
         /\ s["queues"][q] # None
         /\ type = Hybrid \/ (file["queues"][q] # None /\ file["queues"][q].disk = None)
         => s["queues"][q].disk = None
  <2> SUFFICES ASSUME NEW q \in Queue, s["queues"][q] # None,
                      type = Hybrid \/ (file["queues"][q] # None /\ file["queues"][q].disk = None)
               PROVE  s["queues"][q].disk = None
    OBVIOUS
  <2> DEFINE sent == r["queues"]
  <2>1. s["queues"] = StoredQueues(sent, d["queues"])
    BY <1>2 DEF NoQueues, StoredAs
  <2>2. sent = QueuesFromFile(file)
    BY <1>1 DEF FileFields
  <2>3. sent = Omit \/ Wanted(sent)
    BY <2>2, QueuesFromFileFit
  <2>4. sent # Omit /\ sent[q] # None => sent[q].disk = Omit
    <3>1. file["queues"] \in [Queue -> Workers(Types) \union {None}]
      BY DEF Typed
    <3> QED BY <2>2, <3>1 DEF QueuesFromFile, Listed, Workers
  <2>5. d["queues"] \in [Queue -> Workers(Machines) \union {None}]
    BY DEF Held, Typed
  <2>6. d["queues"][q] # None => d["queues"][q].disk = None
    BY DEF Suits, Along
  <2> HIDE DEF sent
  <2> QED BY <2>1, <2>3, <2>4, <2>5, <2>6, StoredDisk
<1>8. Suits(s)
  BY <1>3, <1>4, <1>5, <1>6, <1>7 DEF Suits
<1>9. Along(file, s)
  <2>1. file["pool"] = None => s["pool"] \in {None, 1}
    BY <1>5 DEF NodePool
  <2> QED BY <1>7, <2>1 DEF Along
<1> QED BY <1>8, <1>9 DEF r, s

LEMMA OptionStores ==
  ASSUME Sound, Kinds, Held(dep), Suits(dep), NEW x \in Option, NEW v \in Plain(x), NEW f
  PROVE  LET s == Stored(OptionRequest(dep, x, v), dep) IN
         Suits(s) /\ (Along(f, dep) => Along(f, s))
<1> DEFINE r == OptionRequest(dep, x, v)
           s == Stored(r, dep)
<1>1. OptionFields(r, dep, x, v)
  BY OptionRequestFields
<1>2. StoredAs(s, r, dep)
  BY StoredFields
<1> HIDE DEF r, s
<1>3. s["executor"] = r["executor"] /\ dep["executor"] \in Executors
  <2>1. x = "executor" => v \in Executors
    BY DEF Plain
  <2>2. r["executor"] = IF x = "executor" THEN v ELSE dep["executor"]
    BY <1>1 DEF OptionFields
  <2>3. r["executor"] # Omit /\ dep["executor"] \in Executors
    BY <2>1, <2>2 DEF Held, Typed, Executors, Sound
  <2> QED BY <1>2, <2>3, FieldNames DEF StoredAs
<1>4. type = Hybrid => s["ha"] = dep["ha"] /\ s["dev"] = dep["dev"]
  BY <1>1, <1>2, FieldNames DEF OptionFields, StoredAs
<1>5. /\ s["pool"] \in {None, 1, dep["pool"]}
      /\ type # Hybrid => s["pool"] = None
      /\ type = Hybrid /\ s["executor"] = Kubernetes => s["pool"] # None
  <2>1. CASE type = Hybrid /\ s["executor"] = Kubernetes
    <3>1. r["pool"] = IF dep["executor"] = Celery THEN 1 ELSE dep["pool"]
      BY <1>1, <1>3, <2>1 DEF OptionFields
    <3>2. 1 # None /\ 1 # Omit /\ dep["pool"] # Omit
      BY DEF Held, Typed, Machines, Sound
    <3>3. dep["executor"] = Celery \/ dep["pool"] # None
      BY <1>3, <2>1 DEF Executors, Suits
    <3> QED BY <1>2, <2>1, <3>1, <3>2, <3>3 DEF StoredAs
  <2> QED BY <1>2, <2>1 DEF StoredAs
<1>6. \A q \in Queue :
         /\ s["queues"][q] # None
         /\ dep["queues"][q] # None => dep["queues"][q].disk = None
         => s["queues"][q].disk = None
  <2> SUFFICES ASSUME NEW q \in Queue, s["queues"][q] # None,
                      dep["queues"][q] # None => dep["queues"][q].disk = None
               PROVE  s["queues"][q].disk = None
    OBVIOUS
  <2> DEFINE sent == r["queues"]
             alone == [NoQueues EXCEPT ![DefaultQueue] = [machine |-> 1, disk |-> Omit]]
  <2>1. s["queues"] = StoredQueues(sent, dep["queues"])
    BY <1>2 DEF NoQueues, StoredAs
  <2>2. dep["queues"] \in [Queue -> Workers(Machines) \union {None}]
    BY DEF Held, Typed
  <2>3. sent \in {Omit, QueuesAsRead(dep["queues"])} \/ (type = Hybrid /\ sent = alone)
    BY <1>1 DEF OptionFields, QueuesForExecutor
  <2>4. type = Hybrid => Wanted(alone)
    <3> SUFFICES ASSUME type = Hybrid PROVE Wanted(alone)
      OBVIOUS
    <3> DEFINE w == [machine |-> 1, disk |-> Omit]
    <3>1. w \in Sending
      BY DEF Sound, Sending, Machines
    <3>2. w # None /\ DefaultQueue \in Queue
      BY <3>1, NoneNotSent DEF Sound
    <3> HIDE DEF w
    <3>3. Wanted([NoQueues EXCEPT ![DefaultQueue] = w])
      BY <3>1, <3>2 DEF NoQueues, Wanted
    <3> QED BY <3>3 DEF w
  <2>5. sent = Omit \/ Wanted(sent)
    BY <2>2, <2>3, <2>4, QueuesAsReadFit
  <2>6. alone[q] # None => alone[q].disk = Omit
    BY DEF NoQueues
  <2>7. sent # Omit /\ sent[q] # None => sent[q].disk = Omit
    BY <2>2, <2>3, <2>6 DEF QueuesAsRead, Workers
  <2> HIDE DEF sent
  <2> QED BY <2>1, <2>2, <2>5, <2>7, StoredDisk
<1>7. Suits(s)
  BY <1>3, <1>4, <1>5, <1>6 DEF Suits
<1>8. Along(f, dep) => Along(f, s)
  BY <1>5, <1>6 DEF Along
<1> QED BY <1>7, <1>8 DEF r, s

\* What the create makes, as far as it matters to the update that follows.
LEMMA Made ==
  ASSUME Sound, Kinds, Typed(file, Types), FileSuits(file)
  PROVE  LET s == Stored(CreateRequest(file), Blank) IN
         /\ s["name"] = file["name"] /\ s["executor"] = file["executor"]
         /\ s["size"] = file["size"] /\ s["remote"] = file["remote"]
         /\ file["dag"] # None => s["dag"] = file["dag"]
         /\ s["ha"] = file["ha"] /\ s["dev"] = file["dev"]
         /\ file["pod"] # None => s["pod"] = file["pod"]
         /\ type = Hybrid \/ file["identity"] # None => s["identity"] = file["identity"]
         /\ file["dev"] => s["schedules"] = file["schedules"]
         /\ s["env"] = NoVariables
         /\ s["pool"] = IF type = Hybrid /\ file["executor"] = Kubernetes
                        THEN NodePool(file["pool"]) ELSE None
         /\ s["queues"] = IF HasQueues(s["executor"], s["remote"])
                          THEN StoredQueues(QueuesFromFile(file), NoQueues) ELSE NoQueues
<1> DEFINE r == CreateRequest(file)
           s == Stored(r, Blank)
<1>1. CreateFields(r, file)
  BY CreateRequestFields
<1>2. StoredAs(s, r, Blank)
  BY StoredFields
<1>3. /\ Blank["queues"] = NoQueues /\ Blank["env"] = NoVariables
      /\ Blank["ha"] = FALSE /\ Blank["dev"] = FALSE
      /\ \A x \in Texts \union {"name", "dag", "pool"} : Blank[x] = None
  BY DEF Blank, Field, Texts
<1> HIDE DEF r, s
<1>4. \A z \in Field \ {"env", "schedules", "pool", "queues"} :
         s[z] = IF r[z] = Omit THEN Blank[z] ELSE r[z]
  BY <1>2 DEF StoredAs
<1>5. \A z \in {"name", "executor", "size", "dag", "ha", "dev", "pod", "identity", "remote", "mail",
                "schedules"} : file[z] # Omit
  BY DEF Typed, Executors, Sound
<1>6. /\ s["name"] = file["name"] /\ s["executor"] = file["executor"]
      /\ s["size"] = file["size"]
  BY <1>1, <1>4, <1>5, FieldNames DEF CreateFields
<1>7. s["remote"] = file["remote"]
  <2>1. type # Dedicated => file["remote"] = None
    BY DEF Typed
  <2> QED BY <1>1, <1>3, <1>4, <1>5, <2>1, FieldNames DEF CreateFields, Texts, OmitNone
<1>8. file["dag"] # None => s["dag"] = file["dag"]
  <2> SUFFICES ASSUME file["dag"] # None PROVE s["dag"] = file["dag"]
    OBVIOUS
  <2>1. file["dag"] \in BOOLEAN
    BY DEF Typed
  <2>2. r["dag"] = file["dag"]
    BY <1>1, <2>1 DEF CreateFields
  <2> QED BY <1>4, <1>5, <2>2, FieldNames
<1>9. s["ha"] = file["ha"] /\ s["dev"] = file["dev"]
  <2>1. CASE type = Hybrid
    <3>1. s["ha"] = FALSE /\ s["dev"] = FALSE
      BY <1>1, <1>3, <1>4, <2>1, FieldNames DEF CreateFields
    <3>2. file["ha"] = FALSE /\ file["dev"] = FALSE
      BY <2>1 DEF FileSuits, Typed
    <3> QED BY <3>1, <3>2
  <2>2. CASE type # Hybrid
    BY <1>1, <1>4, <1>5, <2>2, FieldNames DEF CreateFields
  <2> QED BY <2>1, <2>2
<1>10. file["pod"] # None => s["pod"] = file["pod"]
  BY <1>1, <1>4, <1>5, FieldNames DEF CreateFields, FileSuits, PodForCreate
<1>11. type = Hybrid \/ file["identity"] # None => s["identity"] = file["identity"]
  BY <1>1, <1>4, <1>5, FieldNames DEF CreateFields, OmitNone
<1>12. file["dev"] => s["schedules"] = file["schedules"]
  BY <1>1, <1>2, <1>5, <1>9 DEF CreateFields, StoredAs, FileSuits
<1>13. s["env"] = NoVariables
  <2>1. s["env"] = [k \in Key |-> StoredVariable(NoVariables[k], NoVariables[k])]
    BY <1>1, <1>2, <1>3 DEF CreateFields, StoredAs
  <2> QED BY <2>1 DEF StoredVariable, NoVariables
<1>14. s["pool"] = IF type = Hybrid /\ file["executor"] = Kubernetes
                   THEN NodePool(file["pool"]) ELSE None
  <2>1. NodePool(file["pool"]) # Omit
    BY NodePoolFits DEF Typed, Sound
  <2> QED BY <1>1, <1>2, <1>6, <2>1 DEF CreateFields, StoredAs
<1>15. s["queues"] = IF HasQueues(s["executor"], s["remote"])
                     THEN StoredQueues(QueuesFromFile(file), NoQueues) ELSE NoQueues
  BY <1>1, <1>2, <1>3 DEF CreateFields, StoredAs
<1> QED BY <1>6, <1>7, <1>8, <1>9, <1>10, <1>11, <1>12, <1>13, <1>14, <1>15 DEF r, s

LEMMA MadeSuits ==
  ASSUME Sound, Kinds, Typed(file, Types), FileSuits(file)
  PROVE  LET s == Stored(CreateRequest(file), Blank) IN Suits(s) /\ Along(file, s)
<1> DEFINE s == Stored(CreateRequest(file), Blank)
<1>1. /\ s["executor"] = file["executor"] /\ s["ha"] = file["ha"] /\ s["dev"] = file["dev"]
      /\ s["pool"] = IF type = Hybrid /\ file["executor"] = Kubernetes
                     THEN NodePool(file["pool"]) ELSE None
      /\ s["queues"] = IF HasQueues(s["executor"], s["remote"])
                       THEN StoredQueues(QueuesFromFile(file), NoQueues) ELSE NoQueues
  BY Made
<1> HIDE DEF s
<1>2. NodePool(file["pool"]) # None
  BY NodePoolFits DEF Typed, Sound
<1>3. \A q \in Queue :
         /\ s["queues"][q] # None
         /\ type = Hybrid \/ (file["queues"][q] # None /\ file["queues"][q].disk = None)
         => s["queues"][q].disk = None
  <2> SUFFICES ASSUME NEW q \in Queue, s["queues"][q] # None,
                      type = Hybrid \/ (file["queues"][q] # None /\ file["queues"][q].disk = None)
               PROVE  s["queues"][q].disk = None
    OBVIOUS
  <2> DEFINE sent == QueuesFromFile(file)
  <2>1. s["queues"] = StoredQueues(sent, NoQueues)
    BY <1>1 DEF NoQueues
  <2>2. sent = Omit \/ Wanted(sent)
    BY QueuesFromFileFit
  <2>3. sent # Omit /\ sent[q] # None => sent[q].disk = Omit
    <3>1. file["queues"] \in [Queue -> Workers(Types) \union {None}]
      BY DEF Typed
    <3> QED BY <3>1 DEF QueuesFromFile, Listed, Workers
  <2>4. NoQueues \in [Queue -> Workers(Machines) \union {None}] /\ NoQueues[q] = None
    BY DEF NoQueues
  <2> HIDE DEF sent
  <2> QED BY <2>1, <2>2, <2>3, <2>4, StoredDisk
<1>4. Suits(s)
  BY <1>1, <1>2, <1>3 DEF Suits, FileSuits
<1>5. Along(file, s)
  <2>1. file["pool"] = None => s["pool"] \in {None, 1}
    BY <1>1 DEF NodePool
  <2> QED BY <1>3, <2>1 DEF Along
<1> QED BY <1>4, <1>5 DEF s

SuitInv ==
    /\ Suits(dep)
    /\ file # None => FileSuits(file) /\ Along(file, dep)

LEMMA SuitStays ==
  type' = type =>
      /\ Suits(dep') => Suits(dep)'
      /\ FileSuits(file') => FileSuits(file)'
      /\ Along(file', dep') => Along(file, dep)'
  BY DEF Suits, FileSuits, Along

LEMMA SuitStep == ASSUME Sound, IInv, SuitInv, [Next]_vars PROVE SuitInv'
<1>0. Kinds /\ Held(dep) /\ (file # None => Typed(file, Types))
  BY DEF IInv, TypeOK, Kinds
<1>1. CASE UNCHANGED <<type, dep, file>>
  <2>1. Suits(dep)' /\ (file' # None => FileSuits(file)' /\ Along(file, dep)')
    BY <1>1, SuitStays DEF SuitInv
  <2> QED BY <2>1 DEF SuitInv
<1>2. CASE Inspect
  <2>1. PICK show, template \in BOOLEAN :
          file' = IF template THEN Template(PrintConfig(dep, show)) ELSE PrintConfig(dep, show)
    BY <1>2 DEF Inspect
  <2>2. type' = type /\ dep' = dep
    BY <1>2 DEF Inspect
  <2>3. FileSuits(file') /\ Along(file', dep')
    BY <1>0, <2>1, <2>2, PrintAlong DEF SuitInv
  <2> QED BY <2>2, <2>3, SuitStays DEF SuitInv
<1>3. CASE Edit
  <2>1. PICK x \in Editable : \E v \in Edits(x) \ {file[x]} : file' = [file EXCEPT ![x] = v]
    BY <1>3 DEF Edit
  <2>2. PICK v \in Edits(x) : file' = [file EXCEPT ![x] = v]
    BY <2>1
  <2>3. type' = type /\ dep' = dep /\ file # None
    BY <1>3 DEF Edit
  <2>4. FileSuits(file') /\ Along(file', dep')
    BY <1>0, <2>2, <2>3, EditAlong DEF SuitInv
  <2> QED BY <2>3, <2>4, SuitStays DEF SuitInv
<1>4. CASE UpdateByFile
  <2>1. dep' = Stored(FileRequest(file, dep), dep) /\ file # None /\ type' = type /\ file' = file
    BY <1>4 DEF UpdateByFile
  <2>2. Suits(dep') /\ FileSuits(file') /\ Along(file', dep')
    BY <1>0, <2>1, FileStores DEF SuitInv
  <2> QED BY <2>1, <2>2, SuitStays DEF SuitInv
<1>5. CASE CreateByFile
  BY <1>1, <1>5 DEF CreateByFile
<1>6. CASE UpdateByOption
  <2>1. PICK x \in Option : \E v \in Plain(x) : dep' = Stored(OptionRequest(dep, x, v), dep)
    BY <1>6 DEF UpdateByOption
  <2>2. PICK v \in Plain(x) : dep' = Stored(OptionRequest(dep, x, v), dep)
    BY <2>1
  <2>3. type' = type /\ file' = file
    BY <1>6 DEF UpdateByOption
  <2>4. Suits(dep') /\ (file' # None => FileSuits(file') /\ Along(file', dep'))
    BY <1>0, <2>2, <2>3, OptionStores DEF SuitInv
  <2> QED BY <2>3, <2>4, SuitStays DEF SuitInv
<1> QED BY <1>1, <1>2, <1>3, <1>4, <1>5, <1>6 DEF Next, vars

LEMMA SuitInvariant == ASSUME Sound PROVE Spec => []SuitInv
<1>1. Init => SuitInv
  BY DEF Init, SuitInv
<1>2. IInv /\ SuitInv /\ [Next]_vars => SuitInv'
  BY SuitStep
<1> QED BY <1>1, <1>2, Invariant, PTL DEF Spec

-----------------------------------------------------------------------------
(* What a file tells.                                                      *)

LEMMA QueuesTold ==
  ASSUME Sound, Kinds, Typed(file, Types), FileSuits(file), Listed(file) # {}, ~Mixed,
         NEW old, old \in [Queue -> Workers(Machines) \union {None}],
         \A q \in Queue : old[q] # None /\
            (type = Hybrid \/ (file["queues"][q] # None /\ file["queues"][q].disk = None))
               => old[q].disk = None
  PROVE  PrintQueues(StoredQueues(QueuesFromFile(file), old)) = file["queues"]
<1> DEFINE qs == file["queues"]
           sent == QueuesFromFile(file)
           st == StoredQueues(sent, old)
           last1 == Max(Listed(file))
           pool == NodePool(qs[last1].machine)
<1>1. qs \in [Queue -> Workers(Types) \union {None}] /\ Listed(file) = {q \in Queue : qs[q] # None}
  BY DEF Typed, Listed
<1>2. sent = [q \in Queue |->
        IF qs[q] = None THEN None
        ELSE IF type = Hybrid THEN [machine |-> pool, disk |-> Omit]
        ELSE [qs[q] EXCEPT !.disk = IF @ = None THEN Omit ELSE @]]
  BY <1>1 DEF QueuesFromFile
<1>3. last1 \in Listed(file)
  <2>1. \E m \in Listed(file) : \A n \in Listed(file) : m >= n
    BY DEF Sound, Listed
  <2> QED BY <2>1 DEF Max
<1>4. pool \in Pool /\ TypeOf[pool] = qs[last1].machine
  <2>1. qs[last1].machine \in Types
    BY <1>1, <1>3 DEF Workers
  <2> QED BY <2>1, NodePoolFits, NodePoolOf
<1>5. type = Hybrid => \A q \in Listed(file) : qs[q].machine = TypeOf[pool] /\ qs[q].disk = None
  BY <1>1, <1>3, <1>4 DEF Mixed, FileSuits
<1>6. sent # Omit /\ Wanted(sent)
  <2>1. sent = Omit \/ Wanted(sent)
    BY QueuesFromFileFit
  <2>2. Sending \union {None} \subseteq
          [machine : Pool \union Types, disk : Val \union {None, Omit}] \union {None}
    BY DEF Sending, Machines
  <2>3. \A q \in Queue : sent[q] \in Sending \union {None}
    <3> SUFFICES ASSUME NEW q \in Queue, qs[q] # None PROVE sent[q] \in Sending
      BY <1>2
    <3>1. qs[q] \in Workers(Types)
      BY <1>1
    <3> QED BY <1>2, <1>4, <3>1 DEF Workers, Sending, Machines
  <2>4. sent \in [Queue -> Sending \union {None}]
    BY <1>2, <2>3
  <2>5. sent # Omit
    BY <2>2, <2>4 DEF Sound
  <2> QED BY <2>1, <2>5
<1> HIDE DEF pool, last1, sent, qs
<1>7. st = [q \in Queue |-> Storage(sent[q], old[q])]
  BY <1>6 DEF StoredQueues
<1> HIDE DEF st
<1>8. \A q \in Queue : PrintQueues(st)[q] = qs[q]
  <2> TAKE q \in Queue
  <2>0. PrintQueues(st)[q] = IF st[q] = None \/ type # Hybrid THEN st[q]
                             ELSE [st[q] EXCEPT !.machine = TypeOf[@]]
    BY DEF PrintQueues
  <2>1. CASE qs[q] = None
    BY <1>2, <1>7, <2>0, <2>1 DEF Storage
  <2>2. CASE qs[q] # None
    <3>0. /\ qs[q] \in Workers(Types) /\ qs[q].disk # Omit
          /\ qs[q] = [machine |-> qs[q].machine, disk |-> qs[q].disk]
      BY <1>1, <2>2 DEF Workers, Sound
    <3>a. sent[q] \in Sending /\ sent[q] # None
      <4>1. sent[q] # None
        <5>1. sent[q] \in Sending \union {None}
          BY <1>6 DEF Wanted
        <5>2. type = Hybrid => sent[q] \in Sending
          BY <1>2, <1>4, <2>2 DEF Sending, Machines
        <5>3. type # Hybrid => sent[q] \in Sending
          BY <1>2, <2>2, <3>0 DEF Sending, Machines, Workers
        <5> QED BY <5>2, <5>3, NoneNotSent
      <4> QED BY <1>6, <4>1 DEF Wanted
    <3>b. sent[q].disk = Omit => Storage(sent[q], old[q]) = [sent[q] EXCEPT !.disk =
             IF keeps /\ old[q] # None THEN old[q].disk ELSE None]
      BY <3>a DEF Storage
    <3>1. CASE type = Hybrid
      <4>1. sent[q] = [machine |-> pool, disk |-> Omit]
        BY <1>2, <2>2, <3>1
      <4>2. old[q] # None => old[q].disk = None
        BY <3>1
      <4>3. st[q] = [machine |-> pool, disk |-> None]
        BY <1>7, <3>b, <4>1, <4>2
      <4>4. st[q] # None
        <5>1. st[q] \in Workers(Machines)
          BY <1>4, <3>1, <4>3 DEF Workers, Machines
        <5> QED BY <5>1, NoneNotSent
      <4>5. PrintQueues(st)[q] = [machine |-> TypeOf[pool], disk |-> None]
        BY <2>0, <3>1, <4>3, <4>4
      <4>6. qs[q].machine = TypeOf[pool] /\ qs[q].disk = None
        BY <1>1, <1>5, <2>2, <3>1
      <4> QED BY <3>0, <4>5, <4>6
    <3>2. CASE type # Hybrid /\ qs[q].disk = None
      <4>1. sent[q] = [machine |-> qs[q].machine, disk |-> Omit]
        <5>1. sent[q] = [qs[q] EXCEPT !.disk = Omit]
          BY <1>2, <2>2, <3>2
        <5> QED BY <3>0, <5>1
      <4>2. old[q] # None => old[q].disk = None
        BY <2>2, <3>2 DEF qs
      <4>3. st[q] = [machine |-> qs[q].machine, disk |-> None]
        BY <1>7, <3>b, <4>1, <4>2
      <4> QED BY <2>0, <3>0, <3>2, <4>3
    <3>3. CASE type # Hybrid /\ qs[q].disk # None
      <4>1. sent[q] = qs[q]
        BY <1>2, <2>2, <3>0, <3>3
      <4>2. Storage(sent[q], old[q]) = qs[q]
        BY <3>0, <4>1 DEF Storage
      <4> QED BY <1>7, <2>0, <3>3, <4>2
    <3> QED BY <3>1, <3>2, <3>3
  <2> QED BY <2>1, <2>2
<1>9. PrintQueues(st) = [q \in Queue |-> PrintQueues(st)[q]] /\ qs = [q \in Queue |-> qs[q]]
  BY <1>1 DEF PrintQueues
<1>10. PrintQueues(st) = qs
  BY <1>8, <1>9
<1> QED BY <1>10 DEF st, sent, qs

\* What an update by the file makes of field y.
Told(s, d, y) ==
    IF Silent(y, d, FALSE)
    THEN s[y] = d[y] \/ (y \in {"queues", "pool"} /\ s["executor"] # d["executor"])
    ELSE Says(y, s)

LEMMA SaysFields ==
  ASSUME NEW s
  PROVE  /\ \A x \in Field \ {"queues", "env", "pool"} : Says(x, s) <=> s[x] = file[x]
         /\ Says("queues", s) <=> (HasQueues(s["executor"], s["remote"]) /\ ~Mixed =>
                                      PrintQueues(s["queues"]) = file["queues"])
         /\ Says("env", s) <=> PrintVariables(s["env"]) = PrintVariables(file["env"])
         /\ Says("pool", s) <=> (s["executor"] = Kubernetes => TypeOf[s["pool"]] = file["pool"])
<1>1. \A x \in Field \ {"queues", "env", "pool"} : Says(x, s) <=> s[x] = file[x]
  BY DEF Says
<1>2. Says("queues", s) <=> (HasQueues(s["executor"], s["remote"]) /\ ~Mixed =>
                                      PrintQueues(s["queues"]) = file["queues"])
  BY DEF Says
<1>3. Says("env", s) <=> PrintVariables(s["env"]) = PrintVariables(file["env"])
  BY DEF Says
<1>4. Says("pool", s) <=> (s["executor"] = Kubernetes => TypeOf[s["pool"]] = file["pool"])
  BY DEF Says
<1> QED BY <1>1, <1>2, <1>3, <1>4

\* A variable the file has a value for, or a secret it has none for.
LEMMA VariableTold ==
  ASSUME Sound, NEW new \in Variable \union {None}, NEW old \in Variable \union {None},
         new # None /\ ~new.secret => new.val # Hidden
  PROVE  LET s == StoredVariable(new, old)
             Shown(v) == IF v # None /\ v.secret THEN [v EXCEPT !.val = Hidden] ELSE v
         IN Shown(s) = Shown(new)
<1> DEFINE s == StoredVariable(new, old)
           Shown(v) == IF v # None /\ v.secret THEN [v EXCEPT !.val = Hidden] ELSE v
<1>0. None \notin Variable
  BY DEF Sound
<1>1. CASE new # None /\ old # None /\ new.val = Hidden
  <2>1. new \in Variable /\ old \in Variable /\ new.secret
    BY <1>1
  <2>2. s = [new EXCEPT !.val = old.val]
    BY <1>1 DEF StoredVariable
  <2>3. s \in Variable /\ s.secret
    BY <2>1, <2>2 DEF Variable
  <2>4. Shown(s) = [s EXCEPT !.val = Hidden] /\ Shown(new) = [new EXCEPT !.val = Hidden]
    BY <1>0, <1>1, <2>1, <2>3
  <2>5. [s EXCEPT !.val = Hidden] = [new EXCEPT !.val = Hidden]
    BY <2>1, <2>2 DEF Variable
  <2> QED BY <2>4, <2>5
<1>2. CASE ~(new # None /\ old # None /\ new.val = Hidden)
  BY <1>2 DEF StoredVariable
<1> QED BY <1>1, <1>2

LEMMA VariablesTold ==
  ASSUME Sound, NEW f, f["env"] \in [Key -> Variable \union {None}],
         \A k \in Key : f["env"][k] # None /\ ~f["env"][k].secret => f["env"][k].val # Hidden,
         NEW old \in [Key -> Variable \union {None}]
  PROVE  PrintVariables([k \in Key |-> StoredVariable(f["env"][k], old[k])])
           = PrintVariables(f["env"])
<1> DEFINE env == f["env"]
           st == [k \in Key |-> StoredVariable(env[k], old[k])]
<1>1. \A k \in Key :
         (IF st[k] # None /\ st[k].secret THEN [st[k] EXCEPT !.val = Hidden] ELSE st[k]) =
         (IF env[k] # None /\ env[k].secret THEN [env[k] EXCEPT !.val = Hidden] ELSE env[k])
  <2> TAKE k \in Key
  <2>1. env[k] \in Variable \union {None} /\ old[k] \in Variable \union {None}
    OBVIOUS
  <2>2. env[k] # None /\ ~env[k].secret => env[k].val # Hidden
    OBVIOUS
  <2>3. st[k] = StoredVariable(env[k], old[k])
    OBVIOUS
  <2> HIDE DEF st, env
  <2> QED BY <2>1, <2>2, <2>3, VariableTold
<1> HIDE DEF st, env
<1>2. PrintVariables(st) = PrintVariables(env)
  BY <1>1 DEF PrintVariables
<1> QED BY <1>2 DEF st, env

LEMMA FileTells ==
  ASSUME Sound, Kinds, Typed(file, Types), FileSuits(file),
         \A k \in Key :
            file["env"][k] # None /\ ~file["env"][k].secret => file["env"][k].val # Hidden,
         NEW d, Held(d), Suits(d), Along(file, d), file["name"] = d["name"],
         type = Dedicated /\ d["remote"] # None => file["remote"] # None,
         NEW y \in Field
  PROVE  Told(Stored(FileRequest(file, d), d), d, y)
<1> DEFINE r == FileRequest(file, d)
           s == Stored(r, d)
<1> SUFFICES Told(s, d, y)
  OBVIOUS
<1>1. FileFields(r, file, d)
  BY FileRequestFields
<1>2. StoredAs(s, r, d)
  BY StoredFields
<1>0. /\ \A x \in Field \ {"queues", "env", "pool"} : Says(x, s) <=> s[x] = file[x]
      /\ Says("queues", s) <=> (HasQueues(s["executor"], s["remote"]) /\ ~Mixed =>
                                   PrintQueues(s["queues"]) = file["queues"])
      /\ Says("env", s) <=> PrintVariables(s["env"]) = PrintVariables(file["env"])
      /\ Says("pool", s) <=> (s["executor"] = Kubernetes => TypeOf[s["pool"]] = file["pool"])
  BY SaysFields
<1> HIDE DEF r, s
<1>3. \A z \in Field \ {"env", "schedules", "pool", "queues"} :
         s[z] = IF r[z] = Omit THEN d[z] ELSE r[z]
  BY <1>2 DEF StoredAs
<1>4. /\ \A z \in {"name", "executor", "size", "dag", "ha", "pod", "identity", "remote", "mail",
                   "schedules"} : file[z] # Omit
      /\ \A z \in {"name", "executor", "size", "dag", "ha", "pod", "identity", "remote", "mail",
                   "schedules"} : d[z] # Omit
  BY DEF Held, Typed, Executors, Sound
<1>5. CASE y \in {"name", "executor", "size", "dag", "mail", "dev"}
  <2>1. /\ y \in {"name", "executor", "size"} => r[y] = file[y]
        /\ y = "dag" => r[y] = IF file[y] = None THEN d[y] ELSE file[y]
        /\ y = "mail" => r[y] = OmitNone(file[y])
        /\ y = "dev" => r[y] = Omit
    BY <1>1, <1>5 DEF FileFields
  <2>2. s[y] = IF r[y] = Omit THEN d[y] ELSE r[y]
    BY <1>3, <1>5, FieldNames
  <2>3. CASE y = "dag"
    BY <1>4, <2>1, <2>2, <2>3, <1>0, FieldNames DEF Told, Silent
  <2>4. CASE y = "mail"
    BY <1>4, <2>1, <2>2, <2>4, <1>0, FieldNames DEF Told, Silent, OmitNone
  <2>5. CASE y = "dev" \/ y = "name"
    BY <1>4, <2>1, <2>2, <2>5 DEF Told, Silent
  <2>6. CASE y \in {"executor", "size"}
    BY <1>4, <2>1, <2>2, <2>6, <1>0, FieldNames DEF Told, Silent
  <2> QED BY <1>5, <2>3, <2>4, <2>5, <2>6
<1>6. CASE y = "ha"
  <2>1. s["ha"] = IF type = Hybrid THEN d["ha"] ELSE file["ha"]
    BY <1>1, <1>3, <1>4, FieldNames DEF FileFields
  <2>2. s["ha"] = file["ha"]
    BY <2>1 DEF FileSuits, Suits, Held, Typed
  <2> QED BY <1>6, <2>2, <1>0, FieldNames DEF Told, Silent
<1>7. CASE y = "pod"
  <2>1. s["pod"] = IF type = Hybrid \/ file["pod"] = None THEN d["pod"] ELSE file["pod"]
    BY <1>1, <1>3, <1>4, FieldNames DEF FileFields
  <2> QED BY <1>7, <2>1, <1>0, FieldNames DEF Told, Silent, FileSuits
<1>8. CASE y = "identity"
  <2>1. s["identity"] = IF type = Hybrid \/ file["identity"] # None THEN file["identity"]
                        ELSE d["identity"]
    BY <1>1, <1>3, <1>4, FieldNames DEF FileFields, OmitNone
  <2> QED BY <1>8, <2>1, <1>0, FieldNames DEF Told, Silent
<1>9. s["remote"] = IF d["remote"] = None THEN None ELSE file["remote"]
  <2>1. d["remote"] # None => type = Dedicated
    BY DEF Held, Typed
  <2> QED BY <1>1, <1>3, <1>4, <2>1, FieldNames DEF FileFields
<1>10. CASE y = "remote"
  BY <1>9, <1>10, <1>0, FieldNames DEF Told, Silent
<1>11. CASE y = "env"
  <2>1. /\ file["env"] \in [Key -> Variable \union {None}]
        /\ d["env"] \in [Key -> Variable \union {None}]
    BY DEF Held, Typed
  <2>2. r["env"] = file["env"] /\ file["env"] # Omit
    BY <1>1, <2>1 DEF FileFields, Sound
  <2>3. s["env"] = [k \in Key |-> StoredVariable(file["env"][k], d["env"][k])]
    BY <1>2, <2>2 DEF StoredAs
  <2>4. PrintVariables(s["env"]) = PrintVariables(file["env"])
    BY <2>1, <2>3, VariablesTold
  <2> QED BY <1>11, <2>4, <1>0, FieldNames DEF Told, Silent
<1>12. s["dev"] = d["dev"]
  BY <1>1, <1>3, FieldNames DEF FileFields
<1>13. CASE y = "schedules"
  <2>1. type = Hybrid => ~d["dev"]
    BY DEF Suits
  <2>2. CASE d["dev"]
    <3>1. s["schedules"] = file["schedules"]
      BY <1>1, <1>2, <1>4, <1>12, <2>1, <2>2 DEF FileFields, StoredAs
    <3> QED BY <1>13, <2>2, <3>1, <1>0, FieldNames DEF Told, Silent
  <2>3. CASE ~d["dev"]
    <3>1. s["schedules"] = None /\ d["schedules"] = None
      BY <1>2, <1>12, <2>3 DEF StoredAs, Held
    <3> QED BY <1>13, <2>3, <3>1 DEF Told, Silent
  <2> QED BY <2>2, <2>3
<1>14. s["executor"] = file["executor"]
  BY <1>1, <1>3, <1>4, FieldNames DEF FileFields
<1>15. s["pool"] = IF type = Hybrid /\ file["executor"] = Kubernetes
                  THEN NodePool(file["pool"]) ELSE None
  <2>1. NodePool(file["pool"]) # Omit
    BY NodePoolFits DEF Typed, Sound
  <2> QED BY <1>1, <1>2, <1>14, <2>1 DEF FileFields, StoredAs
<1>16. CASE y = "pool" /\ file["pool"] = None
  <2> SUFFICES ASSUME s["executor"] = d["executor"] PROVE s["pool"] = d["pool"]
    BY <1>16 DEF Told, Silent
  <2>1. d["pool"] # None => type = Hybrid /\ d["executor"] = Kubernetes
    BY DEF Held
  <2>2. type = Hybrid /\ d["executor"] = Kubernetes => d["pool"] = 1
    BY <1>16 DEF Suits, Along
  <2> QED BY <1>14, <1>15, <1>16, <2>1, <2>2 DEF NodePool
<1>17. CASE y = "pool" /\ file["pool"] # None
  <2>1. type = Hybrid /\ file["pool"] \in Types
    BY <1>17 DEF FileSuits, Typed
  <2>2. s["executor"] = Kubernetes => TypeOf[s["pool"]] = file["pool"]
    BY <1>14, <1>15, <2>1, NodePoolOf
  <2> QED BY <1>17, <2>2, <1>0, FieldNames DEF Told, Silent
<1>18. /\ d["queues"] \in [Queue -> Workers(Machines) \union {None}]
       /\ HasQueues(d["executor"], d["remote"]) <=> d["queues"] # NoQueues
       /\ r["queues"] = QueuesFromFile(file)
  BY <1>1 DEF FileFields, Held, Typed
<1>19. CASE y = "queues" /\ Listed(file) = {}
  <2> SUFFICES ASSUME s["executor"] = d["executor"] PROVE s["queues"] = d["queues"]
    BY <1>19 DEF Told, Silent
  <2>1. s["remote"] = None <=> d["remote"] = None
    <3>1. d["remote"] # None => type = Dedicated
      BY DEF Held, Typed
    <3> QED BY <1>9, <3>1
  <2>2. HasQueues(s["executor"], s["remote"]) <=> HasQueues(d["executor"], d["remote"])
    BY <2>1 DEF HasQueues
  <2>3. r["queues"] = Omit
    BY <1>18, <1>19 DEF QueuesFromFile
  <2> QED BY <1>2, <1>18, <2>2, <2>3 DEF StoredAs, StoredQueues
<1>20. CASE y = "queues" /\ Listed(file) # {}
  <2> SUFFICES ASSUME HasQueues(s["executor"], s["remote"]), ~Mixed
               PROVE  PrintQueues(s["queues"]) = file["queues"]
    BY <1>20, <1>0, FieldNames DEF Told, Silent
  <2>1. s["queues"] = StoredQueues(QueuesFromFile(file), d["queues"])
    BY <1>2, <1>18 DEF StoredAs
  <2>2. \A q \in Queue : d["queues"][q] # None /\
           (type = Hybrid \/ (file["queues"][q] # None /\ file["queues"][q].disk = None))
              => d["queues"][q].disk = None
    BY DEF Suits, Along
  <2> QED BY <1>18, <1>20, <2>1, <2>2, QueuesTold
<1> QED BY <1>5, <1>6, <1>7, <1>8, <1>10, <1>11, <1>13, <1>16, <1>17, <1>19, <1>20, FieldNames

\* Without variables and addresses the create alone does what the file says.
LEMMA MadeTells ==
  ASSUME Sound, Kinds, Typed(file, Types), FileSuits(file),
         file["env"] = NoVariables, file["mail"] = None, NEW y \in Field
  PROVE  LET s == Stored(CreateRequest(file), Blank) IN Silent(y, s, TRUE) \/ Says(y, s)
<1> DEFINE s == Stored(CreateRequest(file), Blank)
<1> SUFFICES Silent(y, s, TRUE) \/ Says(y, s)
  OBVIOUS
<1>1. /\ s["name"] = file["name"] /\ s["executor"] = file["executor"]
      /\ s["size"] = file["size"] /\ s["remote"] = file["remote"]
      /\ file["dag"] # None => s["dag"] = file["dag"]
      /\ s["ha"] = file["ha"] /\ s["dev"] = file["dev"]
      /\ file["pod"] # None => s["pod"] = file["pod"]
      /\ type = Hybrid \/ file["identity"] # None => s["identity"] = file["identity"]
      /\ file["dev"] => s["schedules"] = file["schedules"]
      /\ s["env"] = NoVariables
      /\ s["pool"] = IF type = Hybrid /\ file["executor"] = Kubernetes
                     THEN NodePool(file["pool"]) ELSE None
      /\ s["queues"] = IF HasQueues(s["executor"], s["remote"])
                       THEN StoredQueues(QueuesFromFile(file), NoQueues) ELSE NoQueues
  BY Made
<1>2. /\ \A x \in Field \ {"queues", "env", "pool"} : Says(x, s) <=> s[x] = file[x]
      /\ Says("queues", s) <=> (HasQueues(s["executor"], s["remote"]) /\ ~Mixed =>
                                   PrintQueues(s["queues"]) = file["queues"])
      /\ Says("env", s) <=> PrintVariables(s["env"]) = PrintVariables(file["env"])
      /\ Says("pool", s) <=> (s["executor"] = Kubernetes => TypeOf[s["pool"]] = file["pool"])
  BY SaysFields
<1> HIDE DEF s
<1>3. CASE y \in {"name", "executor", "size", "remote", "dag", "ha", "dev", "pod", "mail"}
  BY <1>1, <1>2, <1>3, FieldNames DEF Silent
<1>4. CASE y \in {"identity", "schedules"}
  BY <1>1, <1>2, <1>4, FieldNames DEF Silent
<1>5. CASE y = "env"
  BY <1>1, <1>2, <1>5
<1>6. CASE y = "pool"
  <2> SUFFICES ASSUME file["pool"] # None, s["executor"] = Kubernetes
               PROVE  TypeOf[s["pool"]] = file["pool"]
    BY <1>2, <1>6 DEF Silent
  <2>1. type = Hybrid /\ file["pool"] \in Types
    BY DEF FileSuits, Typed
  <2> QED BY <1>1, <2>1, NodePoolOf
<1>7. CASE y = "queues"
  <2> SUFFICES ASSUME Listed(file) # {}, HasQueues(s["executor"], s["remote"]), ~Mixed
               PROVE  PrintQueues(s["queues"]) = file["queues"]
    BY <1>2, <1>7 DEF Silent
  <2>1. s["queues"] = StoredQueues(QueuesFromFile(file), NoQueues)
    BY <1>1
  <2>2. /\ NoQueues \in [Queue -> Workers(Machines) \union {None}]
        /\ \A q \in Queue : NoQueues[q] = None
    BY DEF NoQueues
  <2> QED BY <2>1, <2>2, QueuesTold
<1> QED BY <1>3, <1>4, <1>5, <1>6, <1>7, FieldNames

\* With them, the update that follows.
LEMMA CreateTells ==
  ASSUME Sound, Kinds, Typed(file, Types), FileSuits(file), FileFits(file, "create"),
         NEW y \in Field
  PROVE  LET made == Stored(CreateRequest(file), Blank)
             s == Stored(FileRequest(file, made), made)
         IN Silent(y, s, TRUE) \/ Says(y, s)
<1> DEFINE made == Stored(CreateRequest(file), Blank)
           s == Stored(FileRequest(file, made), made)
<1> SUFFICES Silent(y, s, TRUE) \/ Says(y, s)
  OBVIOUS
<1>1. /\ Held(made) /\ Suits(made) /\ Along(file, made)
      /\ made["name"] = file["name"] /\ made["remote"] = file["remote"]
      /\ made["dev"] = file["dev"]
  BY CreateHeld, MadeSuits, Made DEF FileFits
<1> HIDE DEF made
<1>2. \A x \in Field : Told(s, made, x)
  <2>1. \A k \in Key :
           file["env"][k] # None /\ ~file["env"][k].secret => file["env"][k].val # Hidden
    BY DEF FileFits
  <2> QED BY <1>1, <2>1, FileTells
<1>3. s["dev"] = made["dev"] /\ (made["remote"] = None => s["remote"] = None)
  BY <1>2, FieldNames DEF Told, Silent
<1>4. \A x \in Field \ {"queues", "env", "pool"} : Says(x, s) <=> s[x] = file[x]
  BY SaysFields
<1> HIDE DEF s
<1>5. CASE y = "dev"
  BY <1>1, <1>3, <1>4, <1>5, FieldNames
<1>6. CASE y = "remote"
  <2>1. CASE made["remote"] = None
    BY <1>1, <1>3, <1>4, <1>6, <2>1, FieldNames
  <2>2. CASE made["remote"] # None
    BY <1>2, <1>6, <2>2 DEF Told, Silent
  <2> QED BY <2>1, <2>2
<1>7. CASE y \notin {"dev", "remote"}
  <2>1. Silent(y, made, FALSE) => Silent(y, s, TRUE)
    BY <1>3, <1>7 DEF Silent
  <2> QED BY <1>2, <2>1 DEF Told
<1> QED BY <1>5, <1>6, <1>7

-----------------------------------------------------------------------------
(* The theorems.                                                           *)

\* An update with one option changes that and what follows from it, nothing
\* else, though its request states everything (deploymentUpdate).
THEOREM OneOption == ASSUME Sound PROVE Spec => OnlyTheOption
<1>1. IInv /\ [Next]_vars =>
        [last'.kind = "option" =>
          \A x \in Field :
             \/ dep'[x] = dep[x]
             \/ x = last'.field
             \/ x \in {"queues", "pool"} /\ dep'["executor"] # dep["executor"]
             \/ x = "schedules" /\ last'.field = "dev"
             \/ /\ x = "queues" /\ ~keeps
                /\ \A q \in Queue :
                      dep[x][q] # None => dep'[x][q] = [dep[x][q] EXCEPT !.disk = None]]_vars
  <2> SUFFICES ASSUME IInv, Next, last'.kind = "option", NEW y \in Field
               PROVE  Leaves(dep', last'.field, y)
    BY DEF Leaves
  <2>1. UpdateByOption
    BY DEF Next, Inspect, Edit, UpdateByFile, CreateByFile, Quiet
  <2>2. PICK x \in Option : \E v \in Plain(x) :
           /\ dep' = Stored(OptionRequest(dep, x, v), dep)
           /\ last' = [kind |-> "option", field |-> x]
    BY <2>1 DEF UpdateByOption
  <2>3. PICK v \in Plain(x) : dep' = Stored(OptionRequest(dep, x, v), dep)
    BY <2>2
  <2>4. Leaves(Stored(OptionRequest(dep, x, v), dep), x, y)
    BY OptionKeeps DEF IInv, TypeOK, Kinds
  <2> QED BY <2>2, <2>3, <2>4
<1> QED BY <1>1, Invariant, PTL DEF Spec, OnlyTheOption

\* A file given back as inspect wrote it changes nothing, but for the
\* identity and a hybrid Deployment's pools (inspect and fromfile).
THEOREM RoundTrip == ASSUME Sound PROVE Spec => RoundTripKeeps
<1>1. IInv /\ [Next]_vars =>
        [last'.kind = "file" /\ edited = {} /\ dep = asOf =>
          \A x \in Field :
             \/ dep'[x] = dep[x]
             \/ x = "identity" /\ type = Hybrid /\ ~shown /\ dep'[x] = None
             \/ x = "identity" /\ shown /\ dep[x] = None /\ dep'[x] = Platform
             \/ x \in {"pool", "queues"} /\ type = Hybrid]_vars
  <2> SUFFICES ASSUME IInv, Next, last'.kind = "file", edited = {}, dep = asOf, NEW y \in Field
               PROVE  Restores(dep', y)
    BY DEF Restores
  <2>1. UpdateByFile
    BY DEF Next, Inspect, Edit, UpdateByOption, CreateByFile, Quiet
  <2>2. file = PrintConfig(dep, shown)
    BY <2>1 DEF UpdateByFile, FileFits, IInv, AsInspected
  <2>3. dep' = Stored(FileRequest(PrintConfig(dep, shown), dep), dep)
    BY <2>1, <2>2 DEF UpdateByFile
  <2> QED BY <2>3, FileRestores DEF IInv, TypeOK, Kinds
<1> QED BY <1>1, Invariant, PTL DEF Spec, RoundTripKeeps

\* A Deployment is what its file says, after an update by it and after a
\* create from it, whatever options were used since it was written (inspect
\* and fromfile).
THEOREM TakesEffect == ASSUME Sound PROVE Spec => FileTakesEffect
<1>1. IInv /\ SuitInv /\ [Next]_vars =>
        [/\ last'.kind = "file" =>
              \A x \in Field :
                 IF Silent(x, dep, FALSE)
                 THEN dep'[x] = dep[x]
                      \/ (x \in {"queues", "pool"} /\ dep'["executor"] # dep["executor"])
                 ELSE Says(x, dep')
         /\ last'.kind = "create" =>
              \A x \in Field : Silent(x, copy', TRUE) \/ Says(x, copy')]_vars
  <2> SUFFICES ASSUME IInv, SuitInv, Next
               PROVE  /\ last'.kind = "file" => \A x \in Field : Told(dep', dep, x)
                      /\ last'.kind = "create" =>
                           \A x \in Field : Silent(x, copy', TRUE) \/ Says(x, copy')
    BY DEF Told
  <2>0. Kinds /\ Held(dep) /\ (file # None => Typed(file, Types))
    BY DEF IInv, TypeOK, Kinds
  <2>1. ASSUME last'.kind = "file", NEW x \in Field PROVE Told(dep', dep, x)
    <3>1. UpdateByFile
      BY <2>1 DEF Next, Inspect, Edit, UpdateByOption, CreateByFile, Quiet
    <3>2. /\ dep' = Stored(FileRequest(file, dep), dep) /\ file # None
          /\ file["name"] = dep["name"]
          /\ type = Dedicated /\ dep["remote"] # None => file["remote"] # None
          /\ \A k \in Key :
                file["env"][k] # None /\ ~file["env"][k].secret => file["env"][k].val # Hidden
      BY <3>1 DEF UpdateByFile, FileFits
    <3> QED BY <2>0, <3>2, FileTells DEF SuitInv
  <2>2. ASSUME last'.kind = "create", NEW x \in Field
        PROVE  Silent(x, copy', TRUE) \/ Says(x, copy')
    <3> DEFINE made == Stored(CreateRequest(file), Blank)
    <3>1. CreateByFile
      BY <2>2 DEF Next, Inspect, Edit, UpdateByOption, UpdateByFile, Quiet
    <3>2. /\ file # None /\ FileFits(file, "create")
          /\ copy' = IF file["env"] # NoVariables \/ file["mail"] # None
                     THEN Stored(FileRequest(file, made), made) ELSE made
      BY <3>1 DEF CreateByFile
    <3>3. Typed(file, Types) /\ FileSuits(file)
      BY <2>0, <3>2 DEF SuitInv
    <3>4. CASE file["env"] # NoVariables \/ file["mail"] # None
      BY <2>0, <3>2, <3>3, <3>4, CreateTells
    <3>5. CASE file["env"] = NoVariables /\ file["mail"] = None
      BY <2>0, <3>2, <3>3, <3>5, MadeTells
    <3> QED BY <3>4, <3>5
  <2> QED BY <2>1, <2>2
<1> QED BY <1>1, Invariant, SuitInvariant, PTL DEF Spec, FileTakesEffect

-----------------------------------------------------------------------------
(* The commands of admins that share the server.                           *)

\* The kinds of commands with a list of their own, and all kinds.
OwnKinds == Deps!VariableKinds \union Deps!QueueKinds
CommandKinds == {"update", "create", "delete"} \union OwnKinds \union Deps!FileKinds
    \union Deps!OverrideKinds

\* What a field may hold, and a Deployment's fields.
Holdings == Names \union Deps!Executor \union {On, Off} \union Mails \union Sizes
    \union Deps!VariableShown \union {None}
Settings == [Deps!Field -> Holdings]
Valued(f) == \A x \in Deps!Field : f[x] \in Deps!Values(x) \union {None}
OnServer(f) == f \in Settings /\ Valued(f) /\ \A k \in Key : f[k] \in Deps!Variable \union {None}

\* The fields are apart.
LEMMA FieldsApart ==
  /\ Deps!Field = {"name", "executor", "dag", "mail"} \union Key \union WorkQueue
  /\ {"name", "executor", "dag", "mail"} \intersect (Key \union WorkQueue) = {}
  /\ Key \intersect WorkQueue = {}
  /\ Celery # Kubernetes /\ None # Same /\ FirstQueue \in WorkQueue
  /\ Deps!Executor = {Celery, Kubernetes}
BY CommandsSound DEF Deps!Sound, Deps!Field, Deps!Executor

\* Nothing is what is not there.
LEMMA ValuesApart ==
  /\ \A x \in Deps!Field : None \notin Deps!Values(x) /\ Same \notin Deps!Values(x)
  /\ None \notin Deps!Variable /\ Same \notin Deps!Variable
  /\ Deps!Variable \subseteq Deps!VariableShown
  /\ Same \notin Holdings
<1>1. /\ None \notin (Names \union Deps!Executor \union {On, Off} \union Mails
             \union Sizes \union Deps!VariableShown)
      /\ Same \notin (Names \union Deps!Executor \union {On, Off} \union Mails
             \union Sizes \union Deps!VariableShown)
      /\ None # Same
  BY CommandsSound DEF Deps!Sound
<1>2. Deps!Variable \subseteq Deps!VariableShown
  BY DEF Deps!Variable, Deps!VariableShown
<1> QED BY <1>1, <1>2 DEF Deps!Values, Holdings

\* What each field may hold.
LEMMA ValuesOf ==
  /\ Deps!Values("name") = Names /\ Deps!Values("executor") = Deps!Executor
  /\ Deps!Values("dag") = {On, Off} /\ Deps!Values("mail") = Mails
  /\ \A k \in Key : Deps!Values(k) = Deps!VariableShown
  /\ \A q \in WorkQueue : Deps!Values(q) = Sizes
BY FieldsApart DEF Deps!Values

\* What each kind of command asks.
Asked(c) ==
  /\ c.kind \in CommandKinds
  /\ c.kind = "qdelete" \/ \A x \in Deps!Field : c.ask[x] \in Deps!Values(x) \union {Same}
  /\ \A k \in Key : c.ask[k] \in Deps!Variable \union {Same}
  /\ c.kind = "update" =>
       \A x \in Deps!Field : x \notin {"name", "executor", "dag"} => c.ask[x] = Same
  /\ c.kind \in Deps!VariableKinds => \A x \in Deps!Field : x \notin Key => c.ask[x] = Same
  /\ c.kind \in Deps!QueueKinds => \A x \in Deps!Field : x \notin WorkQueue => c.ask[x] = Same
  /\ c.kind = "qdelete" =>
       \A q \in WorkQueue : c.ask[q] = Same \/ (c.ask[q] = None /\ q # FirstQueue)
  /\ c.kind = "create" =>
       \A x \in Deps!Field : (c.ask[x] # Same) <=> x \in {"name", "executor", "dag"}
  /\ c.kind \in Deps!FileKinds => Deps!FileFits(c.ask)

\* One field is asked, or none.
LEMMA OnlyField ==
  ASSUME NEW x \in Deps!Field, NEW v
  PROVE  \A y \in Deps!Field : Deps!Only(x, v)[y] = IF y = x THEN v ELSE Same
BY DEF Deps!Only, Deps!Nothing

LEMMA NothingField == \A y \in Deps!Field : Deps!Nothing[y] = Same
BY DEF Deps!Nothing

\* Where nothing or one field is asked, and a value of that field.
LEMMA OneAsked ==
  ASSUME NEW c, NEW x \in Deps!Field, NEW v \in Deps!Values(x) \union {Same},
         x \in Key => v \in Deps!Variable \union {Same},
         \A y \in Deps!Field : c.ask[y] = IF y = x THEN v ELSE Same
  PROVE  /\ \A y \in Deps!Field : c.ask[y] \in Deps!Values(y) \union {Same}
         /\ \A k \in Key : c.ask[k] \in Deps!Variable \union {Same}
BY FieldsApart

\* Every command asks what it may.
LEMMA CommandAsks == \A c \in Deps!Commands : Asked(c)
<1> SUFFICES ASSUME NEW c \in Deps!Commands PROVE Asked(c)
  OBVIOUS
<1> USE DEF CommandKinds, OwnKinds, Deps!VariableKinds, Deps!QueueKinds, Deps!FileKinds,
            Deps!OverrideKinds, Deps!Command
<1>1. CASE c \in Deps!Update
  <2>1. c.kind = "update" /\ \/ \E n \in Names : c.ask = Deps!Only("name", n)
                             \/ \E e \in Deps!Executor : c.ask = Deps!Only("executor", e)
                             \/ \E s \in {On, Off} : c.ask = Deps!Only("dag", s)
    BY <1>1 DEF Deps!Update
  <2> QED BY <2>1, OnlyField, FieldsApart, ValuesOf DEF Asked
<1>2. CASE c \in Deps!VariableModify
  <2>1. c.kind \in Deps!VariableKinds
        /\ (c.ask = Deps!Nothing \/ \E k \in Key, v \in Deps!Variable : c.ask = Deps!Only(k, v))
    BY <1>2 DEF Deps!VariableModify
  <2>2. CASE c.ask = Deps!Nothing
    BY <2>1, <2>2, NothingField, FieldsApart DEF Asked
  <2>3. ASSUME NEW k \in Key, NEW v \in Deps!Variable, c.ask = Deps!Only(k, v) PROVE Asked(c)
    <3>1. \A y \in Deps!Field : c.ask[y] = IF y = k THEN v ELSE Same
      BY <2>3, OnlyField, FieldsApart
    <3>2. v \in Deps!Values(k)
      BY ValuesOf, ValuesApart
    <3>3. /\ \A y \in Deps!Field : c.ask[y] \in Deps!Values(y) \union {Same}
          /\ \A l \in Key : c.ask[l] \in Deps!Variable \union {Same}
      BY <3>1, <3>2, OneAsked, FieldsApart
    <3>4. \A y \in Deps!Field : y \notin Key => c.ask[y] = Same
      BY <3>1
    <3> HIDE <2>3
    <3> QED BY <2>1, <3>3, <3>4 DEF Asked
  <2> QED BY <2>1, <2>2, <2>3
<1>3. CASE c \in Deps!QueueCreateOrUpdate
  <2>1. /\ c.kind \in {"qcreate", "qupdate"}
        /\ \E q \in WorkQueue, s \in Sizes : c.ask = Deps!Only(q, s)
    BY <1>3 DEF Deps!QueueCreateOrUpdate
  <2>2. PICK q \in WorkQueue, s \in Sizes : c.ask = Deps!Only(q, s)
    BY <2>1
  <2>3. \A y \in Deps!Field : c.ask[y] = IF y = q THEN s ELSE Same
    <3>1. q \in Deps!Field
      BY FieldsApart
    <3> QED BY <2>2, <3>1, OnlyField
  <2>4. /\ \A y \in Deps!Field : c.ask[y] \in Deps!Values(y) \union {Same}
        /\ \A l \in Key : c.ask[l] \in Deps!Variable \union {Same}
    <3>1. q \in Deps!Field /\ q \notin Key /\ s \in Deps!Values(q)
      BY FieldsApart, ValuesOf
    <3> QED BY <2>3, <3>1, OneAsked
  <2>5. \A y \in Deps!Field : y \notin WorkQueue => c.ask[y] = Same
    BY <2>3
  <2> QED BY <2>1, <2>4, <2>5 DEF Asked
<1>4. CASE c \in Deps!QueueDelete
  <2>1. c.kind = "qdelete" /\ \E q \in WorkQueue \ {FirstQueue} : c.ask = Deps!Only(q, None)
    BY <1>4 DEF Deps!QueueDelete
  <2>2. PICK q \in WorkQueue \ {FirstQueue} : c.ask = Deps!Only(q, None)
    BY <2>1
  <2>3. \A y \in Deps!Field : c.ask[y] = IF y = q THEN None ELSE Same
    <3>1. q \in Deps!Field
      BY FieldsApart
    <3> QED BY <2>2, <3>1, OnlyField
  <2>4. /\ \A k \in Key : k \in Deps!Field /\ k # q
        /\ \A p \in WorkQueue : p \in Deps!Field
    BY FieldsApart
  <2> QED BY <2>1, <2>3, <2>4 DEF Asked
<1>5. CASE c \in Deps!DeleteDeployment \union Deps!HibernationOverride
  <2>1. c.kind \in {"delete"} \union Deps!OverrideKinds /\ c.ask = Deps!Nothing
    BY <1>5 DEF Deps!DeleteDeployment, Deps!HibernationOverride
  <2> QED BY <2>1, NothingField, FieldsApart DEF Asked
<1>6. CASE c \in Deps!CreateDeployment
  <2>1. c.kind = "create" /\ \E n \in Names, e \in Deps!Executor, s \in {On, Off} :
          c.ask = [Deps!Nothing EXCEPT !["name"] = n, !["executor"] = e, !["dag"] = s]
    BY <1>6 DEF Deps!CreateDeployment
  <2>2. /\ c.ask["name"] \in Names /\ c.ask["executor"] \in Deps!Executor
        /\ c.ask["dag"] \in {On, Off}
        /\ \A x \in Deps!Field \ {"name", "executor", "dag"} : c.ask[x] = Same
    BY <2>1, FieldsApart DEF Deps!Nothing
  <2>3. \A x \in Deps!Field : (c.ask[x] # Same) <=> x \in {"name", "executor", "dag"}
    BY <2>2, FieldsApart, ValuesOf, ValuesApart
  <2>4. \A x \in Deps!Field : c.ask[x] \in Deps!Values(x) \union {Same}
    BY <2>2, ValuesOf
  <2>5. \A k \in Key : c.ask[k] = Same
    BY <2>2, FieldsApart
  <2> QED BY <2>1, <2>3, <2>4, <2>5 DEF Asked
<1>7. CASE c \in Deps!CreateOrUpdate
  <2>1. c.kind \in Deps!FileKinds /\ c.ask \in AdminFile /\ Deps!FileFits(c.ask)
    BY <1>7 DEF Deps!CreateOrUpdate
  <2>2. /\ \A x \in Deps!Field : c.ask[x] \in Deps!Values(x) \union {Same}
        /\ \A k \in Key : c.ask[k] \in Deps!Variable \union {Same}
    BY <2>1, CommandsSound DEF Deps!Sound
  <2> QED BY <2>1, <2>2 DEF Asked
<1> QED BY <1>1, <1>2, <1>3, <1>4, <1>5, <1>6, <1>7 DEF Deps!Commands

\* ... and so does one with a file that has found its Deployment.
LEMMA BegunAsks == \A c \in Deps!Begun : Asked(c)
<1> SUFFICES ASSUME NEW c \in Deps!CreateOrUpdate, NEW d \in Deployment
             PROVE  Asked([c EXCEPT !.d = d])
  BY CommandAsks DEF Deps!Begun
<1>1. c \in Deps!Commands
  BY DEF Deps!Commands
<1>2. /\ [c EXCEPT !.d = d].kind = c.kind
      /\ [c EXCEPT !.d = d].ask = c.ask
  BY DEF Deps!CreateOrUpdate, Deps!Command
<1> QED BY <1>1, <1>2, CommandAsks DEF Asked

Fits(f) ==
  IF f["executor"] = Kubernetes THEN \A q \in WorkQueue : f[q] = None
  ELSE \E q \in WorkQueue : f[q] # None

\* A queue after a request, but for the default one Celery is given back.
Kept(r, f, q) == IF r[q] # Same THEN r[q] ELSE IF r["executor"] = Kubernetes THEN None ELSE f[q]

PlainFields == {"name", "executor", "dag", "mail"}

\* What a request makes of a Deployment, field by field.
After(g, r, f) ==
  /\ g = [x \in Deps!Field |-> g[x]]
  /\ \A x \in PlainFields : g[x] = IF r[x] = Same THEN f[x] ELSE r[x]
  /\ \A k \in Key : g[k] = Deps!Resolve(r[k], f[k])
  /\ (r["executor"] = Celery /\ \A q \in WorkQueue : Kept(r, f, q) = None)
       => \A q \in WorkQueue : g[q] = IF q = FirstQueue THEN FirstSize ELSE None
  /\ ~(r["executor"] = Celery /\ \A q \in WorkQueue : Kept(r, f, q) = None)
       => \A q \in WorkQueue : g[q] = Kept(r, f, q)

\* Apply, field by field.
LEMMA ApplyAfter == ASSUME NEW r, NEW f PROVE After(Deps!Apply(r, f), r, f)
<1> DEFINE qs == Deps!Queues(r, f)
           k == [q \in WorkQueue |-> Kept(r, f, q)]
<1>1. qs = IF r["executor"] = Celery /\ \A q \in WorkQueue : k[q] = None
           THEN [k EXCEPT ![FirstQueue] = FirstSize] ELSE k
  BY DEF Deps!Queues, Kept
<1>2. \A q \in WorkQueue : k[q] = Kept(r, f, q)
  OBVIOUS
<1>3. /\ (r["executor"] = Celery /\ \A q \in WorkQueue : Kept(r, f, q) = None)
           => \A q \in WorkQueue : qs[q] = IF q = FirstQueue THEN FirstSize ELSE None
      /\ ~(r["executor"] = Celery /\ \A q \in WorkQueue : Kept(r, f, q) = None)
           => \A q \in WorkQueue : qs[q] = Kept(r, f, q)
  <2> HIDE DEF qs
  <2>1. \A q \in WorkQueue : [k EXCEPT ![FirstQueue] = FirstSize][q]
            = IF q = FirstQueue THEN FirstSize ELSE k[q]
    OBVIOUS
  <2> HIDE DEF k
  <2>2. (\A q \in WorkQueue : k[q] = None) <=> \A q \in WorkQueue : Kept(r, f, q) = None
    BY <1>2
  <2>3. CASE r["executor"] = Celery /\ \A q \in WorkQueue : Kept(r, f, q) = None
    <3>1. qs = [k EXCEPT ![FirstQueue] = FirstSize]
      BY <1>1, <2>2, <2>3
    <3>2. \A q \in WorkQueue : qs[q] = IF q = FirstQueue THEN FirstSize ELSE k[q]
      BY <2>1, <3>1
    <3> QED BY <1>2, <2>3, <3>2
  <2>4. CASE ~(r["executor"] = Celery /\ \A q \in WorkQueue : Kept(r, f, q) = None)
    <3>1. qs = k
      BY <1>1, <2>2, <2>4
    <3> QED BY <1>2, <2>4, <3>1
  <2> QED BY <2>3, <2>4
<1>4. Deps!Apply(r, f) = [x \in Deps!Field |->
        IF x \in Key THEN Deps!Resolve(r[x], f[x])
        ELSE IF x \in WorkQueue THEN qs[x]
        ELSE IF r[x] = Same THEN f[x] ELSE r[x]]
  BY DEF Deps!Apply
<1> HIDE DEF qs, k
<1> DEFINE g == Deps!Apply(r, f)
<1>5. /\ g = [x \in Deps!Field |-> g[x]]
      /\ \A x \in Deps!Field : g[x] =
           IF x \in Key THEN Deps!Resolve(r[x], f[x])
           ELSE IF x \in WorkQueue THEN qs[x]
           ELSE IF r[x] = Same THEN f[x] ELSE r[x]
  BY <1>4
<1> SUFFICES After(g, r, f)
  OBVIOUS
<1> HIDE DEF g
<1> QED BY <1>3, <1>5, FieldsApart DEF After, PlainFields

\* A request that can be sent, of a Deployment or for a new one.
Sent(r) ==
  /\ r["executor"] \in Deps!Executor
  /\ \A x \in PlainFields \union WorkQueue : r[x] \in Deps!Values(x) \union {None, Same}
  /\ \A k \in Key : r[k] \in Deps!VariableShown \union {None}
  /\ r["executor"] = Kubernetes => \A q \in WorkQueue : r[q] \in {None, Same}

\* What comes of a request fits the executor that was sent.
LEMMA AfterFits ==
  ASSUME NEW g, NEW r, NEW f, After(g, r, f), Sent(r)
  PROVE  Fits(g) /\ g["executor"] = r["executor"]
<1>1. g["executor"] = r["executor"]
  BY FieldsApart, ValuesApart, ValuesOf DEF After, Sent, PlainFields
<1>2. CASE r["executor"] = Kubernetes
  BY <1>1, <1>2, FieldsApart DEF After, Sent, Kept, Fits
<1>3. CASE r["executor"] = Celery /\ \A q \in WorkQueue : Kept(r, f, q) = None
  <2>1. FirstSize # None
    BY CommandsSound DEF Deps!Sound
  <2> QED BY <1>1, <1>3, <2>1, FieldsApart DEF After, Fits
<1>4. CASE r["executor"] = Celery /\ \E q \in WorkQueue : Kept(r, f, q) # None
  BY <1>1, <1>4, FieldsApart DEF After, Fits
<1> QED BY <1>1, <1>2, <1>3, <1>4, FieldsApart DEF Sent

\* ... whose hidden values are there for the server to keep.
LEMMA AfterStored ==
  ASSUME NEW g, NEW r, NEW f, After(g, r, f), Sent(r),
         \A x \in PlainFields \union WorkQueue : f[x] \in Deps!Values(x) \union {None},
         \A k \in Key : f[k] \in Deps!Variable \union {None},
         Deps!Accepted(r, f)
  PROVE  OnServer(g)
<1>1. \A x \in PlainFields : g[x] \in Deps!Values(x) \union {None}
  BY DEF After, Sent
<1>2. ASSUME NEW k \in Key PROVE g[k] \in Deps!Variable \union {None}
  <2>1. g[k] = Deps!Resolve(r[k], f[k]) /\ r[k] \in Deps!VariableShown \union {None}
    BY DEF After, Sent
  <2>2. CASE r[k] # None /\ r[k].val = Hidden
    <3>1. f[k] \in Deps!Variable
      BY <2>2 DEF Deps!Accepted
    <3>2. g[k] = [r[k] EXCEPT !.val = f[k].val]
      BY <2>1, <2>2 DEF Deps!Resolve
    <3> QED BY <2>1, <2>2, <3>1, <3>2 DEF Deps!Variable, Deps!VariableShown
  <2>3. CASE ~(r[k] # None /\ r[k].val = Hidden)
    BY <2>1, <2>3 DEF Deps!Resolve, Deps!Variable, Deps!VariableShown
  <2> QED BY <2>2, <2>3
<1>3. ASSUME NEW q \in WorkQueue PROVE g[q] \in Sizes \union {None}
  <2>1. Kept(r, f, q) \in Sizes \union {None}
    BY ValuesOf DEF Kept, Sent
  <2>2. FirstSize \in Sizes
    BY CommandsSound DEF Deps!Sound
  <2> QED BY <2>1, <2>2 DEF After
<1>4. Valued(g)
  BY <1>1, <1>2, <1>3, FieldsApart, ValuesOf, ValuesApart DEF Valued, PlainFields
<1>5. g \in Settings
  <2>1. \A x \in Deps!Field : g[x] \in Holdings
    BY <1>4 DEF Valued, Holdings, Deps!Values
  <2>2. g = [x \in Deps!Field |-> g[x]]
    BY DEF After
  <2> QED BY <2>1, <2>2 DEF Settings
<1> QED BY <1>2, <1>4, <1>5 DEF OnServer

\* What the API shows of a Deployment.
LEMMA ShownOf ==
  ASSUME NEW f, \A k \in Key : f[k] \in Deps!Variable \union {None}
  PROVE  LET s == Deps!Shown(f) IN
         /\ s = [x \in Deps!Field |-> s[x]]
         /\ \A x \in Deps!Field : x \notin Key => s[x] = f[x]
         /\ \A k \in Key : /\ s[k] \in Deps!VariableShown \union {None}
                           /\ s[k] = None <=> f[k] = None
                           /\ f[k] # None => s[k].secret = f[k].secret
                           /\ Deps!Resolve(s[k], f[k]) = f[k]
<1> DEFINE s == Deps!Shown(f)
<1>1. s = [x \in Deps!Field |-> s[x]]
      /\ \A x \in Deps!Field : s[x] = IF x \in Key /\ f[x] # None /\ f[x].secret
                                      THEN [f[x] EXCEPT !.val = Hidden] ELSE f[x]
  BY DEF Deps!Shown
<1> HIDE DEF s
<1>2. ASSUME NEW k \in Key PROVE /\ s[k] \in Deps!VariableShown \union {None}
                                 /\ s[k] = None <=> f[k] = None
                                 /\ f[k] # None => s[k].secret = f[k].secret
                                 /\ Deps!Resolve(s[k], f[k]) = f[k]
  <2>0. k \in Deps!Field
    BY FieldsApart
  <2>1. CASE f[k] # None /\ f[k].secret
    <3>1. s[k] = [f[k] EXCEPT !.val = Hidden] /\ f[k] \in Deps!Variable
      BY <1>1, <2>0, <2>1
    <3>2. s[k] \in Deps!VariableShown /\ s[k].secret = f[k].secret /\ s[k].val = Hidden
      BY <3>1 DEF Deps!Variable, Deps!VariableShown
    <3>3. s[k] # None
      BY <3>2, <2>0, ValuesApart, ValuesOf
    <3>4. [s[k] EXCEPT !.val = f[k].val] = f[k]
      BY <3>1 DEF Deps!Variable
    <3> QED BY <2>1, <3>2, <3>3, <3>4 DEF Deps!Resolve
  <2>2. CASE ~(f[k] # None /\ f[k].secret)
    <3>1. s[k] = f[k]
      BY <1>1, <2>0, <2>2
    <3>2. f[k] # None => f[k].val # Hidden
      BY CommandsSound DEF Deps!Sound, Deps!Variable
    <3> QED BY <3>1, <3>2, ValuesApart DEF Deps!Resolve
  <2> QED BY <2>1, <2>2
<1> QED BY <1>1, <1>2 DEF s

Calls == {"plan", "read", "write", "list", "create", "wait", "delete", "override"}

TypeInv ==
  /\ deps \in [Deployment ->
                  [life : {"unborn", "live", "gone"}, override : {On, None}, f : Settings]]
  /\ pc \in [Admin -> {"idle", "done"} \union Calls]
  /\ cmd \in [Admin -> Deps!Begun \union {None}]
  /\ seen \in [Admin -> Settings]
  /\ raced \in [Admin -> SUBSET Deps!Field]
  /\ \A a \in Admin : Valued(seen[a])

\* The Deployments of the server.
DepInv == \A d \in Deployment :
  OnServer(deps[d].f) /\ deps[d].f["executor"] \in Deps!Executor /\ Fits(deps[d].f)

\* Which command is where.
Places(a) ==
  IF Deps!Resting(a) THEN cmd[a] = None
  ELSE /\ cmd[a] \in Deps!Begun
       /\ pc[a] \in {"plan", "read", "write", "delete", "override"} => cmd[a].d \in Deployment
       /\ pc[a] = "plan" => cmd[a].kind \in OwnKinds
       /\ pc[a] = "read" => cmd[a].kind # "create"
       /\ pc[a] = "write" => cmd[a].kind \in {"update"} \union OwnKinds \union Deps!FileKinds
       /\ pc[a] = "list" => cmd[a].kind \in Deps!FileKinds
       /\ pc[a] = "wait" => cmd[a].kind = "filecreate"
       /\ pc[a] = "create" => cmd[a].kind \in {"create", "filecreate"}

\* The list a command has planned, and at its write all it has read, is what it would
\* plan of the Deployment now, but for what others have changed.
Current(a, x) == seen[a][x] = Deps!Plan(cmd[a], Deps!Shown(deps[cmd[a].d].f))[x]
\* The queue to delete is still there for Update where it was the only one.
Undeleted(a, x) == cmd[a].kind = "qdelete" /\ cmd[a].ask[x] # Same
Known(a, x) == Current(a, x) \/ Undeleted(a, x)
Agrees(a) ==
  /\ pc[a] = "write" => /\ deps[cmd[a].d].life # "unborn"
                        /\ seen[a]["executor"] \in Deps!Executor
                        /\ \A x \in Deps!Field \ raced[a] : Known(a, x)
  /\ pc[a] = "read" /\ cmd[a].kind \in OwnKinds =>
       /\ deps[cmd[a].d].life # "unborn"
       /\ \A x \in Deps!Planned(cmd[a]) \ raced[a] : Known(a, x)

\* ... and it has what the command was given.
HasVariable(c, s) ==
  \A k \in Key : c.ask[k] # Same =>
    /\ s[k] # None
    /\ c.kind = "varcreate" \/ (s[k].val = c.ask[k].val /\ (s[k].secret \/ s[k] = c.ask[k]))
HasQueue(c, s) ==
  \A q \in WorkQueue : c.ask[q] # Same =>
    s[q] = c.ask[q] \/ (c.kind = "qdelete" /\ s[q] # None)
HasAsked(a) ==
  pc[a] \in {"read", "write"} =>
    /\ cmd[a].kind \in Deps!VariableKinds => HasVariable(cmd[a], seen[a])
    /\ cmd[a].kind \in Deps!QueueKinds => HasQueue(cmd[a], seen[a])

DepsInv == TypeInv /\ DepInv /\ \A a \in Admin : Places(a) /\ Agrees(a) /\ HasAsked(a)

\* Plan, field by field.
LEMMA PlanField ==
  ASSUME NEW c, NEW f
  PROVE  /\ Deps!Plan(c, f) = [x \in Deps!Field |-> Deps!Plan(c, f)[x]]
         /\ \A x \in Deps!Field : Deps!Plan(c, f)[x] =
              IF x \in Key /\ c.kind \in Deps!VariableKinds THEN Deps!AddVariable(c, f, x)
              ELSE IF x \in WorkQueue /\ c.kind \in Deps!QueueKinds THEN Deps!EditQueue(c, f, x)
              ELSE f[x]
BY DEF Deps!Plan

\* A plan goes field by field.
LEMMA PlanPointwise ==
  ASSUME NEW c, NEW f, NEW g, NEW x \in Deps!Field, f[x] = g[x]
  PROVE  Deps!Plan(c, Deps!Shown(f))[x] = Deps!Plan(c, Deps!Shown(g))[x]
<1>1. Deps!Shown(f)[x] = Deps!Shown(g)[x]
  BY DEF Deps!Shown
<1> QED BY <1>1 DEF Deps!Plan, Deps!AddVariable, Deps!EditQueue

\* What a plan holds: values, and what the command was given.
LEMMA PlanHolds ==
  ASSUME NEW c, Asked(c), NEW f, OnServer(f)
  PROVE  LET s == Deps!Plan(c, Deps!Shown(f)) IN
         /\ s \in Settings /\ Valued(s)
         /\ c.kind \in Deps!VariableKinds => HasVariable(c, s)
         /\ c.kind \in Deps!QueueKinds => HasQueue(c, s)
<1> DEFINE v == Deps!Shown(f)
           s == Deps!Plan(c, v)
<1>0. \A k \in Key : k \in Deps!Field
  BY FieldsApart
<1>1. /\ \A x \in Deps!Field : x \notin Key => v[x] = f[x]
      /\ \A k \in Key : v[k] \in Deps!VariableShown \union {None}
  BY ShownOf DEF OnServer
<1>2. \A x \in Deps!Field : v[x] \in Deps!Values(x) \union {None}
  BY <1>1, ValuesOf DEF OnServer, Valued
<1> HIDE DEF v
<1>3. /\ s = [x \in Deps!Field |-> s[x]]
      /\ \A x \in Deps!Field : s[x] =
              IF x \in Key /\ c.kind \in Deps!VariableKinds THEN Deps!AddVariable(c, v, x)
              ELSE IF x \in WorkQueue /\ c.kind \in Deps!QueueKinds THEN Deps!EditQueue(c, v, x)
              ELSE v[x]
  BY PlanField
<1> HIDE DEF s
<1>4. ASSUME NEW k \in Key, c.kind \in Deps!VariableKinds
      PROVE  /\ s[k] \in Deps!VariableShown \union {None}
             /\ c.ask[k] # Same => /\ s[k] # None
                                   /\ \/ c.kind = "varcreate"
                                      \/ s[k].val = c.ask[k].val /\ (s[k].secret \/ s[k] = c.ask[k])
  <2>1. s[k] = Deps!AddVariable(c, v, k)
    BY <1>0, <1>3, <1>4
  <2>2. CASE c.ask[k] = Same \/ (v[k] # None /\ c.kind = "varcreate")
    BY <1>1, <2>1, <2>2 DEF Deps!AddVariable
  <2>3. CASE ~(c.ask[k] = Same \/ (v[k] # None /\ c.kind = "varcreate"))
    <3> DEFINE b == c.ask[k].secret \/ (v[k] # None /\ v[k].secret)
    <3>1. s[k] = [c.ask[k] EXCEPT !.secret = b] /\ c.ask[k] \in Deps!Variable
      BY <2>1, <2>3 DEF Deps!AddVariable, Asked
    <3>2. b \in BOOLEAN
      BY <1>1, <3>1 DEF Deps!Variable, Deps!VariableShown
    <3>3. b \/ b = c.ask[k].secret
      BY <3>1, <3>2 DEF Deps!Variable
    <3> HIDE DEF b
    <3>4. s[k] \in Deps!VariableShown /\ s[k].val = c.ask[k].val /\ s[k].secret = b
      BY <3>1, <3>2 DEF Deps!Variable, Deps!VariableShown
    <3>5. b = c.ask[k].secret => s[k] = c.ask[k]
      BY <3>1 DEF Deps!Variable
    <3>6. s[k] # None
      BY <1>0, <3>4, ValuesApart, ValuesOf
    <3> QED BY <3>3, <3>4, <3>5, <3>6
  <2> QED BY <2>2, <2>3
<1>5. ASSUME NEW q \in WorkQueue, c.kind \in Deps!QueueKinds
      PROVE  s[q] \in Sizes \union {None} /\ (c.ask[q] # Same => s[q] = c.ask[q])
  <2>1. s[q] = IF c.ask[q] = Same THEN v[q] ELSE c.ask[q]
    BY <1>3, <1>5, FieldsApart DEF Deps!EditQueue
  <2>2. q \in Deps!Field /\ v[q] \in Sizes \union {None}
    BY <1>2, FieldsApart, ValuesOf
  <2>3. c.ask[q] \in Sizes \union {None, Same}
    BY <1>5, <2>2, ValuesOf DEF Asked
  <2> QED BY <2>1, <2>2, <2>3
<1>6. Valued(s)
  <2> SUFFICES ASSUME NEW x \in Deps!Field PROVE s[x] \in Deps!Values(x) \union {None}
    BY DEF Valued
  <2> QED BY <1>2, <1>3, <1>4, <1>5, ValuesOf
<1>7. s \in Settings
  <2>1. \A x \in Deps!Field : s[x] \in Holdings
    BY <1>6 DEF Valued, Holdings, Deps!Values
  <2> QED BY <1>3, <2>1 DEF Settings
<1> QED BY <1>4, <1>5, <1>6, <1>7 DEF HasVariable, HasQueue, s, v

\* What a step of admin a leaves to be shown.
LEMMA StepKeeps ==
  ASSUME DepsInv, NEW a \in Admin, TypeInv', DepInv', Places(a)', Agrees(a)', HasAsked(a)',
         \A b \in Admin : b # a => /\ pc'[b] = pc[b] /\ cmd'[b] = cmd[b] /\ seen'[b] = seen[b]
                                   /\ raced[b] \subseteq raced'[b],
         \A d \in Deployment : deps[d].life # "unborn" => deps'[d].life # "unborn",
         \A b \in Admin, x \in Deps!Field :
            /\ b # a /\ x \notin raced'[b]
            /\ pc[b] = "write" \/ (pc[b] = "read" /\ cmd[b].kind \in OwnKinds)
            => deps'[cmd[b].d].f[x] = deps[cmd[b].d].f[x]
  PROVE  DepsInv'
<1> SUFFICES ASSUME NEW b \in Admin, b # a PROVE Places(b)' /\ Agrees(b)' /\ HasAsked(b)'
  BY DEF DepsInv
<1>1. Places(b) /\ Agrees(b) /\ HasAsked(b)
  BY DEF DepsInv
<1>2. Places(b)'
  BY <1>1 DEF Places, Deps!Resting
<1>3. HasAsked(b)'
  BY <1>1 DEF HasAsked, HasVariable, HasQueue
<1>4. Agrees(b)'
  <2>1. ASSUME pc[b] = "write" \/ (pc[b] = "read" /\ cmd[b].kind \in OwnKinds)
        PROVE  /\ cmd[b].d \in Deployment /\ deps'[cmd[b].d].life # "unborn"
               /\ \A x \in Deps!Field \ raced'[b] : Known(b, x) => Known(b, x)'
    <3>1. cmd[b].d \in Deployment /\ deps'[cmd[b].d].life # "unborn"
      BY <1>1, <2>1 DEF Places, Agrees, Deps!Resting
    <3>2. ASSUME NEW x \in Deps!Field \ raced'[b], Current(b, x) PROVE Current(b, x)'
      <4>1. deps'[cmd[b].d].f[x] = deps[cmd[b].d].f[x]
        BY <2>1, <3>2
      <4>2. Deps!Plan(cmd[b], Deps!Shown(deps[cmd[b].d].f))[x]
                = Deps!Plan(cmd[b], Deps!Shown(deps'[cmd[b].d].f))[x]
        BY <3>2, <4>1, PlanPointwise
      <4>3. cmd'[b] = cmd[b] /\ seen'[b] = seen[b]
        OBVIOUS
      <4>4. Current(b, x)' <=> seen'[b][x] = Deps!Plan(cmd'[b], Deps!Shown(deps'[cmd'[b].d].f))[x]
        BY DEF Current, Deps!Plan, Deps!Shown, Deps!AddVariable, Deps!EditQueue
      <4> QED BY <3>2, <4>2, <4>3, <4>4 DEF Current
    <3>3. ASSUME NEW x \in Deps!Field, Undeleted(b, x) PROVE Undeleted(b, x)'
      BY <3>3 DEF Undeleted
    <3> QED BY <3>1, <3>2, <3>3 DEF Known
  <2>2. Deps!Planned(cmd[b]) \subseteq Deps!Field
    BY FieldsApart DEF Deps!Planned
  <2>3. pc'[b] = "write" => Agrees(b)'
    BY <1>1, <2>1 DEF Agrees
  <2>4. pc'[b] = "read" => Agrees(b)'
    BY <1>1, <2>1, <2>2 DEF Agrees, Deps!Planned
  <2> QED BY <2>3, <2>4 DEF Agrees
<1> QED BY <1>2, <1>3, <1>4

\* What a command knows that has read nothing.
LEMMA BlankValued == Deps!Blank \in Settings /\ Valued(Deps!Blank)
<1>1. Deps!Blank = [x \in Deps!Field |-> None]
  BY DEF Deps!Blank
<1> QED BY <1>1 DEF Settings, Valued, Holdings

\* A command that ends is nowhere, and knows nothing.
LEMMA EndPlaces ==
  ASSUME TypeInv, NEW a \in Admin, NEW l \in {"idle", "done"}, Deps!End(a, l)
  PROVE  /\ pc' \in [Admin -> {"idle", "done"} \union Calls]
         /\ cmd' \in [Admin -> Deps!Begun \union {None}]
         /\ seen' \in [Admin -> Settings] /\ \A b \in Admin : Valued(seen'[b])
         /\ Places(a)' /\ Agrees(a)' /\ HasAsked(a)'
         /\ pc'[a] = l
         /\ \A b \in Admin : b # a => pc'[b] = pc[b] /\ cmd'[b] = cmd[b] /\ seen'[b] = seen[b]
<1>1. /\ pc'[a] = l /\ cmd'[a] = None /\ seen'[a] = Deps!Blank
      /\ \A b \in Admin : b # a => pc'[b] = pc[b] /\ cmd'[b] = cmd[b] /\ seen'[b] = seen[b]
  BY DEF TypeInv, Deps!End
<1>2. /\ pc' \in [Admin -> {"idle", "done"} \union Calls]
      /\ cmd' \in [Admin -> Deps!Begun \union {None}]
      /\ seen' \in [Admin -> Settings]
  BY BlankValued DEF TypeInv, Deps!End
<1>3. \A b \in Admin : Valued(seen'[b])
  BY <1>1, BlankValued DEF TypeInv
<1>4. Places(a)' /\ Agrees(a)' /\ HasAsked(a)'
  BY <1>1 DEF Places, Agrees, HasAsked, Deps!Resting
<1> QED BY <1>1, <1>2, <1>3, <1>4

\* The user begins a command.
LEMMA BeginKeeps ==
  ASSUME DepsInv, NEW a \in Admin, Deps!Begin(a)
  PROVE  DepsInv'
<1> USE DEF Deps!Begin
<1>1. PICK c \in Deps!Commands :
        pc' = [pc EXCEPT ![a] = Deps!FirstCall(c)] /\ cmd' = [cmd EXCEPT ![a] = c]
  OBVIOUS
<1>2. c \in Deps!Begun /\ Asked(c)
  BY CommandAsks DEF Deps!Begun
<1>3. Deps!FirstCall(c) \in Calls
  BY DEF Deps!FirstCall, Calls
<1>4. TypeInv'
  BY <1>1, <1>2, <1>3 DEF DepsInv, TypeInv
<1>5. DepInv'
  BY DEF DepsInv, DepInv
<1>6. pc'[a] = Deps!FirstCall(c) /\ cmd'[a] = c
  BY <1>1 DEF DepsInv, TypeInv
<1>7. c.kind \notin {"create"} \union Deps!FileKinds => c.d \in Deployment
  BY DEF Deps!Commands, Deps!Update, Deps!VariableModify, Deps!QueueCreateOrUpdate,
         Deps!QueueDelete, Deps!DeleteDeployment, Deps!HibernationOverride,
         Deps!CreateDeployment, Deps!CreateOrUpdate, Deps!Command, Deps!FileKinds
<1>8. Places(a)'
  BY <1>2, <1>3, <1>6, <1>7
  DEF Places, Deps!Resting, Deps!FirstCall, Calls, OwnKinds, Deps!FileKinds, Deps!VariableKinds,
      Deps!QueueKinds
<1>9. pc'[a] = "read" => cmd'[a].kind \notin OwnKinds
  BY <1>6 DEF Deps!FirstCall, OwnKinds
<1>10. pc'[a] # "write"
  BY <1>6 DEF Deps!FirstCall
<1>11. Agrees(a)' /\ HasAsked(a)'
  BY <1>9, <1>10 DEF Agrees, HasAsked, OwnKinds
<1>12. \A b \in Admin : b # a => pc'[b] = pc[b] /\ cmd'[b] = cmd[b]
  BY <1>1 DEF DepsInv, TypeInv
<1> QED BY <1>4, <1>5, <1>8, <1>11, <1>12, StepKeeps

\* A command stops.
LEMMA StopKeeps ==
  ASSUME DepsInv, NEW a \in Admin, Deps!Stop(a)
  PROVE  DepsInv'
<1>1. Deps!End(a, "idle") /\ raced' = [raced EXCEPT ![a] = {}] /\ UNCHANGED deps
  BY DEF Deps!Stop
<1>2. TypeInv' /\ DepInv'
  BY <1>1, EndPlaces DEF DepsInv, TypeInv, DepInv
<1>3. \A b \in Admin : b # a => raced'[b] = raced[b]
  BY <1>1 DEF DepsInv, TypeInv
<1> QED BY <1>1, <1>2, <1>3, EndPlaces, StepKeeps DEF DepsInv

\* The first read of a variable or queue command.
LEMMA PlanListKeeps ==
  ASSUME DepsInv, NEW a \in Admin, Deps!PlanList(a)
  PROVE  DepsInv'
<1> DEFINE c == cmd[a]
           f == deps[c.d].f
           s == Deps!Plan(c, Deps!Shown(f))
<1>1. /\ pc[a] = "plan" /\ c \in Deps!Begun /\ c.d \in Deployment /\ c.kind \in OwnKinds
      /\ deps[c.d].life = "live"
      /\ seen' = [seen EXCEPT ![a] = s]
      /\ pc' = [pc EXCEPT ![a] = "read"]
      /\ UNCHANGED <<deps, cmd, raced>>
  BY DEF DepsInv, Places, Deps!PlanList, Deps!Resting, Deps!Live
<1>2. Asked(c) /\ OnServer(f)
  BY <1>1, BegunAsks DEF DepsInv, DepInv
<1>3. /\ s \in Settings /\ Valued(s)
      /\ c.kind \in Deps!VariableKinds => HasVariable(c, s)
      /\ c.kind \in Deps!QueueKinds => HasQueue(c, s)
  BY <1>2, PlanHolds
<1>4. /\ pc'[a] = "read" /\ seen'[a] = s
      /\ \A b \in Admin : b # a => pc'[b] = pc[b] /\ seen'[b] = seen[b]
  BY <1>1 DEF DepsInv, TypeInv
<1>5. \A x \in Deps!Field : Current(a, x)'
  BY <1>1, <1>4 DEF Current
<1> HIDE DEF s
<1>6. TypeInv' /\ DepInv'
  BY <1>1, <1>3, <1>4 DEF DepsInv, TypeInv, DepInv, Calls
<1>7. Places(a)'
  BY <1>1, <1>4 DEF Places, Deps!Resting, OwnKinds, Deps!VariableKinds, Deps!QueueKinds
<1>8. Agrees(a)'
  <2>1. Deps!Planned(cmd'[a]) \subseteq Deps!Field
    BY FieldsApart DEF Deps!Planned
  <2> QED BY <1>1, <1>4, <1>5, <2>1 DEF Agrees, Known, Deps!Planned
<1>9. HasAsked(a)'
  BY <1>1, <1>3, <1>4 DEF HasAsked, HasVariable, HasQueue
<1> QED BY <1>1, <1>4, <1>6, <1>7, <1>8, <1>9, StepKeeps

\* What a command has after GetDeployment: its list, if it has one, and the rest as read.
LEMMA ReadKeeps ==
  ASSUME DepsInv, NEW a \in Admin, Deps!Read(a)
  PROVE  DepsInv'
<1> DEFINE c == cmd[a]
           v == Deps!Shown(deps[c.d].f)
           kept == IF \E x \in Deps!Planned(c) : seen[a][x] # None
                   THEN Deps!Planned(c) ELSE {}
           l == IF c.kind = "delete" THEN "delete"
                ELSE IF c.kind \in Deps!OverrideKinds THEN "override" ELSE "write"
           s == [x \in Deps!Field |-> IF x \in kept THEN seen[a][x] ELSE v[x]]
<1>1. /\ pc[a] = "read" /\ c \in Deps!Begun /\ c.d \in Deployment /\ c.kind # "create"
      /\ deps[c.d].life = "live"
      /\ pc' = [pc EXCEPT ![a] = l] /\ seen' = [seen EXCEPT ![a] = s]
      /\ raced' = [raced EXCEPT ![a] = @ \intersect kept]
      /\ UNCHANGED <<deps, cmd>>
  BY DEF DepsInv, Places, Deps!Read, Deps!Resting, Deps!Live
<1>2. Asked(c) /\ OnServer(deps[c.d].f) /\ deps[c.d].f["executor"] \in Deps!Executor
  BY <1>1, BegunAsks DEF DepsInv, DepInv
<1>3. /\ \A x \in Deps!Field : x \notin Key => v[x] = deps[c.d].f[x]
      /\ \A k \in Key : v[k] \in Deps!VariableShown \union {None}
  BY <1>2, ShownOf DEF OnServer
<1>4. \A x \in Deps!Field : v[x] \in Deps!Values(x) \union {None}
  BY <1>2, <1>3, ValuesOf DEF OnServer, Valued
<1>5. /\ l \in {"delete", "override", "write"}
      /\ l = "write" => c.kind \in {"update"} \union OwnKinds \union Deps!FileKinds
  BY <1>1, <1>2 DEF Asked, CommandKinds
<1>6. kept \subseteq Deps!Field \ PlainFields
  BY FieldsApart DEF Deps!Planned, PlainFields
<1>7. pc'[a] = l /\ seen'[a] = s /\ raced'[a] = raced[a] \intersect kept /\ cmd'[a] = c
  BY <1>1 DEF DepsInv, TypeInv
<1>8. \A b \in Admin : b # a => pc'[b] = pc[b] /\ seen'[b] = seen[b] /\ raced'[b] = raced[b]
  BY <1>1 DEF DepsInv, TypeInv
<1>9. HasAsked(a) /\ Agrees(a) /\ Valued(seen[a]) /\ raced[a] \subseteq Deps!Field
  BY DEF DepsInv, TypeInv
\* A list that is dropped because it is empty asked for nothing, or for a deletion.
<1>10. \A x \in Deps!Field : x \notin kept =>
         /\ Deps!Plan(c, v)[x] = v[x] \/ Undeleted(a, x)
         /\ x \in Key /\ c.kind \in Deps!VariableKinds => c.ask[x] = Same
         /\ x \in WorkQueue /\ c.kind \in Deps!QueueKinds => c.ask[x] = Same \/ c.ask[x] = None
  <2> SUFFICES ASSUME NEW x \in Deps!Field, x \notin kept
               PROVE  /\ Deps!Plan(c, v)[x] = v[x] \/ Undeleted(a, x)
                      /\ x \in Key /\ c.kind \in Deps!VariableKinds => c.ask[x] = Same
                      /\ x \in WorkQueue /\ c.kind \in Deps!QueueKinds =>
                           c.ask[x] = Same \/ c.ask[x] = None
    OBVIOUS
  <2>1. c.kind \in Deps!VariableKinds => c.kind \notin Deps!QueueKinds
    BY DEF Deps!VariableKinds, Deps!QueueKinds
  <2>2. /\ x \in WorkQueue /\ c.kind \in Deps!QueueKinds => c.ask[x] = Same \/ c.ask[x] = None
        /\ c.kind \in Deps!QueueKinds /\ c.ask[x] = None => Undeleted(a, x)
    <3> SUFFICES ASSUME c.kind \in Deps!QueueKinds
                 PROVE  /\ x \in WorkQueue => c.ask[x] = Same \/ c.ask[x] = None
                        /\ c.ask[x] = None => Undeleted(a, x)
      OBVIOUS
    <3>1. x \in WorkQueue => seen[a][x] = None
      BY <2>1 DEF Deps!Planned
    <3>2. HasQueue(c, seen[a])
      BY <1>1, <1>9 DEF HasAsked
    <3>3. c.kind # "qdelete" => c.ask[x] # None
      BY <1>2, ValuesApart, FieldsApart DEF Asked
    <3> QED BY <3>1, <3>2, <3>3, FieldsApart DEF HasQueue, Undeleted
  <2>3. x \in Key /\ c.kind \in Deps!VariableKinds => c.ask[x] = Same
    <3> SUFFICES ASSUME x \in Key, c.kind \in Deps!VariableKinds PROVE c.ask[x] = Same
      OBVIOUS
    <3>1. \A k \in Key : seen[a][k] = None
      BY <2>1 DEF Deps!Planned
    <3> QED BY <1>1, <1>9, <3>1 DEF HasAsked, HasVariable
  <2> HIDE DEF v, kept
  <2>4. Deps!Plan(c, v)[x] =
          IF x \in Key /\ c.kind \in Deps!VariableKinds THEN Deps!AddVariable(c, v, x)
          ELSE IF x \in WorkQueue /\ c.kind \in Deps!QueueKinds THEN Deps!EditQueue(c, v, x)
          ELSE v[x]
    BY PlanField
  <2> QED BY <2>2, <2>3, <2>4 DEF Deps!AddVariable, Deps!EditQueue
<1>11. kept # {} => c.kind \in OwnKinds /\ kept = Deps!Planned(c)
  BY DEF Deps!Planned, OwnKinds
<1> HIDE DEF kept, l
<1>12. /\ s \in Settings /\ Valued(s)
       /\ \A x \in Deps!Field : s[x] = IF x \in kept THEN seen[a][x] ELSE v[x]
  <2>1. \A x \in Deps!Field : s[x] = IF x \in kept THEN seen[a][x] ELSE v[x]
    OBVIOUS
  <2>2. Valued(s)
    BY <1>4, <1>9, <2>1 DEF Valued
  <2>3. \A x \in Deps!Field : s[x] \in Holdings
    BY <2>2 DEF Valued, Holdings, Deps!Values
  <2>4. s \in Settings
    BY <2>3 DEF Settings
  <2> QED BY <2>1, <2>2, <2>4
<1> HIDE DEF s
<1>13. TypeInv' /\ DepInv'
  BY <1>1, <1>5, <1>7, <1>8, <1>12 DEF DepsInv, TypeInv, DepInv, Calls
<1>14. Places(a)'
  BY <1>1, <1>5, <1>7 DEF Places, Deps!Resting
<1>15. \A x \in Deps!Field \ raced'[a] : Known(a, x)'
  <2> SUFFICES ASSUME NEW x \in Deps!Field, x \notin raced'[a]
               PROVE  s[x] = Deps!Plan(c, v)[x] \/ Undeleted(a, x)
    BY <1>1, <1>7 DEF Known, Current, Undeleted
  <2>1. CASE x \in kept
    <3>1. x \notin raced[a] /\ x \in Deps!Planned(c) /\ c.kind \in OwnKinds
      BY <1>7, <1>11, <2>1
    <3>2. Current(a, x) \/ Undeleted(a, x)
      BY <1>1, <1>9, <3>1 DEF Agrees, Known
    <3> QED BY <1>12, <2>1, <3>2 DEF Current
  <2>2. CASE x \notin kept
    BY <1>10, <1>12, <2>2
  <2> QED BY <2>1, <2>2
<1>16. s["executor"] \in Deps!Executor
  BY <1>2, <1>3, <1>6, <1>12, FieldsApart DEF PlainFields
<1>17. Agrees(a)'
  BY <1>1, <1>5, <1>7, <1>15, <1>16 DEF Agrees
<1>18. HasAsked(a)'
  <2>1. c.kind \in Deps!VariableKinds => HasVariable(c, s)
    <3> SUFFICES ASSUME c.kind \in Deps!VariableKinds, NEW k \in Key, c.ask[k] # Same
                 PROVE  s[k] = seen[a][k]
      BY <1>1, <1>9 DEF HasAsked, HasVariable
    <3>1. k \in Deps!Field /\ k \in kept
      BY <1>10, FieldsApart
    <3> QED BY <1>12, <3>1
  <2>2. c.kind \in Deps!QueueKinds => HasQueue(c, s)
    <3> SUFFICES ASSUME c.kind \in Deps!QueueKinds, NEW q \in WorkQueue, c.ask[q] # Same
                 PROVE  s[q] = c.ask[q] \/ (c.kind = "qdelete" /\ s[q] # None)
      BY DEF HasQueue
    <3>1. q \in Deps!Field
      BY FieldsApart
    <3>2. CASE q \in kept
      BY <1>1, <1>9, <1>12, <3>1, <3>2 DEF HasAsked, HasQueue
    <3>3. CASE q \notin kept
      <4>1. c.ask[q] = None
        BY <1>10, <3>1, <3>3
      <4>2. c.kind = "qdelete"
        BY <1>2, <4>1, ValuesApart, FieldsApart DEF Asked
      <4> QED BY <4>1, <4>2
    <3> QED BY <3>2, <3>3
  <2> QED BY <1>7, <2>1, <2>2 DEF HasAsked, HasVariable, HasQueue
<1> QED BY <1>1, <1>8, <1>13, <1>14, <1>17, <1>18, StepKeeps

\* A command with a file finds its Deployment, or that there is none.
LEMMA ListKeeps ==
  ASSUME DepsInv, NEW a \in Admin, Deps!List(a) \/ Deps!Relist(a)
  PROVE  DepsInv'
<1>1. /\ pc[a] \in {"list", "wait"} /\ cmd[a] \in Deps!Begun /\ cmd[a].kind \in Deps!FileKinds
      /\ pc[a] = "wait" => cmd[a].kind = "filecreate"
      /\ UNCHANGED <<deps, seen, raced>>
  BY DEF DepsInv, Places, Deps!List, Deps!Relist, Deps!Resting, Deps!FileKinds
<1>2. \/ /\ pc' = [pc EXCEPT ![a] = "create"] /\ cmd' = cmd /\ cmd[a].kind = "filecreate"
      \/ \E d \in Deployment :
           pc' = [pc EXCEPT ![a] = "read"] /\ cmd' = [cmd EXCEPT ![a].d = d]
  BY DEF Deps!List, Deps!Relist, Deps!Named, Deps!Live
<1>3. \A d \in Deployment : [cmd[a] EXCEPT !.d = d] \in Deps!Begun
                            /\ [cmd[a] EXCEPT !.d = d].d = d
                            /\ [cmd[a] EXCEPT !.d = d].kind = cmd[a].kind
  <2>1. PICK c \in Deps!CreateOrUpdate :
          cmd[a] = c \/ \E e \in Deployment : cmd[a] = [c EXCEPT !.d = e]
    <3>1. cmd[a] \in Deps!Commands => cmd[a] \in Deps!CreateOrUpdate
      BY <1>1 DEF Deps!Commands, Deps!Update, Deps!VariableModify, Deps!QueueCreateOrUpdate,
         Deps!QueueDelete, Deps!DeleteDeployment, Deps!HibernationOverride,
         Deps!CreateDeployment, Deps!CreateOrUpdate, Deps!Command, Deps!FileKinds
    <3> QED BY <1>1, <3>1 DEF Deps!Begun
  <2>2. c = [kind |-> c.kind, d |-> c.d, ask |-> c.ask]
    BY DEF Deps!CreateOrUpdate, Deps!Command
  <2>3. \A d \in Deployment : [cmd[a] EXCEPT !.d = d] = [c EXCEPT !.d = d] /\ cmd[a].kind = c.kind
    BY <2>1, <2>2
  <2> QED BY <2>1, <2>2, <2>3 DEF Deps!Begun
<1>4. CASE pc' = [pc EXCEPT ![a] = "create"] /\ cmd' = cmd /\ cmd[a].kind = "filecreate"
  <2>1. pc'[a] = "create" /\ cmd'[a] = cmd[a] /\ \A b \in Admin : b # a => pc'[b] = pc[b]
    BY <1>4 DEF DepsInv, TypeInv
  <2>2. TypeInv' /\ DepInv'
    BY <1>1, <1>4 DEF DepsInv, TypeInv, DepInv, Calls
  <2>3. Places(a)' /\ Agrees(a)' /\ HasAsked(a)'
    BY <1>1, <1>4, <2>1 DEF Places, Agrees, HasAsked, Deps!Resting
  <2> QED BY <1>1, <1>4, <2>1, <2>2, <2>3, StepKeeps
<1>5. ASSUME NEW d \in Deployment, pc' = [pc EXCEPT ![a] = "read"], cmd' = [cmd EXCEPT ![a].d = d]
      PROVE  DepsInv'
  <2> DEFINE e == [cmd[a] EXCEPT !.d = d]
  <2>1. e \in Deps!Begun /\ e.d = d /\ e.kind = cmd[a].kind
    BY <1>3
  <2>2. cmd' = [cmd EXCEPT ![a] = e]
    BY <1>5 DEF DepsInv, TypeInv
  <2> HIDE DEF e
  <2>3. /\ pc'[a] = "read" /\ cmd'[a] = e
        /\ \A b \in Admin : b # a => pc'[b] = pc[b] /\ cmd'[b] = cmd[b]
    BY <1>5, <2>2 DEF DepsInv, TypeInv
  <2>4. TypeInv' /\ DepInv'
    BY <1>1, <1>5, <2>1, <2>2 DEF DepsInv, TypeInv, DepInv, Calls
  <2>5. Places(a)' /\ Agrees(a)' /\ HasAsked(a)'
    BY <1>1, <2>1, <2>3
    DEF Places, Agrees, HasAsked, Deps!Resting, OwnKinds, Deps!FileKinds, Deps!VariableKinds,
        Deps!QueueKinds
  <2> QED BY <1>1, <2>3, <2>4, <2>5, StepKeeps
<1> QED BY <1>2, <1>4, <1>5

\* What is sent is filled from a read Deployment, or from a file that fits.
LEMMA FilledField ==
  ASSUME NEW c, NEW d, NEW s
  PROVE  \A x \in Deps!Field : Deps!Filled(c, d, s)[x] =
           IF x \in WorkQueue THEN Deps!QueuesForExecutor(c, d, s["executor"], x, s[x])
           ELSE IF x = "mail" THEN Same
           ELSE IF x \in Key \/ c.ask[x] = Same THEN s[x] ELSE c.ask[x]
BY DEF Deps!Filled

\* Update sends a request that fits.
LEMMA FilledSent ==
  ASSUME NEW c, Asked(c), c.kind \in {"update"} \union OwnKinds, NEW d,
         NEW s \in Settings, Valued(s), s["executor"] \in Deps!Executor
  PROVE  Sent(Deps!Filled(c, d, s))
<1> DEFINE r == Deps!Filled(c, d, s)
<1>1. \A x \in Deps!Field : r[x] =
           IF x \in WorkQueue THEN Deps!QueuesForExecutor(c, d, s["executor"], x, s[x])
           ELSE IF x = "mail" THEN Same
           ELSE IF x \in Key \/ c.ask[x] = Same THEN s[x] ELSE c.ask[x]
  BY FilledField
<1> SUFFICES Sent(r)
  OBVIOUS
<1> HIDE DEF r
<1>2. \A x \in PlainFields : c.ask[x] \in Deps!Values(x) \union {Same}
  BY FieldsApart DEF Asked, PlainFields, OwnKinds, Deps!VariableKinds, Deps!QueueKinds
<1>3. \A x \in PlainFields :
        r[x] = IF x = "mail" THEN Same ELSE IF c.ask[x] = Same THEN s[x] ELSE c.ask[x]
  BY <1>1, FieldsApart DEF PlainFields
<1>4. \A x \in PlainFields : r[x] \in Deps!Values(x) \union {None, Same}
  BY <1>2, <1>3, FieldsApart DEF Valued, PlainFields
<1>5. r["executor"] \in Deps!Executor
      /\ r["executor"] = IF c.ask["executor"] = Same THEN s["executor"] ELSE c.ask["executor"]
  BY <1>2, <1>3, ValuesOf DEF PlainFields
<1>6. \A k \in Key : r[k] \in Deps!VariableShown \union {None}
  BY <1>1, FieldsApart, ValuesOf DEF Valued
<1>7. ASSUME NEW q \in WorkQueue
      PROVE  /\ r[q] \in Sizes \union {None, Same}
             /\ r["executor"] = Kubernetes => r[q] = Same
  <2>1. q \in Deps!Field /\ s[q] \in Sizes \union {None} /\ FirstSize \in Sizes
    BY FieldsApart, ValuesOf, CommandsSound DEF Valued, Deps!Sound
  <2>2. r[q] = Deps!QueuesForExecutor(c, d, s["executor"], q, s[q])
    BY <1>1, <2>1
  <2> QED BY <1>5, <2>1, <2>2 DEF Deps!QueuesForExecutor
<1> QED BY <1>4, <1>5, <1>6, <1>7, ValuesOf DEF Sent

\* FromFile, field by field.
LEMMA FromFileField ==
  ASSUME NEW c, NEW s
  PROVE  \A x \in Deps!Field : Deps!FromFile(c, s)[x] =
           IF x = "dag" /\ c.ask[x] = Same THEN s[x]
           ELSE IF c.ask[x] = Same /\ x \in Deps!Removed(c) THEN None ELSE c.ask[x]
BY DEF Deps!FromFile

\* A file sends a request that fits.
LEMMA FromFileSent ==
  ASSUME NEW c, Asked(c), c.kind \in Deps!FileKinds,
         NEW s \in Settings, Valued(s)
  PROVE  Sent(Deps!FromFile(c, s))
<1> DEFINE r == Deps!FromFile(c, s)
<1>1. \A x \in Deps!Field : r[x] =
           IF x = "dag" /\ c.ask[x] = Same THEN s[x]
           ELSE IF c.ask[x] = Same /\ x \in Deps!Removed(c) THEN None ELSE c.ask[x]
  BY FromFileField
<1> SUFFICES Sent(r)
  OBVIOUS
<1> HIDE DEF r
<1>2. /\ \A x \in Deps!Field : c.ask[x] \in Deps!Values(x) \union {Same}
      /\ \A k \in Key : c.ask[k] \in Deps!Variable \union {Same}
      /\ Deps!FileFits(c.ask)
  BY DEF Asked, Deps!FileKinds
<1>3. \A x \in PlainFields \union WorkQueue : r[x] \in Deps!Values(x) \union {None, Same}
  BY <1>1, <1>2, FieldsApart DEF Valued, PlainFields
<1>4. r["executor"] = c.ask["executor"] /\ r["executor"] \in Deps!Executor
  BY <1>1, <1>2, FieldsApart, ValuesOf DEF Deps!FileFits, Deps!Complete
<1>5. \A k \in Key : r[k] \in Deps!VariableShown \union {None}
  <2>1. \A k \in Key : k \in Deps!Field /\ k # "dag" /\ k \in Deps!Removed(c)
    BY FieldsApart DEF Deps!Removed
  <2> QED BY <1>1, <1>2, <2>1, ValuesApart
<1>6. r["executor"] = Kubernetes => \A q \in WorkQueue : r[q] \in {None, Same}
  BY <1>1, <1>2, <1>4, FieldsApart DEF Deps!FileFits, Deps!Complete
<1> QED BY <1>3, <1>4, <1>5, <1>6 DEF Sent

\* At its write every command sends one.
LEMMA RequestSent ==
  ASSUME DepsInv, NEW a \in Admin, pc[a] = "write"
  PROVE  /\ Sent(Deps!Request(cmd[a], cmd[a].d, seen[a]))
         /\ Asked(cmd[a]) /\ cmd[a].d \in Deployment /\ cmd[a] # None
         /\ cmd[a].kind \in {"update"} \union OwnKinds \union Deps!FileKinds
<1>1. /\ cmd[a] \in Deps!Begun /\ cmd[a].d \in Deployment
      /\ cmd[a].kind \in {"update"} \union OwnKinds \union Deps!FileKinds
      /\ seen[a] \in Settings /\ Valued(seen[a]) /\ seen[a]["executor"] \in Deps!Executor
  BY DEF DepsInv, TypeInv, Places, Agrees, Deps!Resting
<1>2. Asked(cmd[a])
  BY <1>1, BegunAsks
<1>3. cmd[a] # None
  BY <1>1, CommandsSound DEF Deps!Sound
<1>4. Sent(Deps!Request(cmd[a], cmd[a].d, seen[a]))
  <2>1. CASE cmd[a].kind \in Deps!FileKinds
    BY <1>1, <1>2, <2>1, FromFileSent DEF Deps!Request
  <2>2. CASE cmd[a].kind \notin Deps!FileKinds
    BY <1>1, <1>2, <2>2, FilledSent DEF Deps!Request
  <2> QED BY <2>1, <2>2
<1> QED BY <1>1, <1>2, <1>3, <1>4

\* A write takes the others' knowledge back, and says so in raced.
LEMMA WriteKeeps ==
  ASSUME DepsInv, NEW a \in Admin, Deps!Write(a)
  PROVE  DepsInv'
<1> DEFINE d == cmd[a].d
           r == Deps!Request(cmd[a], d, seen[a])
           f == deps[d].f
           g == Deps!Apply(r, f)
<1>1. /\ pc[a] = "write" /\ deps[d].life = "live" /\ Deps!Accepted(r, f)
      /\ deps' = [deps EXCEPT ![d].f = g]
      /\ raced' = [b \in Admin |->
             IF b = a THEN {}
             ELSE IF Deps!Knows(b, d) THEN raced[b] \union {x \in Deps!Field : f[x] # g[x]}
             ELSE raced[b]]
      /\ Deps!End(a, "done")
  BY DEF Deps!Write, Deps!Live
<1>2. d \in Deployment /\ Sent(r)
  BY <1>1, RequestSent
<1>3. OnServer(f)
  BY <1>2 DEF DepsInv, DepInv
<1>4. After(g, r, f)
  BY ApplyAfter
<1> HIDE DEF r, g
<1>5. OnServer(g)
  <2>1. \A x \in PlainFields \union WorkQueue : f[x] \in Deps!Values(x) \union {None}
    BY <1>3, FieldsApart DEF OnServer, Valued, PlainFields
  <2> QED BY <1>1, <1>2, <1>3, <1>4, <2>1, AfterStored DEF OnServer
<1>6. Fits(g) /\ g["executor"] \in Deps!Executor
  BY <1>2, <1>4, AfterFits DEF Sent
<1>7. /\ deps' \in [Deployment ->
           [life : {"unborn", "live", "gone"}, override : {On, None}, f : Settings]]
      /\ deps'[d].f = g /\ \A e \in Deployment : deps'[e].life = deps[e].life
      /\ \A e \in Deployment : e # d => deps'[e] = deps[e]
  BY <1>1, <1>2, <1>5 DEF DepsInv, TypeInv, OnServer
<1>8. raced' \in [Admin -> SUBSET Deps!Field]
  BY <1>1 DEF DepsInv, TypeInv
<1>9. TypeInv' /\ DepInv'
  BY <1>1, <1>5, <1>6, <1>7, <1>8, EndPlaces DEF DepsInv, TypeInv, DepInv
<1>10. ASSUME NEW b \in Admin, NEW x \in Deps!Field, b # a, x \notin raced'[b],
              pc[b] = "write" \/ (pc[b] = "read" /\ cmd[b].kind \in OwnKinds)
       PROVE  deps'[cmd[b].d].f[x] = deps[cmd[b].d].f[x]
  <2>1. cmd[b] \in Deps!Begun /\ cmd[b].d \in Deployment
    BY <1>10 DEF DepsInv, Places, Deps!Resting
  <2>2. cmd[b] # None
    BY <2>1, CommandsSound DEF Deps!Sound
  <2>3. CASE cmd[b].d = d
    <3>1. Deps!Knows(b, d)
      BY <1>10, <2>2, <2>3 DEF Deps!Knows
    <3>2. raced'[b] = raced[b] \union {y \in Deps!Field : f[y] # g[y]}
      BY <1>1, <1>10, <3>1
    <3> QED BY <1>7, <1>10, <2>3, <3>2
  <2>4. CASE cmd[b].d # d
    BY <1>7, <2>1, <2>4
  <2> QED BY <2>3, <2>4
<1>11. \A b \in Admin : b # a => raced[b] \subseteq raced'[b]
  BY <1>1
<1>12. \A e \in Deployment : deps[e].life # "unborn" => deps'[e].life # "unborn"
  BY <1>7
<1> HIDE DEF f, d
<1> QED BY <1>1, <1>9, <1>10, <1>11, <1>12, EndPlaces, StepKeeps DEF DepsInv

\* The fields of a request to create.
CreateSends(c, d) == Deps!Creation(c, d)

\* A request to create can be sent.
LEMMA CreateSent ==
  ASSUME NEW c, NEW d, Asked(c), c.kind \in {"create", "filecreate"}
  PROVE  /\ Sent(CreateSends(c, d))
         /\ \A k \in Key : CreateSends(c, d)[k] = None
         /\ Deps!Accepted(CreateSends(c, d), Deps!Blank)
<1> DEFINE r == CreateSends(c, d)
<1>1. \A x \in Deps!Field : r[x] = IF x = "dag" /\ c.ask[x] = Same THEN (IF d \in OnCluster THEN Off ELSE On)
                              ELSE IF x \in Key \union {"mail"} \/ c.ask[x] = Same THEN None
                              ELSE c.ask[x]
  BY DEF CreateSends, Deps!Creation
<1> SUFFICES Sent(r) /\ (\A k \in Key : r[k] = None) /\ Deps!Accepted(r, Deps!Blank)
  OBVIOUS
<1> HIDE DEF r
<1>2. /\ \A x \in Deps!Field : c.ask[x] \in Deps!Values(x) \union {Same}
      /\ c.kind = "create" => c.ask["executor"] # Same /\ \A q \in WorkQueue : c.ask[q] = Same
      /\ c.kind = "filecreate" => Deps!FileFits(c.ask)
  BY FieldsApart DEF Asked, Deps!FileKinds
<1>3. \A k \in Key : r[k] = None
  BY <1>1, FieldsApart
<1>4. \A x \in PlainFields \union WorkQueue : r[x] \in Deps!Values(x) \union {None, Same}
  BY <1>1, <1>2, FieldsApart, ValuesOf DEF PlainFields
<1>5. r["executor"] = c.ask["executor"] /\ r["executor"] \in Deps!Executor
  BY <1>1, <1>2, FieldsApart, ValuesOf DEF Deps!FileFits, Deps!Complete
<1>6. r["executor"] = Kubernetes => \A q \in WorkQueue : r[q] \in {None, Same}
  BY <1>1, <1>2, <1>5, FieldsApart DEF Deps!FileFits, Deps!Complete
<1> QED BY <1>3, <1>4, <1>5, <1>6 DEF Sent, Deps!Accepted

\* Nothing is there yet.
LEMMA BlankField == \A x \in Deps!Field : Deps!Blank[x] = None
BY DEF Deps!Blank

\* A Deployment that is made from nothing fits.
LEMMA MadeStored ==
  ASSUME NEW r, Sent(r), Deps!Accepted(r, Deps!Blank)
  PROVE  LET g == Deps!Apply(r, Deps!Blank) IN
         OnServer(g) /\ Fits(g) /\ g["executor"] \in Deps!Executor
<1> DEFINE g == Deps!Apply(r, Deps!Blank)
<1>1. After(g, r, Deps!Blank)
  BY ApplyAfter
<1> HIDE DEF g
<1>2. /\ \A x \in PlainFields \union WorkQueue : Deps!Blank[x] \in Deps!Values(x) \union {None}
      /\ \A k \in Key : Deps!Blank[k] \in Deps!Variable \union {None}
  BY BlankField, FieldsApart DEF PlainFields
<1>3. OnServer(g)
  BY <1>1, <1>2, AfterStored
<1>4. Fits(g) /\ g["executor"] \in Deps!Executor
  BY <1>1, AfterFits DEF Sent
<1> QED BY <1>3, <1>4 DEF g

\* A Deployment is made.
LEMMA CreateKeeps ==
  ASSUME DepsInv, NEW a \in Admin, Deps!Create(a)
  PROVE  DepsInv'
<1>1. pc[a] = "create" /\ cmd[a] \in Deps!Begun /\ cmd[a].kind \in {"create", "filecreate"}
  BY DEF DepsInv, Places, Deps!Create, Deps!Resting
<1>2. PICK d \in Deployment :
        /\ deps[d].life = "unborn"
        /\ deps' = [deps EXCEPT ![d] =
              [life |-> "live", override |-> None,
               f |-> Deps!Apply(CreateSends(cmd[a], d), Deps!Blank)]]
  BY DEF Deps!Create, CreateSends
<1> DEFINE g == Deps!Apply(CreateSends(cmd[a], d), Deps!Blank)
<1>10. deps' = [deps EXCEPT ![d] = [life |-> "live", override |-> None, f |-> g]]
  BY <1>2
<1>3. OnServer(g) /\ Fits(g) /\ g["executor"] \in Deps!Executor
  BY <1>1, BegunAsks, CreateSent, MadeStored
<1> HIDE DEF g
<1>4. /\ deps' \in [Deployment ->
           [life : {"unborn", "live", "gone"}, override : {On, None}, f : Settings]]
      /\ deps'[d] = [life |-> "live", override |-> None, f |-> g]
      /\ \A e \in Deployment : e # d => deps'[e] = deps[e]
  BY <1>10, <1>3 DEF DepsInv, TypeInv, OnServer
<1>5. DepInv'
  BY <1>3, <1>4 DEF DepsInv, DepInv
<1>6. UNCHANGED raced
  BY DEF Deps!Create
<1>7. /\ TypeInv' /\ Places(a)' /\ Agrees(a)' /\ HasAsked(a)'
      /\ \A b \in Admin : b # a => pc'[b] = pc[b] /\ cmd'[b] = cmd[b] /\ seen'[b] = seen[b]
  <2>1. CASE Deps!NeedsUpdate(cmd[a])
    <3>1. pc' = [pc EXCEPT ![a] = "wait"] /\ UNCHANGED <<cmd, seen>>
      BY <2>1 DEF Deps!Create
    <3>2. pc'[a] = "wait" /\ \A b \in Admin : b # a => pc'[b] = pc[b]
      BY <3>1 DEF DepsInv, TypeInv
    <3>3. TypeInv'
      BY <1>4, <1>6, <3>1 DEF DepsInv, TypeInv, Calls
    <3>4. Places(a)' /\ Agrees(a)' /\ HasAsked(a)'
      BY <1>1, <2>1, <3>1, <3>2 DEF Places, Agrees, HasAsked, Deps!Resting, Deps!NeedsUpdate
    <3> QED BY <3>1, <3>2, <3>3, <3>4
  <2>2. CASE ~Deps!NeedsUpdate(cmd[a])
    <3>1. Deps!End(a, "done")
      BY <2>2 DEF Deps!Create
    <3> QED BY <1>4, <1>6, <3>1, EndPlaces DEF DepsInv, TypeInv
  <2> QED BY <2>1, <2>2
<1>8. \A e \in Deployment : deps[e].life # "unborn" => deps'[e].life # "unborn"
  BY <1>4
<1>9. ASSUME NEW b \in Admin, NEW x \in Deps!Field,
             pc[b] = "write" \/ (pc[b] = "read" /\ cmd[b].kind \in OwnKinds)
      PROVE  deps'[cmd[b].d].f[x] = deps[cmd[b].d].f[x]
  <2>1. cmd[b].d \in Deployment /\ deps[cmd[b].d].life # "unborn"
    BY <1>9 DEF DepsInv, Places, Agrees, Deps!Resting
  <2> QED BY <1>2, <1>4, <2>1
<1> QED BY <1>5, <1>6, <1>7, <1>8, <1>9, StepKeeps

\* A Deployment is deleted or put to sleep: its fields stay.
LEMMA LifeKeeps ==
  ASSUME DepsInv, NEW a \in Admin, Deps!Delete(a) \/ Deps!Override(a)
  PROVE  DepsInv'
<1>1. /\ pc[a] \in {"delete", "override"} /\ cmd[a].d \in Deployment
      /\ deps[cmd[a].d].life = "live"
      /\ Deps!End(a, "done") /\ raced' = [raced EXCEPT ![a] = {}]
  BY DEF Deps!Delete, Deps!Override, Deps!Live
<1>2. \/ deps' = [deps EXCEPT ![cmd[a].d].life = "gone"]
      \/ \E o \in {On, None} : deps' = [deps EXCEPT ![cmd[a].d].override = o]
  BY DEF Deps!Delete, Deps!Override
<1>3. /\ deps' \in [Deployment ->
           [life : {"unborn", "live", "gone"}, override : {On, None}, f : Settings]]
      /\ \A e \in Deployment : deps'[e].f = deps[e].f
                               /\ (deps[e].life # "unborn" => deps'[e].life # "unborn")
  <2>1. CASE deps' = [deps EXCEPT ![cmd[a].d].life = "gone"]
    BY <1>1, <2>1 DEF DepsInv, TypeInv
  <2>2. ASSUME NEW o \in {On, None}, deps' = [deps EXCEPT ![cmd[a].d].override = o]
        PROVE  <1>3
    BY <1>1, <2>2 DEF DepsInv, TypeInv
  <2> QED BY <1>2, <2>1, <2>2
<1>4. DepInv'
  BY <1>3 DEF DepsInv, DepInv
<1>5. raced' \in [Admin -> SUBSET Deps!Field] /\ \A b \in Admin : b # a => raced'[b] = raced[b]
  BY <1>1 DEF DepsInv, TypeInv
<1>6. TypeInv'
  BY <1>1, <1>3, <1>5, EndPlaces DEF DepsInv, TypeInv
<1>7. ASSUME NEW b \in Admin, NEW x \in Deps!Field,
             pc[b] = "write" \/ (pc[b] = "read" /\ cmd[b].kind \in OwnKinds)
      PROVE  deps'[cmd[b].d].f[x] = deps[cmd[b].d].f[x]
  BY <1>3, <1>7 DEF DepsInv, Places, Deps!Resting
<1> QED BY <1>1, <1>3, <1>4, <1>5, <1>6, <1>7, EndPlaces, StepKeeps DEF DepsInv

\* The Deployments that are there at first were made by such requests.
LEMMA InitEstablishes == Deps!Init => DepsInv
<1> SUFFICES ASSUME Deps!Init PROVE DepsInv
  OBVIOUS
<1> USE DEF Deps!Init
<1>1. ASSUME NEW n \in Names, NEW e \in Deps!Executor
      PROVE  LET g == Deps!Apply(Deps!Bare(n, e), Deps!Blank) IN
             OnServer(g) /\ Fits(g) /\ g["executor"] \in Deps!Executor
  <2> DEFINE r == Deps!Bare(n, e)
  <2>1. \A x \in Deps!Field : r[x] =
          IF x = "name" THEN n ELSE IF x = "executor" THEN e ELSE IF x = "dag" THEN Off ELSE None
    BY FieldsApart DEF Deps!Bare, Deps!Blank
  <2> HIDE DEF r
  <2>2. Sent(r)
    BY <2>1, FieldsApart, ValuesOf DEF Sent, PlainFields
  <2>3. Deps!Accepted(r, Deps!Blank)
    BY <2>1, FieldsApart DEF Deps!Accepted
  <2>4. OnServer(Deps!Apply(r, Deps!Blank)) /\ Fits(Deps!Apply(r, Deps!Blank))
        /\ Deps!Apply(r, Deps!Blank)["executor"] \in Deps!Executor
    BY <2>2, <2>3, MadeStored
  <2> QED BY <2>4 DEF r
<1>2. \A d \in Deployment :
        /\ deps[d] \in [life : {"unborn", "live", "gone"}, override : {On, None}, f : Settings]
        /\ OnServer(deps[d].f) /\ Fits(deps[d].f) /\ deps[d].f["executor"] \in Deps!Executor
  <2> SUFFICES ASSUME NEW d \in Deployment
               PROVE  /\ deps[d] \in
                            [life : {"unborn", "live", "gone"}, override : {On, None}, f : Settings]
                      /\ OnServer(deps[d].f) /\ Fits(deps[d].f)
                      /\ deps[d].f["executor"] \in Deps!Executor
    OBVIOUS
  <2>1. PICK l \in {"unborn", "live"}, n \in Names, e \in Deps!Executor :
          deps[d] = [life |-> l, override |-> None, f |-> Deps!Apply(Deps!Bare(n, e), Deps!Blank)]
    OBVIOUS
  <2> DEFINE g == Deps!Apply(Deps!Bare(n, e), Deps!Blank)
  <2>2. OnServer(g) /\ Fits(g) /\ g["executor"] \in Deps!Executor
    BY <1>1
  <2>3. deps[d] = [life |-> l, override |-> None, f |-> g]
    BY <2>1
  <2> HIDE DEF g
  <2> QED BY <2>2, <2>3 DEF OnServer
<1>3. DepInv
  BY <1>2 DEF DepInv
<1>4. deps = [d \in Deployment |-> deps[d]]
  <2> DEFINE S == {[life |-> l, override |-> None, f |-> Deps!Apply(Deps!Bare(n, e), Deps!Blank)] :
              l \in {"unborn", "live"}, n \in Names, e \in Deps!Executor}
  <2>1. deps \in [Deployment -> S]
    OBVIOUS
  <2> HIDE DEF S
  <2> QED BY <2>1
<1>5. deps \in [Deployment ->
                   [life : {"unborn", "live", "gone"}, override : {On, None}, f : Settings]]
  BY <1>2, <1>4
<1>6. TypeInv
  BY <1>5, BlankValued DEF TypeInv
<1>7. \A a \in Admin : Places(a) /\ Agrees(a) /\ HasAsked(a)
  BY DEF Places, Agrees, HasAsked, Deps!Resting
<1> QED BY <1>3, <1>6, <1>7 DEF DepsInv

\* Every step keeps the invariant.
LEMMA NextKeeps == DepsInv /\ [Deps!Next]_(Deps!vars) => DepsInv'
<1> SUFFICES ASSUME DepsInv, [Deps!Next]_(Deps!vars) PROVE DepsInv'
  OBVIOUS
<1>1. CASE UNCHANGED Deps!vars
  BY <1>1 DEF DepsInv, TypeInv, DepInv, Places, Agrees, HasAsked, HasVariable, HasQueue, Current, Known, Undeleted,
              Deps!vars, Deps!Resting
<1>2. ASSUME NEW a \in Admin,
             \/ Deps!Begin(a) \/ Deps!PlanList(a) \/ Deps!Read(a) \/ Deps!Stop(a) \/ Deps!Write(a)
             \/ Deps!List(a) \/ Deps!Create(a) \/ Deps!Relist(a) \/ Deps!Delete(a)
             \/ Deps!Override(a)
      PROVE  DepsInv'
  BY <1>2, BeginKeeps, PlanListKeeps, ReadKeeps, StopKeeps, WriteKeeps, ListKeeps, CreateKeeps,
     LifeKeeps
<1> QED BY <1>1, <1>2 DEF Deps!Next

\* DepsInv always holds.
LEMMA DepsInvariant == Deps!Spec => []DepsInv
BY InitEstablishes, NextKeeps, PTL DEF Deps!Spec

\* The Deployments of the server have queues as their executor has it, whatever
\* commands run at the same time: every request names the executor it was filled
\* for, and what comes of it fits that one.
THEOREM QueuesFit == Deps!Spec => []QueuesFitExecutor
<1>1. DepsInv => QueuesFitExecutor
  BY DEF DepsInv, DepInv, Fits, QueuesFitExecutor, Deps!QueuesFitExecutor, Deps!Live
<1> QED BY <1>1, DepsInvariant, PTL

\* One admin's command moves in a step.
LEMMA OneMoves ==
  ASSUME TypeInv, Deps!Next
  PROVE  \E b \in Admin :
           /\ \/ Deps!Begin(b) \/ Deps!PlanList(b) \/ Deps!Read(b) \/ Deps!Stop(b) \/ Deps!Write(b)
              \/ Deps!List(b) \/ Deps!Create(b) \/ Deps!Relist(b) \/ Deps!Delete(b)
              \/ Deps!Override(b)
           /\ \A a \in Admin : a # b => pc'[a] = pc[a]
<1>1. PICK b \in Admin :
         \/ Deps!Begin(b) \/ Deps!PlanList(b) \/ Deps!Read(b) \/ Deps!Stop(b) \/ Deps!Write(b)
         \/ Deps!List(b) \/ Deps!Create(b) \/ Deps!Relist(b) \/ Deps!Delete(b) \/ Deps!Override(b)
  BY DEF Deps!Next
<1>2. \A a \in Admin : a # b => pc'[a] = pc[a]
  <2>1. \E l : pc' = [pc EXCEPT ![b] = l]
    BY <1>1 DEF Deps!Begin, Deps!PlanList, Deps!Read, Deps!Stop, Deps!Write, Deps!List, Deps!Create,
                Deps!Relist, Deps!Delete, Deps!Override, Deps!End
  <2> QED BY <2>1 DEF TypeInv
<1> QED BY <1>1, <1>2

\* Only a write changes the fields of a Deployment that is there.
LEMMA OnlyWrites ==
  ASSUME TypeInv, Deps!Next, NEW d \in Deployment, deps[d].life = "live",
         NEW x \in Deps!Field, deps'[d].f[x] # deps[d].f[x]
  PROVE  \E a \in Admin : Deps!Write(a) /\ cmd[a].d = d
<1>1. PICK b \in Admin :
         \/ Deps!Begin(b) \/ Deps!PlanList(b) \/ Deps!Read(b) \/ Deps!Stop(b) \/ Deps!Write(b)
         \/ Deps!List(b) \/ Deps!Create(b) \/ Deps!Relist(b) \/ Deps!Delete(b) \/ Deps!Override(b)
  BY DEF Deps!Next
<1>2. CASE \/ Deps!Begin(b) \/ Deps!PlanList(b) \/ Deps!Read(b) \/ Deps!Stop(b) \/ Deps!List(b)
           \/ Deps!Relist(b)
  BY <1>2 DEF Deps!Begin, Deps!PlanList, Deps!Read, Deps!Stop, Deps!List, Deps!Relist
<1>3. CASE Deps!Create(b)
  <2>1. \E e \in Deployment : \E v : deps[e].life = "unborn" /\ deps' = [deps EXCEPT ![e] = v]
    BY <1>3 DEF Deps!Create
  <2> QED BY <2>1 DEF TypeInv
<1>4. CASE Deps!Delete(b) \/ Deps!Override(b)
  <2>1. \E e, v : \/ deps' = [deps EXCEPT ![e].life = v]
                  \/ deps' = [deps EXCEPT ![e].override = v]
    BY <1>4 DEF Deps!Delete, Deps!Override
  <2> QED BY <2>1 DEF TypeInv
<1>5. CASE Deps!Write(b)
  <2>1. \E v : deps' = [deps EXCEPT ![cmd[b].d].f = v]
    BY <1>5 DEF Deps!Write
  <2> QED BY <1>5, <2>1 DEF TypeInv
<1> QED BY <1>1, <1>2, <1>3, <1>4, <1>5

\* What a write makes of its Deployment.
LEMMA Writes ==
  ASSUME DepsInv, NEW a \in Admin, Deps!Write(a)
  PROVE  LET c == cmd[a]
             r == Deps!Request(c, c.d, seen[a])
             f == deps[c.d].f
             g == deps'[c.d].f IN
         /\ pc[a] = "write" /\ pc'[a] = "done" /\ c # None /\ c.d \in Deployment
         /\ Asked(c) /\ c.kind \in {"update"} \union OwnKinds \union Deps!FileKinds
         /\ Sent(r) /\ OnServer(f) /\ Fits(f) /\ Fits(g) /\ After(g, r, f)
         /\ Deps!Accepted(r, f) /\ g["executor"] = r["executor"]
         /\ Valued(seen[a]) /\ HasAsked(a)
         /\ \A x \in Deps!Field : x \notin raced[a] =>
              seen[a][x] = Deps!Plan(c, Deps!Shown(f))[x] \/ Undeleted(a, x)
<1> DEFINE c == cmd[a]
           r == Deps!Request(c, c.d, seen[a])
           f == deps[c.d].f
           g == deps'[c.d].f
<1>1. /\ pc[a] = "write" /\ Deps!Accepted(r, f) /\ Deps!End(a, "done")
      /\ deps' = [deps EXCEPT ![c.d].f = Deps!Apply(r, f)]
  BY DEF Deps!Write
<1>2. /\ c # None /\ c.d \in Deployment /\ Asked(c) /\ Sent(r)
      /\ c.kind \in {"update"} \union OwnKinds \union Deps!FileKinds
  BY <1>1, RequestSent
<1>3. g = Deps!Apply(r, f)
  BY <1>1, <1>2 DEF DepsInv, TypeInv
<1>4. After(g, r, f)
  BY <1>3, ApplyAfter
<1>5. OnServer(f) /\ Fits(f) /\ Valued(seen[a]) /\ HasAsked(a)
  BY <1>2 DEF DepsInv, DepInv, TypeInv
<1>6. \A x \in Deps!Field : x \notin raced[a] =>
              seen[a][x] = Deps!Plan(c, Deps!Shown(f))[x] \/ Undeleted(a, x)
  BY <1>1 DEF DepsInv, Agrees, Known, Current
<1>7. pc'[a] = "done"
  BY <1>1, EndPlaces DEF DepsInv
<1> HIDE DEF r, g
<1>8. Fits(g) /\ g["executor"] = r["executor"]
  BY <1>2, <1>4, AfterFits
<1> QED BY <1>1, <1>2, <1>4, <1>5, <1>6, <1>7, <1>8 DEF r, g

\* The field x of g is as c asks, or as close as the command promises that sends s.
AsAsked(c, s, g, x) ==
  \/ c.ask[x] = Same \/ g[x] = c.ask[x]
  \/ /\ x \in Key /\ g[x] # None
     /\ c.kind = "varcreate" \/ (g[x].secret /\ g[x].val = c.ask[x].val)
  \/ x \in WorkQueue /\ g["executor"] = Kubernetes
  \/ c.kind = "qdelete" /\ s[x] # None

\* A write does as asked.
LEMMA WriteDone ==
  ASSUME DepsInv, NEW a \in Admin, Deps!Write(a)
  PROVE  \A x \in Deps!Field : AsAsked(cmd[a], seen[a], deps'[cmd[a].d].f, x)
<1> DEFINE c == cmd[a]
           s == seen[a]
           r == Deps!Request(c, c.d, s)
           f == deps[c.d].f
           g == deps'[c.d].f
<1>1. /\ Asked(c) /\ c.kind \in {"update"} \union OwnKinds \union Deps!FileKinds
      /\ After(g, r, f) /\ Deps!Accepted(r, f) /\ OnServer(f) /\ g["executor"] = r["executor"]
      /\ HasAsked(a) /\ pc[a] = "write"
  BY Writes
<1>2. HasAsked(a) => (c.kind \in Deps!VariableKinds => HasVariable(c, s))
                 /\ (c.kind \in Deps!QueueKinds => HasQueue(c, s))
  BY <1>1 DEF HasAsked
<1>3. c.kind \in Deps!FileKinds => r = Deps!FromFile(c, s)
  BY DEF Deps!Request
<1>4. c.kind \notin Deps!FileKinds => r = Deps!Filled(c, c.d, s)
  BY DEF Deps!Request
<1> SUFFICES ASSUME NEW x \in Deps!Field, c.ask[x] # Same PROVE AsAsked(c, s, g, x)
  BY DEF AsAsked
<1> HIDE DEF g, r, f, s, c
<1>5. CASE c.kind \in Deps!FileKinds
  <2>1. r[x] = c.ask[x]
    BY <1>3, <1>5, FromFileField
  <2>2. c.ask[x] \in Deps!Values(x) /\ (x \in Key => c.ask[x] \in Deps!Variable)
    BY <1>1, <1>5 DEF Asked, Deps!FileKinds
  <2>3. CASE x \in PlainFields
    BY <1>1, <2>1, <2>3 DEF After, AsAsked
  <2>4. CASE x \in Key
    <3>1. c.ask[x].val # Hidden
      BY <2>2, <2>4, CommandsSound DEF Deps!Sound, Deps!Variable
    <3> QED BY <1>1, <2>1, <2>4, <3>1 DEF After, AsAsked, Deps!Resolve
  <2>5. CASE x \in WorkQueue
    <3>1. Kept(r, f, x) = c.ask[x] /\ Kept(r, f, x) # None
      BY <2>1, <2>2, ValuesApart DEF Kept
    <3> QED BY <1>1, <2>5, <3>1 DEF After, AsAsked
  <2> QED BY <2>3, <2>4, <2>5, FieldsApart DEF PlainFields
<1>6. CASE c.kind = "update"
  <2>1. x \in {"name", "executor", "dag"}
    BY <1>1, <1>6 DEF Asked
  <2>2. r[x] = c.ask[x]
    BY <1>4, <1>6, <2>1, FilledField, FieldsApart DEF Deps!FileKinds
  <2> QED BY <1>1, <2>1, <2>2 DEF After, AsAsked, PlainFields
<1>7. CASE c.kind \in Deps!VariableKinds
  <2>1. x \in Key /\ c.ask[x] \in Deps!Variable
    BY <1>1, <1>7 DEF Asked
  <2>2. r[x] = s[x]
    BY <1>4, <1>7, <2>1, FilledField, FieldsApart DEF Deps!FileKinds, Deps!VariableKinds
  <2>3. g[x] = Deps!Resolve(s[x], f[x])
    BY <1>1, <2>1, <2>2 DEF After
  <2>4. /\ s[x] # None
        /\ \/ c.kind = "varcreate"
           \/ s[x].val = c.ask[x].val /\ (s[x].secret \/ s[x] = c.ask[x])
    BY <1>1, <1>2, <1>7, <2>1 DEF HasVariable
  <2>5. CASE s[x].val = Hidden
    <3>1. c.kind = "varcreate"
      BY <2>1, <2>4, <2>5, CommandsSound DEF Deps!Sound, Deps!Variable
    <3>2. f[x] \in Deps!Variable /\ g[x] = [s[x] EXCEPT !.val = f[x].val]
      BY <1>1, <2>1, <2>2, <2>3, <2>4, <2>5 DEF Deps!Accepted, Deps!Resolve, OnServer
    <3>3. s[x] \in Deps!VariableShown
      <4>1. Sent(r)
        BY Writes DEF r, c, s
      <4> QED BY <4>1, <2>1, <2>2, <2>4 DEF Sent
    <3>4. g[x] \in Deps!Variable
      BY <3>2, <3>3 DEF Deps!Variable, Deps!VariableShown
    <3> QED BY <2>1, <3>1, <3>4, ValuesApart DEF AsAsked
  <2>6. CASE s[x].val # Hidden
    <3>1. g[x] = s[x]
      BY <2>3, <2>6 DEF Deps!Resolve
    <3> QED BY <2>1, <2>4, <3>1 DEF AsAsked
  <2> QED BY <2>5, <2>6
<1>8. CASE c.kind \in Deps!QueueKinds
  <2>1. x \in WorkQueue /\ c.ask["executor"] = Same
    BY <1>1, <1>8, FieldsApart DEF Asked
  <2> SUFFICES ASSUME s[x] = c.ask[x] PROVE AsAsked(c, s, g, x)
    BY <1>1, <1>2, <1>8, <2>1 DEF HasQueue, AsAsked
  <2>2. /\ r[x] = Deps!QueuesForExecutor(c, c.d, s["executor"], x, s[x])
        /\ r["executor"] = s["executor"]
    BY <1>4, <1>8, <2>1, FilledField, FieldsApart DEF Deps!FileKinds, Deps!QueueKinds
  <2>3. CASE s["executor"] = Kubernetes
    BY <1>1, <2>1, <2>2, <2>3 DEF AsAsked
  <2>4. CASE s["executor"] # Kubernetes
    <3>1. r[x] = c.ask[x]
      BY <2>1, <2>2, <2>4, FieldsApart, ValuesApart DEF Deps!QueuesForExecutor, Holdings
    <3>2. Kept(r, f, x) = c.ask[x]
      BY <3>1 DEF Kept
    <3>3. c.ask[x] = None => x # FirstQueue
      <4>1. c.kind = "qdelete" => c.ask[x] = Same \/ (c.ask[x] = None /\ x # FirstQueue)
        BY <1>1, <2>1 DEF Asked
      <4>2. c.kind # "qdelete" => c.ask[x] # None
        BY <1>1, ValuesApart, FieldsApart DEF Asked
      <4> QED BY <4>1, <4>2
    <3> QED BY <1>1, <2>1, <3>2, <3>3 DEF After, AsAsked
  <2> QED BY <2>3, <2>4
<1> QED BY <1>1, <1>5, <1>6, <1>7, <1>8 DEF OwnKinds

\* A create that no update follows does as asked.
LEMMA CreateDone ==
  ASSUME DepsInv, NEW a \in Admin, Deps!Create(a), pc'[a] = "done",
         NEW d \in Deployment, deps'[d] # deps[d]
  PROVE  \A x \in Deps!Field : AsAsked(cmd[a], seen[a], deps'[d].f, x)
<1> DEFINE c == cmd[a]
           s == seen[a]
           r == CreateSends(c, d)
           g == Deps!Apply(r, Deps!Blank)
<1>1. pc[a] = "create" /\ c \in Deps!Begun /\ c.kind \in {"create", "filecreate"}
  BY DEF DepsInv, Places, Deps!Create, Deps!Resting
<1>2. Asked(c)
  BY <1>1, BegunAsks
<1>3. deps'[d].f = g
  <2>1. PICK e \in Deployment :
          deps' = [deps EXCEPT ![e] =
                     [life |-> "live", override |-> None,
                      f |-> Deps!Apply(CreateSends(c, e), Deps!Blank)]]
    BY DEF Deps!Create, CreateSends
  <2>2. d = e
    BY <2>1 DEF DepsInv, TypeInv
  <2> HIDE DEF g
  <2>3. deps' = [deps EXCEPT ![d] = [life |-> "live", override |-> None, f |-> g]]
    BY <2>1, <2>2 DEF g
  <2> QED BY <2>3 DEF DepsInv, TypeInv
<1>4. c.kind = "filecreate" => c.ask["mail"] = Same /\ \A k \in Key : c.ask[k] = Same
  <2>1. ~Deps!NeedsUpdate(c)
    BY DEF Deps!Create, DepsInv, TypeInv
  <2> QED BY <2>1 DEF Deps!NeedsUpdate
<1>5. After(g, r, Deps!Blank)
  BY ApplyAfter
<1>6. \A x \in Deps!Field : r[x] = IF x = "dag" /\ c.ask[x] = Same THEN (IF d \in OnCluster THEN Off ELSE On)
                              ELSE IF x \in Key \union {"mail"} \/ c.ask[x] = Same THEN None
                              ELSE c.ask[x]
  BY DEF CreateSends, Deps!Creation
<1> SUFFICES ASSUME NEW x \in Deps!Field, c.ask[x] # Same PROVE AsAsked(c, s, g, x)
  BY <1>3 DEF AsAsked
<1> HIDE DEF g, r, c, s
<1>7. x \notin Key \union {"mail"} /\ c.ask[x] \in Deps!Values(x)
  BY <1>1, <1>2, <1>4, FieldsApart DEF Asked
<1>8. r[x] = c.ask[x] /\ r[x] # None
  BY <1>6, <1>7, ValuesApart
<1>9. CASE x \in PlainFields
  BY <1>5, <1>8, <1>9 DEF After, AsAsked
<1>10. CASE x \in WorkQueue
  BY <1>5, <1>8, <1>10 DEF After, AsAsked, Kept
<1> QED BY <1>7, <1>9, <1>10, FieldsApart DEF PlainFields

\* A command that ends well has done what it was asked: what it read first is
\* still in the request when others change the Deployment in between.
THEOREM Done == Deps!Spec => DoneAsAsked
<1>1. ASSUME DepsInv, Deps!Next, NEW a \in Admin, NEW d \in Deployment,
             pc[a] \in {"write", "create"}, pc'[a] = "done",
             IF pc[a] = "write" THEN d = cmd[a].d ELSE deps'[d] # deps[d]
      PROVE  \A x \in Deps!Field : AsAsked(cmd[a], seen[a], deps'[d].f, x)
  <2>1. \/ Deps!Begin(a) \/ Deps!PlanList(a) \/ Deps!Read(a) \/ Deps!Stop(a) \/ Deps!Write(a)
        \/ Deps!List(a) \/ Deps!Create(a) \/ Deps!Relist(a) \/ Deps!Delete(a) \/ Deps!Override(a)
    BY <1>1, OneMoves DEF DepsInv
  <2>2. ~Deps!Stop(a)
    BY <1>1 DEF Deps!Stop, Deps!End, DepsInv, TypeInv
  <2>3. (pc[a] = "write" /\ Deps!Write(a)) \/ (pc[a] = "create" /\ Deps!Create(a))
    BY <1>1, <2>1, <2>2 DEF Deps!Begin, Deps!PlanList, Deps!Read, Deps!Write, Deps!List,
         Deps!Create, Deps!Relist, Deps!Delete, Deps!Override, Deps!Resting
  <2> QED BY <1>1, <2>3, WriteDone, CreateDone
<1>2. DepsInv /\ [Deps!Next]_(Deps!vars) =>
        [\A a \in Admin, d \in Deployment :
         /\ pc[a] \in {"write", "create"} /\ pc'[a] = "done"
         /\ IF pc[a] = "write" THEN d = cmd[a].d ELSE deps'[d] # deps[d]
         => \A x \in Deps!Field :
              LET v == cmd[a].ask[x]
                  new == deps'[d].f[x] IN
              \/ v = Same \/ new = v
              \/ /\ x \in Key /\ new # None
                 /\ cmd[a].kind = "varcreate" \/ (new.secret /\ new.val = v.val)
              \/ x \in WorkQueue /\ deps'[d].f["executor"] = Kubernetes
              \/ cmd[a].kind = "qdelete" /\ seen[a][x] # None]_(Deps!vars)
  BY <1>1 DEF AsAsked
<1> QED BY <1>2, DepsInvariant, PTL DEF DoneAsAsked, Deps!DoneAsAsked, Deps!Spec

\* Why admin a may change the field x of f to what it is in g.
Exposed(f, g, x) == x \in Key /\ f[x] # None /\ f[x].secret /\ g[x] # None /\ ~g[x].secret
MayChange(a, f, g, x) ==
  \/ /\ cmd[a].ask[x] # Same
     /\ Exposed(f, g, x) => cmd[a].kind \in Deps!FileKinds \/ x \in raced[a]
  \/ cmd[a].kind \in Deps!FileKinds /\ x \in Deps!Removed(cmd[a])
  \/ x \in WorkQueue /\ g["executor"] # f["executor"]
  \/ x = FirstQueue /\ f[x] = None /\ g["executor"] = Celery
  \/ /\ x \in raced[a]
     /\ \/ x \in WorkQueue
        \/ g[x] = (IF x \in Key THEN Deps!Resolve(seen[a][x], f[x]) ELSE seen[a][x])

\* A field a file leaves out.
LEMMA FileChanges ==
  ASSUME DepsInv, NEW a \in Admin, Deps!Write(a), cmd[a].kind \in Deps!FileKinds,
         NEW x \in Deps!Field, deps'[cmd[a].d].f[x] # deps[cmd[a].d].f[x]
  PROVE  MayChange(a, deps[cmd[a].d].f, deps'[cmd[a].d].f, x)
<1> DEFINE c == cmd[a]
           s == seen[a]
           r == Deps!Request(c, c.d, s)
           f == deps[c.d].f
           g == deps'[c.d].f
<1>1. /\ After(g, r, f) /\ Fits(f) /\ g["executor"] = r["executor"] /\ Valued(s) /\ OnServer(f)
      /\ x \notin raced[a] => s[x] = Deps!Plan(c, Deps!Shown(f))[x]
      /\ r["executor"] \in Deps!Executor
  BY Writes DEF Sent, Undeleted, Deps!FileKinds
<1>2. r[x] = IF x = "dag" /\ c.ask[x] = Same THEN s[x]
             ELSE IF c.ask[x] = Same /\ x \in Deps!Removed(c) THEN None ELSE c.ask[x]
  BY FromFileField DEF Deps!Request
<1>3. \A y \in Deps!Field : Deps!Plan(c, Deps!Shown(f))[y] =
        IF y \in Key /\ c.kind \in Deps!VariableKinds THEN Deps!AddVariable(c, Deps!Shown(f), y)
        ELSE IF y \in WorkQueue /\ c.kind \in Deps!QueueKinds
        THEN Deps!EditQueue(c, Deps!Shown(f), y)
        ELSE Deps!Shown(f)[y]
  BY PlanField
<1>4. \A y \in Deps!Field : y \notin Key => Deps!Shown(f)[y] = f[y]
  BY <1>1, ShownOf DEF OnServer
<1>5. \A q \in WorkQueue : x \in WorkQueue /\ x \notin Deps!Removed(c) => r[q] = Same
  <2> SUFFICES ASSUME NEW q \in WorkQueue, x \in WorkQueue, x \notin Deps!Removed(c)
               PROVE  r[q] = Same
    OBVIOUS
  <2>1. c.ask[q] = Same /\ q \in Deps!Field /\ q \notin Deps!Removed(c) /\ q # "dag"
    BY FieldsApart DEF Deps!Removed
  <2>2. r[q] = IF q = "dag" /\ c.ask[q] = Same THEN s[q]
             ELSE IF c.ask[q] = Same /\ q \in Deps!Removed(c) THEN None ELSE c.ask[q]
    BY <2>1, FromFileField DEF Deps!Request
  <2> QED BY <2>1, <2>2
<1> SUFFICES ASSUME c.ask[x] = Same, x \notin Deps!Removed(c) PROVE MayChange(a, f, g, x)
  BY DEF MayChange
<1>6. CASE x = "dag"
  <2>1. s[x] \in Deps!Values(x) \union {None} /\ s[x] # Same
    BY <1>1, ValuesApart, FieldsApart DEF Valued
  <2>2. g[x] = s[x]
    BY <1>1, <1>2, <1>6, <2>1 DEF After, PlainFields
  <2>3. x \in raced[a]
    BY <1>1, <1>3, <1>4, <1>6, <2>2, FieldsApart
  <2> QED BY <1>6, <2>2, <2>3, FieldsApart DEF MayChange
<1>7. CASE x \in PlainFields /\ x # "dag"
  BY <1>1, <1>2, <1>7 DEF After
<1>8. CASE x \in WorkQueue
  <2>1. \A q \in WorkQueue : Kept(r, f, q) = IF r["executor"] = Kubernetes THEN None ELSE f[q]
    BY <1>5, <1>8 DEF Kept
  <2>2. g["executor"] # f["executor"]
    <3> SUFFICES ASSUME g["executor"] = f["executor"] PROVE g[x] = f[x]
      OBVIOUS
    <3> HIDE DEF g, f, r
    <3>1. CASE r["executor"] = Kubernetes
      BY <1>1, <1>8, <2>1, <3>1, FieldsApart DEF After, Fits
    <3>2. CASE r["executor"] # Kubernetes
      BY <1>1, <1>8, <2>1, <3>2, FieldsApart DEF After, Fits
    <3> QED BY <3>1, <3>2
  <2> QED BY <1>8, <2>2 DEF MayChange
<1> QED BY <1>6, <1>7, <1>8, FieldsApart DEF PlainFields, Deps!Removed

\* A variable that is sent along.
LEMMA VariableChanges ==
  ASSUME DepsInv, NEW a \in Admin, Deps!Write(a), cmd[a].kind \notin Deps!FileKinds,
         NEW k \in Key, deps'[cmd[a].d].f[k] # deps[cmd[a].d].f[k]
  PROVE  MayChange(a, deps[cmd[a].d].f, deps'[cmd[a].d].f, k)
<1> DEFINE c == cmd[a]
           s == seen[a]
           r == Deps!Request(c, c.d, s)
           f == deps[c.d].f
           g == deps'[c.d].f
           v == Deps!Shown(f)
<1>0. k \in Deps!Field
  BY FieldsApart
<1>1. /\ After(g, r, f) /\ OnServer(f) /\ Asked(c)
      /\ k \notin raced[a] => s[k] = Deps!Plan(c, v)[k]
  BY <1>0, Writes, FieldsApart DEF Asked, Undeleted, Deps!QueueKinds
<1>2. r[k] = s[k]
  BY <1>0, FilledField, FieldsApart DEF Deps!Request
<1>3. Deps!Plan(c, v)[k] =
        IF k \in Key /\ c.kind \in Deps!VariableKinds THEN Deps!AddVariable(c, v, k)
        ELSE IF k \in WorkQueue /\ c.kind \in Deps!QueueKinds THEN Deps!EditQueue(c, v, k)
        ELSE v[k]
  BY <1>0, PlanField
<1>4. /\ v[k] = None <=> f[k] = None
      /\ f[k] # None => v[k].secret = f[k].secret
      /\ Deps!Resolve(v[k], f[k]) = f[k]
  BY <1>1, ShownOf DEF OnServer
<1>5. g[k] = Deps!Resolve(s[k], f[k])
  BY <1>1, <1>2 DEF After
<1> SUFFICES ASSUME g[k] # f[k] PROVE MayChange(a, f, g, k)
  OBVIOUS
<1> HIDE DEF g, r, v, f
<1>6. CASE k \in raced[a]
  BY <1>5, <1>6 DEF MayChange
<1>7. CASE k \notin raced[a]
  <2>1. c.kind \in Deps!VariableKinds /\ s[k] = Deps!AddVariable(c, v, k)
    BY <1>1, <1>3, <1>4, <1>5, <1>7, FieldsApart
  <2>2. /\ c.ask[k] \in Deps!Variable
        /\ s[k] = [c.ask[k] EXCEPT !.secret = @ \/ (v[k] # None /\ v[k].secret)]
    <3>1. ~(c.ask[k] = Same \/ (v[k] # None /\ c.kind = "varcreate"))
      BY <1>4, <1>5, <2>1 DEF Deps!AddVariable
    <3> QED BY <1>1, <2>1, <3>1 DEF Deps!AddVariable, Asked
  <2>3. f[k] # None /\ f[k].secret => s[k].secret /\ g[k].secret
    <3> SUFFICES ASSUME f[k] # None, f[k].secret PROVE s[k].secret /\ g[k].secret
      OBVIOUS
    <3>1. v[k] # None /\ v[k].secret
      BY <1>4
    <3>2. s[k] = [c.ask[k] EXCEPT !.secret = TRUE]
      BY <2>2, <3>1
    <3>3. s[k].secret /\ s[k] = [val |-> c.ask[k].val, secret |-> TRUE]
      BY <2>2, <3>2 DEF Deps!Variable
    <3>4. g[k] = s[k] \/ g[k] = [s[k] EXCEPT !.val = f[k].val]
      BY <1>5 DEF Deps!Resolve
    <3> QED BY <3>3, <3>4
  <2>4. c.ask[k] # Same
    BY <1>0, <2>2, ValuesApart
  <2> QED BY <2>3, <2>4 DEF MayChange, Exposed
<1> QED BY <1>6, <1>7

\* A queue that is sent along, or none.
LEMMA QueueChanges ==
  ASSUME DepsInv, NEW a \in Admin, Deps!Write(a), cmd[a].kind \notin Deps!FileKinds,
         NEW q \in WorkQueue, deps'[cmd[a].d].f[q] # deps[cmd[a].d].f[q]
  PROVE  MayChange(a, deps[cmd[a].d].f, deps'[cmd[a].d].f, q)
<1> DEFINE c == cmd[a]
           s == seen[a]
           r == Deps!Request(c, c.d, s)
           f == deps[c.d].f
           g == deps'[c.d].f
           v == Deps!Shown(f)
<1>0. q \in Deps!Field /\ q \notin Key /\ FirstQueue \in Deps!Field /\ "executor" \in Deps!Field
  BY FieldsApart
<1>1. /\ After(g, r, f) /\ OnServer(f) /\ Fits(f) /\ Fits(g) /\ Asked(c)
      /\ g["executor"] = r["executor"]
      /\ q \notin raced[a] => s[q] = Deps!Plan(c, v)[q] \/ c.ask[q] # Same
      /\ r["executor"] \in Deps!Executor
  BY <1>0, Writes DEF Sent, Undeleted
<1>2. /\ r[q] = Deps!QueuesForExecutor(c, c.d, s["executor"], q, s[q])
      /\ r["executor"] = IF c.ask["executor"] = Same THEN s["executor"] ELSE c.ask["executor"]
  BY <1>0, FilledField, FieldsApart DEF Deps!Request
<1>3. Deps!Plan(c, v)[q] = IF c.kind \in Deps!QueueKinds THEN Deps!EditQueue(c, v, q) ELSE v[q]
  BY <1>0, PlanField
<1>4. v[q] = f[q]
  BY <1>0, <1>1, ShownOf DEF OnServer
<1> SUFFICES ASSUME c.ask[q] = Same, q \notin raced[a], g[q] # f[q] PROVE MayChange(a, f, g, q)
  BY <1>0 DEF MayChange, Exposed
<1>5. s[q] = f[q]
  BY <1>1, <1>3, <1>4 DEF Deps!EditQueue
<1> HIDE DEF g, r, v, f, s
<1>6. CASE r["executor"] = Kubernetes
  BY <1>1, <1>6 DEF Fits, MayChange
<1>7. CASE r["executor"] = Celery
  <2>1. ~(\/ c.ask["executor"] = Kubernetes
          \/ c.ask["executor"] = Same /\ s["executor"] = Kubernetes)
    BY <1>2, <1>7, FieldsApart, ValuesApart DEF Holdings
  <2>2. CASE q = FirstQueue /\ f[q] = None
    BY <1>1, <1>7, <2>2 DEF MayChange, f, g
  <2>3. CASE ~(q = FirstQueue /\ f[q] = None)
    <3>1. r[q] = f[q]
      BY <1>2, <1>5, <2>1, <2>3 DEF Deps!QueuesForExecutor
    <3>2. Kept(r, f, q) = f[q]
      BY <1>7, <3>1, FieldsApart DEF Kept
    <3>3. g[q] = f[q]
      BY <1>1, <2>3, <3>2 DEF After
    <3> QED BY <3>3 DEF g, f
  <2> QED BY <2>2, <2>3
<1> QED BY <1>1, <1>6, <1>7, FieldsApart

\* A name, an executor or a setting that is sent along.
LEMMA PlainChanges ==
  ASSUME DepsInv, NEW a \in Admin, Deps!Write(a), cmd[a].kind \notin Deps!FileKinds,
         NEW x \in PlainFields, deps'[cmd[a].d].f[x] # deps[cmd[a].d].f[x]
  PROVE  MayChange(a, deps[cmd[a].d].f, deps'[cmd[a].d].f, x)
<1> DEFINE c == cmd[a]
           s == seen[a]
           r == Deps!Request(c, c.d, s)
           f == deps[c.d].f
           g == deps'[c.d].f
           v == Deps!Shown(f)
<1>0. x \in Deps!Field /\ x \notin Key /\ x \notin WorkQueue
  BY FieldsApart DEF PlainFields
<1>1. /\ After(g, r, f) /\ OnServer(f) /\ Valued(s)
      /\ x \notin raced[a] => s[x] = Deps!Plan(c, v)[x]
  BY <1>0, Writes, FieldsApart DEF Asked, Undeleted, Deps!QueueKinds
<1>2. r[x] = IF x = "mail" THEN Same ELSE IF c.ask[x] = Same THEN s[x] ELSE c.ask[x]
  BY <1>0, FilledField DEF Deps!Request
<1>3. Deps!Plan(c, v)[x] = v[x]
  BY <1>0, PlanField
<1>4. v[x] = f[x]
  BY <1>0, <1>1, ShownOf DEF OnServer
<1> SUFFICES ASSUME c.ask[x] = Same PROVE MayChange(a, f, g, x)
  BY <1>0 DEF MayChange, Exposed
<1>5. s[x] # Same
  BY <1>0, <1>1, ValuesApart, FieldsApart DEF Valued
<1>6. g[x] = s[x]
  BY <1>1, <1>2, <1>5 DEF After
<1>7. x \in raced[a]
  BY <1>1, <1>3, <1>4, <1>6
<1> QED BY <1>0, <1>6, <1>7 DEF MayChange

\* A command changes what it was asked to, what follows the executor, and what
\* another command changed after it was read; by induction a field that is not in
\* raced is sent as the server has it.
THEOREM OnlyAsked == Deps!Spec => OnlyAskedOrRaced
<1>1. ASSUME DepsInv, Deps!Next, NEW d \in Deployment, NEW x \in Deps!Field,
             d \in Deps!Live, deps'[d].f[x] # deps[d].f[x]
      PROVE  \E a \in Admin : /\ Deps!Moves(a) /\ cmd[a] # None /\ cmd[a].d = d
                              /\ MayChange(a, deps[d].f, deps'[d].f, x)
  <2>1. PICK a \in Admin : Deps!Write(a) /\ cmd[a].d = d
    BY <1>1, OnlyWrites DEF Deps!Live, DepsInv
  <2>2. Deps!Moves(a) /\ cmd[a] # None
    BY <1>1, <2>1, Writes DEF Deps!Moves
  <2>3. MayChange(a, deps[d].f, deps'[d].f, x)
    BY <1>1, <2>1, FieldsApart, FileChanges, VariableChanges, QueueChanges,
       PlainChanges DEF PlainFields
  <2> QED BY <2>1, <2>2, <2>3
<1>2. DepsInv /\ [Deps!Next]_(Deps!vars) =>
        [\A d \in Deployment, x \in Deps!Field :
         d \in Deps!Live /\ deps'[d].f[x] # deps[d].f[x] =>
           \E a \in Admin :
              /\ Deps!Moves(a) /\ cmd[a] # None /\ cmd[a].d = d
              /\ \/ /\ cmd[a].ask[x] # Same
                    /\ Deps!Shows(d, x) => cmd[a].kind \in Deps!FileKinds \/ x \in raced[a]
                 \/ cmd[a].kind \in Deps!FileKinds /\ x \in Deps!Removed(cmd[a])
                 \/ x \in WorkQueue /\ deps'[d].f["executor"] # deps[d].f["executor"]
                 \/ x = FirstQueue /\ deps[d].f[x] = None /\ deps'[d].f["executor"] = Celery
                 \/ /\ x \in raced[a]
                    /\ \/ x \in WorkQueue
                       \/ deps'[d].f[x] =
                            (IF x \in Key THEN Deps!Resolve(seen[a][x], deps[d].f[x])
                             ELSE seen[a][x])]_(Deps!vars)
  <2> SUFFICES ASSUME DepsInv, Deps!Next, NEW d \in Deployment, NEW x \in Deps!Field,
                      d \in Deps!Live, deps'[d].f[x] # deps[d].f[x]
               PROVE  \E a \in Admin :
              /\ Deps!Moves(a) /\ cmd[a] # None /\ cmd[a].d = d
              /\ \/ /\ cmd[a].ask[x] # Same
                    /\ Deps!Shows(d, x) => cmd[a].kind \in Deps!FileKinds \/ x \in raced[a]
                 \/ cmd[a].kind \in Deps!FileKinds /\ x \in Deps!Removed(cmd[a])
                 \/ x \in WorkQueue /\ deps'[d].f["executor"] # deps[d].f["executor"]
                 \/ x = FirstQueue /\ deps[d].f[x] = None /\ deps'[d].f["executor"] = Celery
                 \/ /\ x \in raced[a]
                    /\ \/ x \in WorkQueue
                       \/ deps'[d].f[x] =
                            (IF x \in Key THEN Deps!Resolve(seen[a][x], deps[d].f[x])
                             ELSE seen[a][x])
    OBVIOUS
  <2>1. PICK a \in Admin : /\ Deps!Moves(a) /\ cmd[a] # None /\ cmd[a].d = d
                           /\ MayChange(a, deps[d].f, deps'[d].f, x)
    BY <1>1
  <2> QED BY <2>1 DEF MayChange, Exposed, Deps!Shows
<1> QED BY <1>2, DepsInvariant, PTL DEF OnlyAskedOrRaced, Deps!OnlyAskedOrRaced, Deps!Spec

=============================================================================
