---------------------------- MODULE WorkerQueues ----------------------------
(***************************************************************************)
(* The list of worker queues a command sends: CreateOrUpdate and Delete of *)
(* src/cloud/deployment/workerqueue, getQueues of .../fromfile.            *)
(*                                                                         *)
(* The API tells the queues of a Deployment apart by their ids, the user   *)
(* by their names.  The list to be sent is built of copies, but for the id *)
(* and, from a file, the node pool: those are pointers, so what is sent is *)
(* what stands there when the request is made.                             *)
(*                                                                         *)
(* A queue's name is a number, in the alphabetical order of the names, and *)
(* its id on the server is that number too.                                *)
(***************************************************************************)
EXTENDS Naturals, Sequences, FiniteSets, Functions

CONSTANTS
    Names,       \* the names of queues: positive numbers
    Default,     \* the name of the default queue
    Pools,       \* the node pools of a hybrid Deployment, else the machines
    None         \* no name given; no pool

\* What the constants must be; the modules that give them values assume it.
Sound ==
    /\ IsFiniteSet(Names) /\ Names \subseteq Nat \ {0}
    /\ Default \in Names /\ None \notin Names

VARIABLES
    mem,         \* the queues in memory, as the API listed them or sorted
    there,       \* the queues that were on the server
    cmd,
    list,        \* the list to be sent; at is where its id is, 0 is nowhere
    pc

vars == <<mem, there, cmd, list, pc>>

QueueSet == [name : Names, id : Names, pool : Pools]

NamesOf(qs) == {qs[i].name : i \in DOMAIN qs}

\* A Deployment's queues in some order, the default one among them.
Listed ==
    {qs \in UNION {[1..n -> {q \in QueueSet : q.id = q.name}] : n \in 1..Cardinality(Names)} :
        Default \in NamesOf(qs) /\ IsInjective([i \in DOMAIN qs |-> qs[i].name])}

\* create and update give a name or ask for one; update and delete let the
\* user choose in a sorted list.
Command(kinds, names, pools, files) ==
    [kind : kinds, name : names, pool : pools, file : files, hybrid : BOOLEAN]
Commands ==
    UNION {Command({"create"}, Names \ {Default}, Pools, {<<>>}),
           Command({"update"}, Names \union {None}, Pools, {<<>>}),
           Command({"delete"}, (Names \ {Default}) \union {None}, {None}, {<<>>}),
           Command({"file"}, {None}, {None}, Listed)}

\* The queue with as many names before its own as there are places before it.
Rank(n, qs) == Cardinality({m \in NamesOf(qs) : m < n})
SortByName(qs) ==
    [i \in DOMAIN qs |-> qs[CHOOSE k \in DOMAIN qs : Rank(qs[k].name, qs) = i - 1]]

Init ==
    /\ mem \in Listed
    /\ there = mem
    /\ cmd \in Commands
    /\ list = <<>>
    /\ pc = "read"

\* CreateOrUpdate: copies of the queues; the id of each is a pointer into
\* the list that was read.
CopyQueues ==
    /\ pc = "read" /\ cmd.kind \in {"create", "update"}
    /\ list' = [i \in DOMAIN mem |-> [q |-> mem[i], at |-> i]]
    /\ pc' = IF cmd.name = None THEN "select" ELSE "sanitize"
    /\ UNCHANGED <<mem, there, cmd>>

\* selectQueue: sorts the list that was read, in place.
SelectQueue ==
    /\ pc = "select" \/ (pc = "read" /\ cmd.kind = "delete" /\ cmd.name = None)
    /\ mem' = SortByName(mem)
    /\ \E n \in NamesOf(mem) : cmd' = [cmd EXCEPT !.name = n]
    /\ pc' = "sanitize"
    /\ UNCHANGED <<there, list>>

\* sanitizeExistingQueues: sorts the same list, in place.  The default queue
\* cannot be deleted, create wants a new name, update and delete a known one.
Sanitize ==
    /\ \/ pc = "sanitize"
       \/ pc = "read" /\ cmd.kind = "delete" /\ cmd.name # None
    /\ mem' = SortByName(mem)
    /\ pc' = IF (cmd.name \in NamesOf(mem)) = (cmd.kind # "create")
                /\ ~(cmd.kind = "delete" /\ cmd.name = Default)
             THEN cmd.kind ELSE "refused"
    /\ UNCHANGED <<there, cmd, list>>

\* Mutant: the queue to update is appended like a new one.
UpdateQueueListAppends(l, c) ==
    Append(l, [q |-> [name |-> c.name, id |-> c.name, pool |-> c.pool], at |-> 0])

\* updateQueueList, updateHybridQueueList: the queue of that name gets the
\* new resources, "we need IDs to update existing queues".
UpdateQueueList(l, c) ==
    [i \in DOMAIN l |->
        IF l[i].q.name # c.name THEN l[i]
        ELSE [q |-> [l[i].q EXCEPT !.pool = c.pool], at |-> l[i].at]]

CreateQueue ==
    /\ pc = "create"
    /\ list' = Append(list,
          [q |-> [name |-> cmd.name, id |-> cmd.name, pool |-> cmd.pool], at |-> 0])
    /\ pc' = "send"
    /\ UNCHANGED <<mem, there, cmd>>

UpdateQueue ==
    /\ pc = "update"
    /\ list' = UpdateQueueList(list, cmd)
    /\ pc' = "send"
    /\ UNCHANGED <<mem, there, cmd>>

\* Delete builds its list after the sort: of all queues but the one.
DeleteQueue ==
    /\ pc = "delete"
    /\ \E i \in DOMAIN mem :
          /\ mem[i].name = cmd.name
          /\ list' = [k \in 1..(Len(mem) - 1) |->
                LET at == IF k < i THEN k ELSE k + 1 IN [q |-> mem[at], at |-> at]]
    /\ pc' = "send"
    /\ UNCHANGED <<mem, there, cmd>>

\* Mutant: whatever stands at the same place is taken for the queue.
FoundAtPlace(i, f, m) == IF i \in DOMAIN m THEN i ELSE 0

\* Of the sorted lists, a queue of the file is an existing one when that has
\* the same name at the same place.
FoundAt(i, f, m) == IF i \in DOMAIN m /\ m[i].name = f[i].name THEN i ELSE 0

\* getQueues: both lists are sorted.  A file for the Kubernetes executor gets
\* no ids, and is refused when the request is put together.
GetQueues ==
    /\ pc = "read" /\ cmd.kind = "file"
    /\ mem' = SortByName(mem)
    /\ \E kubernetes \in BOOLEAN :
          /\ list' = LET f == SortByName(cmd.file) IN
                [i \in DOMAIN f |->
                   [q |-> f[i], at |-> IF kubernetes THEN 0 ELSE FoundAt(i, f, mem')]]
          /\ pc' = IF kubernetes THEN "refused" ELSE "send"
    /\ UNCHANGED <<there, cmd>>

\* The request: the ids as they stand in memory now; a file's queues all
\* point to the node pool that was looked up last (machines are not looked
\* up).
Send ==
    /\ pc = "send"
    /\ list' = [i \in DOMAIN list |->
          [q |-> [list[i].q EXCEPT
                    !.id = IF list[i].at = 0 THEN 0 ELSE mem[list[i].at].id,
                    !.pool = IF cmd.kind = "file" /\ cmd.hybrid THEN list[Len(list)].q.pool ELSE @],
           at |-> list[i].at]]
    /\ pc' = "sent"
    /\ UNCHANGED <<mem, there, cmd>>

Next ==
    \/ CopyQueues \/ SelectQueue \/ Sanitize \/ CreateQueue \/ UpdateQueue
    \/ DeleteQueue \/ GetQueues \/ Send

Spec == Init /\ [][Next]_vars /\ WF_vars(Next)

-----------------------------------------------------------------------------
(* Properties.                                                             *)

TypeOK ==
    /\ mem \in Seq(QueueSet) /\ there \in Seq(QueueSet)
    /\ cmd.kind \in {"create", "update", "delete", "file"}
    /\ cmd.name \in Names \union {None}
    /\ \A i \in DOMAIN list :
          list[i].q.name \in Names /\ list[i].at \in 0..Len(mem)
    /\ pc \in {"read", "select", "sanitize", "create", "update", "delete",
               "refused", "send", "sent"}

Sent == pc = "sent"
Was(n) == CHOOSE i \in DOMAIN there : there[i].name = n

\* What the user wants there to be.
Wanted ==
    IF cmd.kind = "file" THEN NamesOf(cmd.file)
    ELSE IF cmd.kind = "delete" THEN NamesOf(there) \ {cmd.name}
    ELSE NamesOf(there) \union {cmd.name}

\* A command sends each queue the user wants exactly once, none is lost, and
\* the ones the command is not about stay in their node pool.
NoQueueLost ==
    Sent =>
      /\ {list[i].q.name : i \in DOMAIN list} = Wanted
      /\ Len(list) = Cardinality(Wanted)
      /\ cmd.kind # "file" =>
            \A i \in DOMAIN list :
              LET n == list[i].q.name IN
              n \in NamesOf(there) /\ n # cmd.name =>
                 [list[i].q EXCEPT !.id = n] = there[Was(n)]

\* An existing queue is sent with its own id, a new one with none.
RightId(i) ==
    LET n == list[i].q.name IN
    list[i].q.id = IF n \in NamesOf(there) THEN n ELSE 0

\* "we need IDs to update existing queues": a command that creates, updates or
\* deletes a queue sends each queue that exists with its own id, else the
\* server takes it for another one.
EachItsOwnId == Sent /\ cmd.kind # "file" => \A i \in DOMAIN list : RightId(i)

\* Where that holds: always of a delete, of a create or update when the API
\* lists the queues by name, and of a file's queue, found by its place
\* (getQueues), when as many queues come before it there as on the server.
OwnIdWhenSorted ==
    Sent => \A i \in DOMAIN list :
      \/ RightId(i)
      \/ cmd.kind \in {"create", "update"} /\ there # SortByName(there)
      \/ cmd.kind = "file" /\ Rank(list[i].q.name, cmd.file) # Rank(list[i].q.name, there)

\* What a command sends is what the user wants there to be, each queue under
\* the id that lets the server tell it from the others, as far as ids are found.
QueuesSentRight == NoQueueLost /\ OwnIdWhenSorted

\* "map worker type to node pool id": each queue of a file runs where the
\* file says.
EachItsOwnPool ==
    Sent /\ cmd.kind = "file" =>
      \A i, j \in DOMAIN list :
         \A k \in DOMAIN cmd.file :
            cmd.file[k].name = list[i].q.name => list[i].q.pool = cmd.file[k].pool
=============================================================================
