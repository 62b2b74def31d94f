----------------------------- MODULE MCManagement -----------------------------
(* Three parts of the administration of an Organization that share no state,  *)
(* side by side in one run: roles and tokens, a list longer than a page, and  *)
(* the queues of one command.  In each behaviour one of them moves and the    *)
(* others stay as they are.                                                   *)
EXTENDS AccessManagement, Sequences, TLC

CONSTANTS
    t1, u1, o1, wt1, dt1, w1, d1, r1, r2, n1, n2,
    Item, Limit, MaxPages, MaxChanges,
    Names, Pools, TheDefault

VARIABLES
    moves,
    loop, cap, server, stayed, got, offset, pages, changes, removed, lpc,
    mem, there, qcmd, list, qpc

Lists == INSTANCE Listing WITH pc <- lpc
Queues == INSTANCE WorkerQueues WITH
    Default <- TheDefault, cmd <- qcmd, pc <- qpc

ASSUME QueuesSound == Queues!Sound

listVars == <<loop, cap, server, stayed, got, offset, pages, changes, removed, lpc>>
queueVars == <<mem, there, qcmd, list, qpc>>
allVars == <<moves, vars, listVars, queueVars>>

\* Everyone holds a role in the Organization and the Workspace; teams and
\* tokens are all there or all still to be made.
HeldRoles ==
    [x \in Field |->
        IF x = "name" THEN n1 ELSE IF x \in {Org, w1} THEN r1 ELSE None]
AccessInit ==
    /\ \E l \in IF moves = "access" THEN {"live", "unborn"} ELSE {"live"} :
          store = [s \in Subject |->
                    [life |-> IF s = u1 THEN "live" ELSE l, secret |-> 0,
                     f |-> HeldRoles]]
    /\ members = [t \in {t1} |-> {}]
    /\ pc = [a \in Admin |-> "idle"]
    /\ cmd = [a \in Admin |-> None]
    /\ seen = [a \in Admin |-> Blank]
    /\ raced = [a \in Admin |-> {}]
    /\ begun = 0

ListsInit ==
    IF moves = "list" THEN Lists!Init
    ELSE /\ loop = "Collect" /\ cap = Limit /\ server = <<>> /\ stayed = {}
         /\ got = <<>> /\ offset = 0 /\ pages = 0 /\ changes = 0
         /\ removed = FALSE /\ lpc = "done"

QueuesInit ==
    IF moves = "queues" THEN Queues!Init
    ELSE /\ mem = <<>> /\ there = <<>> /\ list = <<>> /\ qpc = "refused"
         /\ qcmd = [kind |-> "create", name |-> None, pool |-> None, file |-> <<>>,
                    hybrid |-> FALSE]

MCInit ==
    /\ moves \in {"access", "list", "queues"}
    /\ AccessInit /\ ListsInit /\ QueuesInit

MCNext ==
    \/ /\ moves = "access" /\ Next
       /\ UNCHANGED <<moves, listVars, queueVars>>
    \/ /\ moves = "list" /\ Lists!Next
       /\ UNCHANGED <<moves, vars, queueVars>>
    \/ /\ moves = "queues" /\ Queues!Next
       /\ UNCHANGED <<moves, vars, listVars>>

MCSpec == MCInit /\ [][MCNext]_allVars /\ WF_listVars(moves = "list" /\ Lists!Fetch)
QueuesSpec == MCInit /\ moves = "queues" /\ [][MCNext]_allVars

Admins == Permutations(Admin)

\* What the run checks of the two instances.
ListsAll == Lists!ListsAll
QueuesSentRight == Queues!QueuesSentRight
EachItsOwnId == Queues!EachItsOwnId
EachItsOwnPool == Queues!EachItsOwnPool
=============================================================================
