------------------------------ MODULE Listing ------------------------------
(***************************************************************************)
(* Lists longer than a page: the loops with which the CLI collects what    *)
(* the paged endpoints of the Astro and the Airflow API hold, a page after *)
(* the other by offset.  Each loop has a rule to go on and a rule to stop  *)
(* of its own.  The list is not frozen between two pages: others add to it *)
(* and remove from it.                                                     *)
(***************************************************************************)
EXTENDS Naturals, Sequences, SequencesExt, FiniteSets

CONSTANTS
    Item,
    Limit,       \* the page size a loop asks for
    MaxPages,    \* MaxListPages, maxListPages, maxPaginationPages
    MaxChanges   \* bound: changes others make to the list

VARIABLES
    loop,        \* the loop that runs
    cap,         \* the largest page the server gives
    server,      \* the list on the server, in the order of its pages
    stayed,      \* the items that have been there since the loop began
    got,         \* the items listed so far
    offset, pages,
    changes, removed,
    pc

vars == <<loop, cap, server, stayed, got, offset, pages, changes, removed, pc>>

Loops == {"Collect", "listAllBundles", "byLimit", "ListRoles", "listObjects",
          "fetchAllPages", "executePaginatedRequest"}

\* The loops that go on from the last item they have; the others ask for the
\* next multiple of their page size, or take a short page for the last one.
Careful == {"Collect", "listAllBundles", "executePaginatedRequest"}

\* The loops that count their pages.
Bounded == {"Collect", "listObjects", "executePaginatedRequest"}

Least(m, n) == IF m < n THEN m ELSE n

\* The page the server gives at offset o.
Page(o) == SubSeq(server, o + 1, Least(o + Least(cap, Limit), Len(server)))

Init ==
    /\ loop \in Loops
    /\ cap \in 1..Limit
    /\ \E S \in SUBSET Item : server \in SetToSeqs(S) /\ stayed = S
    /\ got = <<>> /\ offset = 0 /\ pages = 0
    /\ changes = 0 /\ removed = FALSE
    /\ pc = "fetch"

\* A page is added to the list: stop, if done, else go on at offset o.
Take(p, done, o) ==
    /\ got' = got \o p
    /\ pages' = IF loop \in Bounded THEN pages + 1 ELSE 0
    /\ offset' = IF done THEN offset ELSE o
    /\ UNCHANGED <<loop, cap, server, stayed, changes, removed>>

Then(done) ==
    pc' = IF done THEN "done" ELSE IF pages' = MaxPages THEN "aborted" ELSE "fetch"

\* pagination.Collect and Find: up to an empty page or the reported total.
CollectDone(p) == p = <<>> \/ Len(got) + Len(p) >= Len(server)

Collect ==
    /\ pc = "fetch" /\ loop = "Collect"
    /\ LET p == Page(offset) IN
       Take(p, CollectDone(p), Len(got) + Len(p)) /\ Then(CollectDone(p))

\* listAllBundles: the same without a bound on the pages.
ListAllBundles ==
    /\ pc = "fetch" /\ loop = "listAllBundles"
    /\ LET p == Page(offset) IN
       /\ Take(p, CollectDone(p), Len(got) + Len(p))
       /\ pc' = IF CollectDone(p) THEN "done" ELSE "fetch"

\* Mutant: the last page is taken for the one that ends before the total.
ByLimitDoneEarly(o) == Len(server) <= o + Limit + 1

\* listTeams, listTeamMembers, listUsers and the three lists of tokens: one
\* page size further, up to the reported total.
ByLimitDone(o) == Len(server) <= o + Limit

ByLimit ==
    /\ pc = "fetch" /\ loop = "byLimit"
    /\ Take(Page(offset), ByLimitDone(offset), offset + Limit)
    /\ pc' = IF ByLimitDone(offset) THEN "done" ELSE "fetch"

\* ListRoles: the same with one more, empty page.
ListRoles ==
    /\ pc = "fetch" /\ loop = "ListRoles"
    /\ Take(Page(offset), Len(server) <= offset, offset + Limit)
    /\ pc' = IF Len(server) <= offset THEN "done" ELSE "fetch"

\* listObjects (environment objects): up to a short page or the total.
ListObjects ==
    /\ pc = "fetch" /\ loop = "listObjects"
    /\ LET p == Page(offset)
           done == Len(p) < Limit \/ Len(got) + Len(p) >= Len(server) IN
       Take(p, done, Len(got) + Len(p)) /\ Then(done)

\* Mutant: a short page is not the last one.
FetchAllPagesToTotal ==
    /\ pc = "fetch" /\ loop = "fetchAllPages"
    /\ LET p == Page(offset)
           o == offset + Len(p) IN
       \E total \in {0, Len(server)} :
          LET done == total > 0 /\ o >= total IN
          Take(p, done, o) /\ pc' = IF done THEN "done" ELSE "fetch"

\* fetchAllPages (Airflow's connections, variables, pools): up to a short
\* page, or the total where the server reports one.
FetchAllPages ==
    /\ pc = "fetch" /\ loop = "fetchAllPages"
    /\ LET p == Page(offset)
           o == offset + Len(p) IN
       \E total \in {0, Len(server)} :
          LET done == Len(p) < Limit \/ (total > 0 /\ o >= total) IN
          Take(p, done, o) /\ pc' = IF done THEN "done" ELSE "fetch"

\* astro api --paginate: on by what the page held, until nothing is left or
\* a page is empty; after MaxPages pages it warns and ends as if done.
ExecutePaginatedRequest ==
    /\ pc = "fetch" /\ loop = "executePaginatedRequest"
    /\ LET p == Page(offset)
           o == offset + Len(p)
           done == Len(server) = 0 \/ p = <<>> \/ o >= Len(server) IN
       Take(p, done, o) /\ Then(done)

Fetch ==
    \/ Collect \/ ListAllBundles \/ ByLimit \/ ListRoles \/ ListObjects
    \/ FetchAllPages \/ ExecutePaginatedRequest

\* Someone else changes the list: a new item takes its place in the order,
\* an item goes.
Insert ==
    /\ pc = "fetch" /\ changes < MaxChanges
    /\ \E x \in Item \ Range(server), i \in 1..(Len(server) + 1) :
          server' = InsertAt(server, i, x)
    /\ changes' = changes + 1
    /\ UNCHANGED <<loop, cap, stayed, got, offset, pages, removed, pc>>

TakeAway ==
    /\ pc = "fetch" /\ changes < MaxChanges
    /\ \E i \in DOMAIN server :
          /\ server' = RemoveAt(server, i)
          /\ stayed' = stayed \ {server[i]}
    /\ changes' = changes + 1
    /\ removed' = TRUE
    /\ UNCHANGED <<loop, cap, got, offset, pages, pc>>

Next == Fetch \/ Insert \/ TakeAway

Spec == Init /\ [][Next]_vars /\ WF_vars(Fetch)

-----------------------------------------------------------------------------
(* Properties.                                                             *)

TypeOK ==
    /\ loop \in Loops /\ cap \in 1..Limit
    /\ server \in Seq(Item) /\ IsInjective(server)
    /\ stayed \subseteq Range(server)
    /\ got \in Seq(Item)
    /\ offset \in Nat /\ pages \in Nat /\ changes \in 0..MaxChanges
    /\ removed \in BOOLEAN
    /\ pc \in {"fetch", "done", "aborted"}

\* A listing in which nobody inserts has no item twice.
NoneTwice == changes = 0 => IsInjective(got)

\* Every item that was there all the time.
StayedListed ==
    pc = "done" /\ ~removed /\ (cap = Limit \/ loop \in Careful) =>
        stayed \subseteq Range(got)

\* Every listing ends, whatever others change meanwhile, and one that ends well
\* has every item that was there all the time, wherever others insert, as long as
\* nobody removes one: then what follows moves forward over the next offset and
\* an item may be skipped.  The loops that count in their own page size need a
\* server that grants it.
ListsAll == <>(pc # "fetch") /\ []StayedListed
=============================================================================
