---------------------------- MODULE UpgradeTest ----------------------------
(***************************************************************************)
(* `astro dev upgrade-test` (src/airflow/docker.go, src/cmd/airflow.go):   *)
(* how would this project fare with another version of Airflow?  The       *)
(* project's image is built as it is, frozen, built again for the new      *)
(* version, frozen again, and its DAGs are parsed in the new one.  All     *)
(* these images have one name on the machine, and docker's answers are     *)
(* about whatever has the name when it is asked; the reports are files in  *)
(* a directory of the project named after the two versions.  Tests of any  *)
(* projects run from several terminals.                                    *)
(***************************************************************************)
EXTENDS Naturals

CONSTANTS
    Terminal, Project, Deployment, Version, None,
    Running,           \* the version each project and deployment runs now
    Asks,              \* the sets of tests that are asked for
    MaxTests           \* bound: tests begun

Place == Project \union Deployment

Sound ==
    /\ None \notin [of : Place, version : Version, pytest : BOOLEAN]
    /\ Running \in [Place -> Version]

VARIABLES
    image,             \* the image named tmp-upgrade-test
    tree,              \* tree[p]: what tests leave in project p
    pc, test,          \* of each terminal: where its test is, and the test
    met,               \* met[t]: another test ran while t's did, or has begun since
    begun

vars == <<image, tree, pc, test, met, begun>>

\* Whose image, of which version, and whether pytest-html is in it.
Image == [of : Place, version : Version, pytest : BOOLEAN]
Maybe == Image \union {None}
Dir == Version \X Version      \* upgrade-test-<current>--<new>
Tests == {"version", "dag", "lint"}

NoReports == [freeze |-> [v \in Version |-> None], before |-> None,
              after |-> None, parsed |-> None, linted |-> FALSE]

NoTest == [project |-> None, deployment |-> None, new |-> None, tests |-> {},
           current |-> None, passed |-> TRUE, parsed |-> FALSE]

\* What docker makes of a project's Dockerfile that names version v.
Built(p, v) == [of |-> p, version |-> v, pytest |-> tree[p].pytest]

-----------------------------------------------------------------------------
Init ==
    /\ image \in Maybe
    /\ tree = [p \in Project |->
          [ignored |-> FALSE, pytest |-> FALSE, dockerfile |-> [d \in Dir |-> None],
           reports |-> [d \in Dir |-> NoReports]]]
    /\ pc = [t \in Terminal |-> "idle"]
    /\ test = [t \in Terminal |-> NoTest]
    /\ met = [t \in Terminal |-> FALSE]
    /\ begun = 0

Ended == {"idle", "done"}

\* The command ends without a summary.
GiveUp(t) ==
    /\ pc' = [pc EXCEPT ![t] = "idle"]
    /\ test' = [test EXCEPT ![t] = NoTest]
    /\ met' = [met EXCEPT ![t] = FALSE]

Goto(t, l) == pc' = [pc EXCEPT ![t] = l]
Where(t) == <<test[t].current, test[t].new>>

\* What the test asks for next: the first of the tests from `after` on.
Next1(t, after) ==
    IF after < 1 /\ "version" \in test[t].tests THEN "freeze"
    ELSE IF after < 2 /\ "dag" \in test[t].tests THEN "upgrade"
    ELSE IF after < 3 /\ "lint" \in test[t].tests THEN "lint"
    ELSE "done"

\* A file of t's test directory.
Report(t, f, v) ==
    tree' = [tree EXCEPT ![test[t].project].reports[Where(t)][f] = v]

\* airflowUpgradeTest: the options and the line in .gitignore.  To ask for
\* no test is to ask for all.
Begin(t) ==
    /\ pc[t] \in Ended /\ begun < MaxTests
    /\ \E p \in Project, d \in Deployment \union {None}, v \in Version,
          ts \in Asks :
          /\ test' = [test EXCEPT ![t] = [NoTest EXCEPT !.project = p, !.deployment = d,
                                             !.new = v, !.tests = ts]]
          /\ tree' = [tree EXCEPT ![p].ignored = TRUE]
    /\ met' = [u \in Terminal |->
          IF u = t THEN \E w \in Terminal : pc[w] \notin Ended
          ELSE met[u] \/ pc[u] # "idle"]
    /\ begun' = begun + 1
    /\ Goto(t, "base")
    /\ UNCHANGED image

\* With a deployment its image is pulled, under its own name; without, the
\* project's is built, under tmp-upgrade-test.
Base(t) ==
    /\ pc[t] = "base"
    /\ image' = IF test[t].deployment = None 
              THEN Built(test[t].project, Running[test[t].project]) ELSE image
    /\ Goto(t, "label")
    /\ UNCHANGED <<tree, test, met, begun>>

\* GetLabel: the current version is that of the image named tmp-upgrade-test,
\* a deployment's image is not asked for it.  Without such an image the
\* command fails.
Label(t) ==
    /\ pc[t] = "label" /\ image # None
    /\ test' = [test EXCEPT ![t].current = image.version]
    /\ Goto(t, Next1(t, 0))
    /\ UNCHANGED <<image, tree, met, begun>>

\* versionTest, CreatePipFreeze: the packages in the image, by its name.
Freeze(t) ==
    /\ pc[t] \in {"freeze", "freeze_new"} /\ image # None
    /\ LET v == IF pc[t] = "freeze" THEN test[t].current ELSE test[t].new IN
       tree' = [tree EXCEPT ![test[t].project].reports[Where(t)].freeze[v] = image]
    /\ Goto(t, IF pc[t] = "freeze" THEN "rewrite" ELSE "compare")
    /\ UNCHANGED <<image, test, met, begun>>

\* upgradeDockerfile: a Dockerfile of the new version in the test directory.
UpgradeDockerfile(t) ==
    /\ pc[t] \in {"rewrite", "upgrade"}
    /\ tree' = [tree EXCEPT ![test[t].project].dockerfile[Where(t)] = test[t].new]
    /\ Goto(t, IF pc[t] = "rewrite" THEN "build" ELSE "require")
    /\ UNCHANGED <<image, test, met, begun>>

\* Mutant: the new image is not built before it is frozen.
FaultBuildNothing(t) ==
    /\ pc[t] \in {"build", "build_tests"}
    /\ Goto(t, IF pc[t] = "build" THEN "freeze_new" ELSE "unrequire")
    /\ UNCHANGED <<image, tree, test, met, begun>>

\* The image for the new version, from that Dockerfile.
BuildNew(t) ==
    /\ pc[t] \in {"build", "build_tests"}
    /\ image' = Built(test[t].project,
                      tree[test[t].project].dockerfile[Where(t)])
    /\ Goto(t, IF pc[t] = "build" THEN "freeze_new" ELSE "unrequire")
    /\ UNCHANGED <<tree, test, met, begun>>

\* CreateVersionTestFile: from the two files the freezes left.
Compare(t) ==
    /\ pc[t] = "compare"
    /\ LET r == tree[test[t].project].reports[Where(t)] IN
       tree' = [tree EXCEPT ![test[t].project].reports[Where(t)] =
          [r EXCEPT !.before = r.freeze[test[t].current],
                    !.after = r.freeze[test[t].new]]]
    /\ Goto(t, Next1(t, 1))
    /\ UNCHANGED <<image, test, met, begun>>

\* dagTest: pytest-html is among the requirements while the image is built.
Require(t) ==
    /\ pc[t] = "require"
    /\ tree' = [tree EXCEPT ![test[t].project].pytest = TRUE]
    /\ Goto(t, "build_tests")
    /\ UNCHANGED <<image, test, met, begun>>

Unrequire(t) ==
    /\ pc[t] = "unrequire"
    /\ tree' = [tree EXCEPT ![test[t].project].pytest = FALSE]
    /\ IF test[t].passed THEN Goto(t, "parse") /\ UNCHANGED <<test, met>>
       ELSE GiveUp(t)
    /\ UNCHANGED <<image, begun>>

\* The build fails: dagTest first takes its line out again.
BuildFails(t) ==
    /\ pc[t] \in {"build", "build_tests"}
    /\ IF pc[t] = "build" THEN GiveUp(t)
       ELSE /\ Goto(t, "unrequire")
            /\ test' = [test EXCEPT ![t].passed = FALSE]
            /\ UNCHANGED met
    /\ UNCHANGED <<image, tree, begun>>

\* Pytest, in the image of that name: exit code 1 is a verdict on the DAGs.
\* A project without the parse test's file is not parsed, which counts as
\* not passed, and the report of an earlier test stays.
Parse(t) ==
    /\ pc[t] = "parse" /\ image # None
    /\ \E passed \in BOOLEAN, there \in BOOLEAN :
          /\ IF there THEN Report(t, "parsed", image)
             ELSE ~passed /\ UNCHANGED tree
          /\ test' = [test EXCEPT ![t].passed = passed, ![t].parsed = there]
    /\ Goto(t, Next1(t, 2))
    /\ UNCHANGED <<image, met, begun>>

\* lintTest: ruff, in an image of its own.
Lint(t) ==
    /\ pc[t] = "lint"
    /\ \E passed \in BOOLEAN :
          test' = [test EXCEPT ![t].passed = @ /\ passed]
    /\ Report(t, "linted", TRUE)
    /\ Goto(t, "done")
    /\ UNCHANGED <<image, met, begun>>

\* Anything fails, or the command is killed: it ends there.
Fail(t) ==
    /\ pc[t] \notin Ended
    /\ GiveUp(t)
    /\ UNCHANGED <<image, tree, begun>>

Next ==
    \E t \in Terminal :
        \/ Begin(t) \/ Base(t) \/ Label(t) \/ Freeze(t) \/ UpgradeDockerfile(t)
        \/ BuildNew(t) \/ BuildFails(t) \/ Compare(t) \/ Require(t) \/ Unrequire(t)
        \/ Parse(t) \/ Lint(t) \/ Fail(t)

Spec == Init /\ [][Next]_vars

-----------------------------------------------------------------------------
(* Properties.                                                             *)

TypeOK ==
    /\ image \in Maybe
    /\ \A p \in Project, d \in Dir :
          /\ tree[p].ignored \in BOOLEAN /\ tree[p].pytest \in BOOLEAN
          /\ tree[p].dockerfile[d] \in {None, d[2]}
          /\ LET r == tree[p].reports[d] IN
             /\ {r.before, r.after, r.parsed} \subseteq Maybe
             /\ r.freeze \in [Version -> Maybe]
    /\ \A t \in Terminal :
          /\ pc[t] \notin Ended \union {"base", "label"} => Where(t) \in Dir
          /\ met[t] \in BOOLEAN

IsOf(i, x, v) == i # None /\ i.of = x /\ i.version = v

\* A test that met no other reports, until the next one begins, on its own
\* project and on the versions its directory is named after: the comparison
\* is of the project as it is and as it would be, and the DAGs it parsed were
\* parsed in the latter, although all those images have the one name and
\* earlier tests have left reports.  For a test against a deployment this is
\* true of the new image only.
ReportsItsOwn ==
    \A t \in Terminal :
        pc[t] = "done" /\ ~met[t] =>
            LET r == tree[test[t].project].reports[Where(t)] IN
            /\ "version" \in test[t].tests =>
                  /\ IsOf(r.after, test[t].project, test[t].new)
                  /\ test[t].deployment = None =>
                        IsOf(r.before, test[t].project, Running[test[t].project])
            /\ test[t].parsed =>
                  IsOf(r.parsed, test[t].project, test[t].new) /\ r.parsed.pytest

\* What --deployment-id promises: the dependencies compared are those of the
\* deployment.
AgainstTheDeployment ==
    \A t \in Terminal :
        pc[t] = "done" /\ ~met[t] /\ "version" \in test[t].tests
        /\ test[t].deployment # None
        => IsOf(tree[test[t].project].reports[Where(t)].before,
                test[t].deployment, Running[test[t].deployment])
=============================================================================
