---------------------------- MODULE MCStandalone ----------------------------
(* One project's standalone Airflow over two terminals and two PIDs, and   *)
(* the persistSigningSecret of three of its starts step by step.  In each  *)
(* behaviour one of the two moves: Standalone takes in one step what       *)
(* SigningSecret takes apart.                                              *)
EXTENDS SigningSecret

CONSTANTS Clis, Pids, NoPid, Secrets, NoSecret, Overlaps

ASSUME PidAssumption == NoPid \notin Pids

VARIABLES moves, home, pidFile, secret, route, group, cli

Airflow == INSTANCE Standalone

secretVars == <<hardLinks, legacy, file, pc, mem, kept>>
airflowVars == <<home, pidFile, secret, route, group, cli>>

MCInit ==
  /\ moves \in {"secret", "airflow"}
  /\ Airflow!Init
  /\ IF moves = "secret" THEN Init
     ELSE /\ hardLinks = TRUE /\ legacy = FALSE /\ file = Absent /\ kept = {}
          /\ pc = [s \in Starts |-> "read"] /\ mem = [s \in Starts |-> Empty]

MCNext ==
  \/ moves = "secret" /\ Next /\ UNCHANGED <<moves, airflowVars>>
  \/ moves = "airflow" /\ Airflow!Next /\ UNCHANGED <<moves, secretVars>>

MCSpec ==
  /\ MCInit /\ [][MCNext]_<<moves, secretVars, airflowVars>>
  /\ \A c \in Clis : WF_airflowVars(moves = "airflow" /\ Airflow!StopStep(c))

\* What the run checks of Standalone.
Reachable == Airflow!Reachable
RouteKeptWhileUp == Airflow!RouteKeptWhileUp
StopsEnd == Airflow!StopsEnd
=============================================================================
