-------------------------- MODULE MCConfigStore --------------------------
(***************************************************************************)
(* The home configuration file under two CLI processes, and the login of a *)
(* context from one command to the next: ConfigStore tells the steps of a  *)
(* save apart, CloudSession what is saved.  In the same directory lies the *)
(* Otto binary.  In each behaviour one of the three moves.                 *)
(*                                                                         *)
(* The files the processes may find: one from before the stamp, with a     *)
(* default written out and a login; the same with a setting of the user's  *)
(* own; and a stamped one with two logins.                                 *)
(***************************************************************************)
EXTENDS ConfigStore, TLC

CONSTANTS c1, c2, d1, d2, o1, o2, w1, w2, w3,
          User, Org, Workspace, Holds, ApiToken, Key, Life, Hour, Margin,
          MaxTime, MaxBegun, MaxKills,
          Inode, Torn, MinVersion, Newest

VARIABLES
  moves,
  ctx, selected, of, clean, member, now, spc, scmd, saves, then, setup, asOf, begun, kills,
  latest, pkg, inode, bin, check, launch, met, cut, used

Old == [stamp |-> FALSE, pin |-> "shipped", current |-> d1,
        contexts |-> {d1}, access |-> {d1}, refresh |-> {d1}]

Stamped == [stamp |-> TRUE, pin |-> "shipped", current |-> d1,
            contexts |-> {d1, d2}, access |-> {d1, d2}, refresh |-> {d1, d2}]

Files == {Old, [Old EXCEPT !.pin = "own"], Stamped}

StampedFile == {Stamped}

\* An API token that expires while the clock runs, a token that is none.
ApiTokens == {[bad |-> "no", until |-> 2, org |-> o1, ws |-> w1],
              [bad |-> "other", until |-> 2, org |-> o1, ws |-> Nothing]}

ApiKeys == {[org |-> o1, ws |-> w1]}

HeldBy == o1 :> {w1} @@ o2 :> {w2, w3}

Session == INSTANCE CloudSession WITH
  None <- Nothing, pc <- spc, cmd <- scmd, todo <- saves

ASSUME SessionSound == Session!Sound

Otto == INSTANCE OttoUpdate WITH
  Cli <- CLIs, None <- Nothing, file <- inode, cache <- check, cli <- launch,
  MaxBegun <- MaxCommands, MaxFaults <- MaxKills

ASSUME OttoSound == Otto!Sound

fileVars == vars
ottoVars == <<latest, pkg, inode, bin, check, launch, met, cut, used>>
sessionVars == <<ctx, selected, of, clean, member, now, spc, scmd, saves, then, setup,
                 asOf, begun, kills>>
allVars == <<moves, fileVars, sessionVars, ottoVars>>

Symmetric == Permutations(CLIs) \cup Permutations(User)

\* Where the file does not move there is one.
MCInit ==
  /\ moves \in {"file", "session", "otto"}
  /\ Init /\ (moves # "file" => file = [body |-> "whole", data |-> Stamped])
  /\ Session!Init
  /\ Otto!OttoInit /\ (moves # "otto" => pkg = Nothing)

MCNext ==
  \/ moves = "file" /\ Next /\ UNCHANGED <<moves, sessionVars, ottoVars>>
  \/ moves = "session" /\ Session!Next /\ UNCHANGED <<moves, fileVars, ottoVars>>
  \/ moves = "otto" /\ Otto!OttoNext /\ UNCHANGED <<moves, fileVars, sessionVars>>

MCSpec == MCInit /\ [][MCNext]_allVars
FileSpec == MCInit /\ moves = "file" /\ [][MCNext]_allVars

\* What the run checks of the login, and of the Otto binary.
SessionFits == Session!SessionFits
OttoWhole == Otto!OttoWhole
=============================================================================
