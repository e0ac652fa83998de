------------------------------ MODULE MCEngine ------------------------------
(***************************************************************************)
(* Instances of Engine for TLC.  Three file jobs, two workers.  The walks  *)
(* put side by side what can disturb its neighbour: a masked mutation, an  *)
(* equivalent one and a suppression in the first file; an uncovered line   *)
(* and a plain mutation with the same sort key in the second; and a cache  *)
(* hit in a third file that sorts before both.                             *)
(***************************************************************************)
EXTENDS Engine

MCMutation == {"masked", "same", "bare", "hit", "plain"}
MCSuppression == {"quiet"}

MCWalk == [j \in 1 .. 3 |->
             CASE j = 1 -> <<"masked", "same", "quiet">>
               [] j = 2 -> <<"bare", "plain">>
               [] j = 3 -> <<"hit">>]

\* For a replay: two files, and the wanted mutant between two others.
ReplayWalks == [j \in 1 .. 2 |->
                  IF j = 1 THEN <<"masked", "same", "quiet">> ELSE <<"bare", "hit", "plain">>]

MCRank == [v \in MCMutation \cup MCSuppression |->
             CASE v \in {"masked", "same", "quiet"} -> 3
               [] v \in {"bare", "plain"} -> 2
               [] v = "hit" -> 1]

MCIndex == [m \in {"hit"} |-> "Killed"]

\* A replay of one mutant that an earlier run cached.
JustHit == {"hit"}
=============================================================================
