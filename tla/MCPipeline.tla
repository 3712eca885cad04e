---------------------------- MODULE MCPipeline ----------------------------
(* Small instances of Pipeline. *)
EXTENDS Pipeline

CONSTANTS p1, p2, user, town, dungeon, phase1, phase2, boss

\* The roster's members are alike.
Alike == Permutations(Players)

Hp2 == [e \in Entities |-> 10]
TwoPhases == {{phase1, phase2}}

\* One slot, which the two phases of one boss and a boss of one phase are
\* given in turn, or that last boss alone.
TurnsMon == <<{phase1, phase2, boss}>>
LoneMon == <<{boss}>>
\* What packets say of an enemy's HP: deaths come in packets of their own.
FullHp == {Full}

=============================================================================
