---------------------------- MODULE MCEncounter ----------------------------
(* Small instances of Encounter. *)
EXTENDS Encounter

CONSTANTS p1, p2, o1, o2, user, town, dungeon, raid, phase1, phase2, boss, mob

\* Where the user is none of them, the roster's members are alike.
Alike == Permutations(Players)

Hp2 == [e \in Entities |-> 10]
TwoPhases == {{phase1, phase2}}

\* Two phases of one boss, always named.
PhasesMon == <<{phase1}, {phase2}>>
\* The first of them alone.
OneMon == <<{phase1}>>
\* One boss.
BossMon == <<{boss}>>
\* What packets say of an enemy's HP: where it does not die of it, and where
\* it is whole or dead.
LowHp == {Low, Full}
SomeHp == {Dead, Full}

=============================================================================
