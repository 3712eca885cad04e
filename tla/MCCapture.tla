----------------------------- MODULE MCCapture -----------------------------
(* Small instances of Capture. *)
EXTENDS Capture, TLC

CONSTANTS g1, g2, old, new, east

\* One connection, or two: a new process of the game, on the same subnet.
OneGame == <<g1>>
TwoGames == <<g1, g2>>
Owners == [c \in Conns |-> IF c = g1 THEN old ELSE new]
OneSubnet == [c \in Conns |-> east]

=============================================================================
