------------------------------ MODULE Fights ------------------------------
(***************************************************************************)
(* What the pipeline, and through it the history, may rely on of the       *)
(* meter: a session is a sequence of fights.  One at a time is on the      *)
(* board; it begins, ends, and stays as it ended until it is handed back,  *)
(* unless a next phase goes on with it.  Only the user, the dungeon and a  *)
(* re-pull throw one away.  Which packets decide all that, who fought and  *)
(* how long anything is waited for is Encounter's business.                *)
(***************************************************************************)
EXTENDS Integers

VARIABLES
  fight,    \* the fight on the board: its state, start, end, cause, open to a next phase
  handed,   \* the fight the last call handed back
  reason,   \* why the last call cleared the board, "none" if it did not
  clock     \* the time of the packets

vars == <<fight, handed, reason, clock>>

None(f) == f.st = "idle"

(* A fight begins with the packet in hand, which may be the blow that ends it. *)
Begun(f) == ~ None(f) /\ f.start = clock /\ (f.st = "ended" => f.end = clock)

(* It ends no later than the packet in hand, but for the change of server, *)
(* which is known before its packets are.                                  *)
Ended(f, g) ==
  /\ f.st = "active" /\ g.st = "ended" /\ g.start = f.start
  /\ g.start <= g.end /\ (g.end <= clock \/ g.cause = "server_changed")

(* An end stands, and what is over for good never opens again. *)
Stands(f, g) ==
  /\ f.st = "ended" /\ g.st = "ended"
  /\ g.start = f.start /\ g.end = f.end /\ g.cause = f.cause /\ (g.open => f.open)

Runs(f, g) == f.st = "active" /\ g.st = "active" /\ g.start = f.start

(* The next phase goes on with the same fight, and may end it at once. *)
GoesOn(f, g) ==
  /\ f.st = "ended" /\ f.open
  /\ ~ None(g) /\ g.start = f.start /\ (g.st = "ended" => g.end = clock)

---------------------------------------------------------------------------
Init == None(fight) /\ None(handed) /\ reason = "none" /\ clock = 0

Nothing == None(fight) /\ None(fight') /\ None(handed')
Begin == None(fight) /\ Begun(fight') /\ None(handed') /\ reason' = "none"
Go ==
  /\ Runs(fight, fight') \/ Ended(fight, fight') \/ Stands(fight, fight') \/ GoesOn(fight, fight')
  /\ None(handed') /\ reason' = "none"

(* A fight that is over makes room, for nothing or for a later one. *)
HandBack ==
  /\ Ended(fight, handed') \/ Stands(fight, handed')
  /\ None(fight') \/ Begun(fight')
  /\ None(fight') \/ handed'.end <= fight'.start \/ handed'.cause = "server_changed"
  /\ reason' \notin {"none", "manual"}

(* A running fight is thrown away. *)
Discard ==
  /\ fight.st = "active" /\ None(fight') /\ None(handed')
  /\ reason' \in {"dungeon_started", "boss_hp_rollback"}

Clear == reason' = "manual" /\ None(fight') /\ None(handed')

Later == clock' >= clock /\ fight' = fight /\ None(handed') /\ reason' = "none"

Next == \/ Later
        \/ clock' = clock /\ (Nothing \/ Begin \/ Go \/ HandBack \/ Discard \/ Clear)

Spec == Init /\ [][Next]_vars

=============================================================================
