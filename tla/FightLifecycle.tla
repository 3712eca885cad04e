-------------------------- MODULE FightLifecycle --------------------------
(***************************************************************************)
(* The fight lifecycle of the meter crate (fight.rs): one explicit state   *)
(* machine, Idle -> Active -> Ended, with phase resumption leading back to *)
(* Active and a reset leading to Idle from anywhere.  A refused transition *)
(* is a no-op, never a panic, so every operator here is total.             *)
(*                                                                         *)
(* A lifecycle is a record.  A field its state does not carry is NONE (or  *)
(* FALSE for the one kind of hold there is, the wipe hold).                *)
(***************************************************************************)
EXTENDS Integers

NONE == -1      \* no time is negative, no identifier is this

Causes == {"boss_death", "idle_timeout", "wipe", "server_changed", "scene_changed",
           "dungeon_ended"}

Lifecycles(Times, Mons) ==
  [st : {"idle", "active", "ended"}, start : Times \cup {NONE}, end : Times \cup {NONE},
   observed : Times \cup {NONE}, cause : Causes \cup {"none"}, armed : Mons \cup {NONE},
   hold : BOOLEAN]

Idle == [st |-> "idle", start |-> NONE, end |-> NONE, observed |-> NONE,
         cause |-> "none", armed |-> NONE, hold |-> FALSE]

Running(start, hold) ==
  [st |-> "active", start |-> start, end |-> NONE, observed |-> NONE,
   cause |-> "none", armed |-> NONE, hold |-> hold]

Start(lc, start) == IF lc.st = "idle" THEN Running(start, FALSE) ELSE lc

\* Mutant: an end that comes second overwrites the first.
EndAgain(lc, end, observed, cause, armed) ==
  IF lc.st = "idle" THEN lc
  ELSE [lc EXCEPT !.st = "ended", !.end = end, !.observed = observed, !.cause = cause,
                  !.armed = armed]

End(lc, end, observed, cause, armed) ==
  IF lc.st = "active"
  THEN [lc EXCEPT !.st = "ended", !.end = end, !.observed = observed, !.cause = cause,
                  !.armed = armed]
  ELSE lc

Resume(lc) == IF lc.st = "ended" THEN Running(lc.start, lc.hold) ELSE lc

Hold(lc) == IF lc.st = "ended" THEN [lc EXCEPT !.hold = TRUE] ELSE lc

ReleaseHold(lc) == [lc EXCEPT !.hold = FALSE]

Arm(lc, mon) == IF lc.st = "ended" THEN [lc EXCEPT !.armed = mon] ELSE lc

Disarm(lc) == [lc EXCEPT !.armed = NONE]

(* What every lifecycle the transitions can build satisfies: a state       *)
(* carries exactly its own data, a fight ends no earlier than it started   *)
(* and its end is observed no earlier than it happened.                    *)
WellFormed(lc) ==
  /\ lc.st \in {"idle", "active", "ended"}
  /\ lc.st = "idle" <=> lc.start = NONE
  /\ lc.st = "idle" => ~ lc.hold
  /\ lc.st # "ended" => /\ {lc.end, lc.observed, lc.armed} = {NONE}
                        /\ lc.cause = "none"
  /\ lc.st = "ended" => /\ lc.start <= lc.end /\ lc.end <= lc.observed
                        /\ lc.cause \in Causes
=============================================================================
