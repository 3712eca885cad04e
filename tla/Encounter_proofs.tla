-------------------------- MODULE Encounter_proofs --------------------------
(***************************************************************************)
(* What is proved of the encounter tracker, whatever the roster, the       *)
(* enemies, the tables, the windows and the lag between the two clocks:    *)
(* the times of a fight are in order, its end is final, nothing erases it  *)
(* unnoticed, no hold swallows a pull, and the meter implements Fights.    *)
(*                                                                         *)
(* The arguments are about the functions the handlers are built from. The  *)
(* first half follows the times: Ok is a property of a meter that each of  *)
(* them preserves, given the capture clock c and the pipeline's clock n;   *)
(* what the handlers decide (who is the boss, who is down, which window is *)
(* open) is never used, only which time each of them stamps the fight      *)
(* with.  The second half follows the fight itself: From says that a meter *)
(* came of another without a reset or a resumption, and Went what a whole  *)
(* handler may do to the fight it finds.  In both, first the transitions   *)
(* of the lifecycle, then the functions on the meter, then one lemma per   *)
(* handler, then the step.  The refinement of Fights puts the two together: *)
(* Went says which fight a step leads to, Begins, EndedBy and Decoded with *)
(* which times.                                                            *)
(***************************************************************************)
EXTENDS Encounter, TLAPS

(* An end is seen in a packet, or in the change of server ahead of its own. *)
Decoded(end, cause, c) == end <= c \/ cause = "server_changed"

(* The inductive invariant, for a lifecycle l and the time of the last hit. *)
(* Beyond ClocksInOrder it knows the shape of the record, that its times    *)
(* are numbers, and that the last hit is one too: without that a fight could *)
(* end at the NONE of a meter nothing ever hit.                             *)
OkTimes(l, last, c, n) ==
  /\ DOMAIN l = DOMAIN Idle
  /\ l.start \in Int /\ l.end \in Int /\ l.observed \in Int
  /\ WellFormed(l)
  /\ last \in Nat /\ last <= c
  /\ l.st # "idle" => l.start <= last
  /\ l.st = "ended" => last <= l.end /\ l.observed <= n /\ Decoded(l.end, l.cause, c)

(* What a hit needs to stamp the fight: a fight that has ended did so at c. *)
OpenAt(l, c) == l.st = "ended" => l.end = c

(* The capture clock trails the pipeline's. *)
Clocks(c, n) == c \in Nat /\ n \in Nat /\ c <= n

---------------------------------------------------------------------------
(* The transitions.  An end keeps the order if its time is not before the   *)
(* last hit and its observation not before its time.                        *)
LEMMA EndTimes ==
  ASSUME NEW l, NEW last, NEW c, NEW n, Clocks(c, n), OkTimes(l, last, c, n),
         NEW end \in Int, NEW observed \in Int, NEW cause \in Causes, NEW armed,
         l.st = "active" => /\ last <= end /\ end <= observed /\ observed <= n
                            /\ Decoded(end, cause, c)
  PROVE  OkTimes(End(l, end, observed, cause, armed), last, c, n)
<1> DEFINE r == End(l, end, observed, cause, armed)
<1> SUFFICES OkTimes(r, last, c, n)
  OBVIOUS
<1>1. CASE l.st # "active"
  BY <1>1 DEF End
<1>2. CASE l.st = "active"
  <2>1. /\ DOMAIN r = DOMAIN l /\ r.st = "ended" /\ r.start = l.start
        /\ r.end = end /\ r.observed = observed /\ r.cause = cause
    BY <1>2, Zenon DEF End, OkTimes, Idle
  <2> HIDE DEF r
  <2>2. QED
    BY <1>2, <2>1 DEF OkTimes, WellFormed, Clocks, NONE
<1>3. QED
  BY <1>1, <1>2

(* The wipe hold moves no time, and is never put on a fight not started. *)
LEMMA HoldTimes ==
  ASSUME NEW l, NEW last, NEW c, NEW n, OkTimes(l, last, c, n)
  PROVE  OkTimes(Hold(l), last, c, n) /\ OkTimes(ReleaseHold(l), last, c, n)
<1>1. ASSUME NEW r, NEW b \in BOOLEAN, l.st # "idle" \/ ~ b, r = [l EXCEPT !.hold = b]
      PROVE  OkTimes(r, last, c, n)
  <2>1. /\ DOMAIN r = DOMAIN l /\ r.st = l.st /\ r.start = l.start
        /\ r.end = l.end /\ r.observed = l.observed /\ r.cause = l.cause
        /\ r.armed = l.armed /\ r.hold = b
    BY <1>1, Zenon DEF OkTimes, Idle
  <2>2. QED
    BY <1>1, <2>1 DEF OkTimes, WellFormed
<1>2. QED
  BY <1>1, Zenon DEF Hold, ReleaseHold

(* Nor does arming a boss. *)
LEMMA ArmTimes ==
  ASSUME NEW l, NEW last, NEW c, NEW n, OkTimes(l, last, c, n), NEW mon
  PROVE  OkTimes(Arm(l, mon), last, c, n) /\ OkTimes(Disarm(l), last, c, n)
<1>1. ASSUME NEW r, NEW a, l.st = "ended" \/ a = NONE, r = [l EXCEPT !.armed = a]
      PROVE  OkTimes(r, last, c, n)
  <2>1. /\ DOMAIN r = DOMAIN l /\ r.st = l.st /\ r.start = l.start
        /\ r.end = l.end /\ r.observed = l.observed /\ r.cause = l.cause
        /\ r.armed = a /\ r.hold = l.hold
    BY <1>1, Zenon DEF OkTimes, Idle
  <2>2. QED
    BY <1>1, <2>1 DEF OkTimes, WellFormed
<1>2. QED
  BY <1>1, Zenon DEF Arm, Disarm

(* A running fight needs only that it started by its last hit. *)
LEMMA RunningTimes ==
  ASSUME NEW last, NEW c, NEW n, NEW start \in Int, NEW hold, start # NONE,
         last \in Nat, start <= last, last <= c
  PROVE  OkTimes(Running(start, hold), last, c, n)
BY DEF OkTimes, WellFormed, Running, Idle, NONE

(* So an ended fight may run again. *)
LEMMA ResumeTimes ==
  ASSUME NEW l, NEW last, NEW c, NEW n, OkTimes(l, last, c, n)
  PROVE  OkTimes(Resume(l), last, c, n)
<1>1. CASE l.st = "ended"
  <2>1. l.start \in Int /\ l.start # NONE /\ l.start <= last /\ last \in Nat /\ last <= c
    BY <1>1 DEF OkTimes, WellFormed
  <2>2. QED
    BY <1>1, <2>1, RunningTimes DEF Resume
<1>2. CASE l.st # "ended"
  BY <1>2 DEF Resume
<1>3. QED
  BY <1>1, <1>2

(* Ending at c, arming and holding keep a fight open at c. *)
LEMMA OpenKept ==
  ASSUME NEW l, NEW c, NEW n, NEW last, OkTimes(l, last, c, n), OpenAt(l, c),
         NEW cause, NEW armed, NEW observed
  PROVE  /\ OpenAt(End(l, c, observed, cause, armed), c)
         /\ OpenAt(Arm(l, armed), c) /\ OpenAt(Hold(l), c)
BY Zenon DEF OpenAt, End, Arm, Hold, OkTimes, Idle

---------------------------------------------------------------------------
(* The same for a meter: it has its fields, and its times are in order. *)
Ok(m, c, n) == DOMAIN m = DOMAIN NewMeter /\ OkTimes(m.lc, m.last_event, c, n)

Same(m, r) == DOMAIN r = DOMAIN m /\ r.lc = m.lc /\ r.last_event = m.last_event

(* A function that touches neither the lifecycle nor the last hit is safe. *)
LEMMA SameOk ==
  ASSUME NEW m, NEW r, NEW c, NEW n, Ok(m, c, n), Same(m, r) PROVE Ok(r, c, n)
BY DEF Ok, Same

(* One that only rewrites the lifecycle is as safe as the transition. *)
LEMMA SetLcOk ==
  ASSUME NEW m, NEW c, NEW n, NEW l, Ok(m, c, n), OkTimes(l, m.last_event, c, n)
  PROVE  /\ Ok([m EXCEPT !.lc = l], c, n) /\ [m EXCEPT !.lc = l].lc = l
         /\ [m EXCEPT !.lc = l].last_event = m.last_event
BY Zenon DEF Ok, NewMeter

(* The functions on rows, enemies and the dungeon are of the first kind. *)
LEMMA RowsSame ==
  ASSUME NEW m, DOMAIN m = DOMAIN NewMeter, NEW p, NEW e, NEW enemy, NEW members
  PROVE  /\ Same(m, m) /\ Same(m, Recompute(m)) /\ Same(m, MarkDead(m, e))
         /\ Same(m, PutEnemy(m, e, enemy)) /\ Same(m, ClearEnemies(m))
         /\ Same(m, PruneStalePreloads(m)) /\ Same(m, ClearDungeon(m))
         /\ Same(m, RecordDeath(m, p)) /\ Same(m, StandUp(m, p))
         /\ Same(m, Accumulate(m, p)) /\ Same(m, Keep(m, members))
         /\ Same(m, ApplyPlayer(m, p))
<1>1. Same(m, m) /\ Same(m, Recompute(m))
  BY Zenon DEF Same, Recompute, NewMeter
<1>2. Same(m, MarkDead(m, e)) /\ Same(m, PutEnemy(m, e, enemy))
  BY Zenon DEF Same, MarkDead, PutEnemy, NewMeter
<1>3. Same(m, ClearEnemies(m)) /\ Same(m, PruneStalePreloads(m)) 
  BY Zenon DEF Same, ClearEnemies, PruneStalePreloads, NewMeter
<1>4. Same(m, ClearDungeon(m))
  BY Zenon DEF Same, ClearDungeon, NewMeter
<1>5. Same(m, RecordDeath(m, p)) /\ Same(m, StandUp(m, p)) /\ Same(m, Accumulate(m, p))
  BY Zenon DEF Same, RecordDeath, StandUp, Accumulate, NewMeter
<1>6. Same(m, Keep(m, members)) /\ Same(m, ApplyPlayer(m, p))
  BY Zenon DEF Same, Keep, ApplyPlayer, NewMeter
<1>7. QED
  BY <1>1, <1>2, <1>3, <1>4, <1>5, <1>6

(* Those on the lifecycle are of the second. *)
LEMMA LatchOk ==
  ASSUME NEW m, NEW c, NEW n, Clocks(c, n), Ok(m, c, n),
         NEW cause \in Causes, NEW end \in Int, NEW observed \in Int,
         m.last_event <= end, end <= observed, observed <= n, Decoded(end, cause, c)
  PROVE  /\ Ok(Latch(m, cause, end, observed), c, n)
         /\ Latch(m, cause, end, observed).last_event = m.last_event
         /\ OpenAt(m.lc, c) /\ end = c => OpenAt(Latch(m, cause, end, observed).lc, c)
<1> DEFINE a == IF cause = "idle_timeout" THEN EngagedBossMon(m) ELSE NONE
<1>1. Latch(m, cause, end, observed) = [m EXCEPT !.lc = End(m.lc, end, observed, cause, a)]
  BY Zenon DEF Latch, Ok, NewMeter
<1>2. OkTimes(End(m.lc, end, observed, cause, a), m.last_event, c, n)
  BY EndTimes DEF Ok
<1>3. OpenAt(m.lc, c) => OpenAt(End(m.lc, c, observed, cause, a), c)
  BY OpenKept DEF Ok
<1> HIDE DEF a
<1>4. QED
  BY <1>1, <1>2, <1>3, SetLcOk

LEMMA ResetOk ==
  ASSUME NEW m, NEW c, NEW n, NEW t, NEW reason, Ok(m, c, n)
  PROVE  Ok(Reset(m, t, reason), c, n) /\ Reset(m, t, reason).last_event = m.last_event
<1>1. /\ DOMAIN Reset(m, t, reason) = DOMAIN m /\ Reset(m, t, reason).lc = Idle
      /\ Reset(m, t, reason).last_event = m.last_event
  BY Zenon DEF Reset, Recompute, Ok, NewMeter
<1>2. OkTimes(Idle, m.last_event, c, n)
  BY DEF Ok, OkTimes, WellFormed, Idle, NONE
<1>3. QED
  BY <1>1, <1>2 DEF Ok

(* The two ends at an event: the boss died, or a held signal resolved. *)
LEMMA EndFightOnBossDeathOk ==
  ASSUME NEW m, NEW c, NEW n, Clocks(c, n), Ok(m, c, n), NEW e,
         NEW t \in Int, m.last_event <= t, t <= c
  PROVE  /\ Ok(EndFightOnBossDeath(m, e, t), c, n)
         /\ EndFightOnBossDeath(m, e, t).last_event = m.last_event
         /\ OpenAt(m.lc, c) /\ t = c => OpenAt(EndFightOnBossDeath(m, e, t).lc, c)
<1> DEFINE ended == Latch(m, "boss_death", t, t)
<1>1. /\ Ok(ended, c, n) /\ ended.last_event = m.last_event
      /\ OpenAt(m.lc, c) /\ t = c => OpenAt(ended.lc, c)
  <2>1. t <= n /\ \A cause : Decoded(t, cause, c)
    BY DEF Clocks, Decoded
  <2>2. QED
    BY <2>1, LatchOk DEF Causes
<1>2. /\ Ok([ended EXCEPT !.lc = Arm(ended.lc, MonAt(m, e))], c, n)
      /\ [ended EXCEPT !.lc = Arm(ended.lc, MonAt(m, e))].last_event = ended.last_event
      /\ OpenAt(ended.lc, c) => OpenAt([ended EXCEPT !.lc = Arm(ended.lc, MonAt(m, e))].lc, c)
  BY <1>1, ArmTimes, SetLcOk, OpenKept DEF Ok
<1> HIDE DEF ended
<1>3. QED
  BY <1>1, <1>2, Zenon DEF EndFightOnBossDeath, ended, Ok, NewMeter

LEMMA EndFightOnHeldFinishOk ==
  ASSUME NEW m, NEW c, NEW n, Clocks(c, n), Ok(m, c, n),
         NEW t \in Int, m.last_event <= t, t <= c
  PROVE  /\ Ok(EndFightOnHeldFinish(m, t), c, n)
         /\ EndFightOnHeldFinish(m, t).last_event = m.last_event
         /\ OpenAt(m.lc, c) /\ t = c => OpenAt(EndFightOnHeldFinish(m, t).lc, c)
<1> DEFINE ended == Latch(m, "dungeon_ended", t, t)
<1>1. /\ Ok(ended, c, n) /\ ended.last_event = m.last_event
      /\ OpenAt(m.lc, c) /\ t = c => OpenAt(ended.lc, c)
  <2>1. t <= n /\ \A cause : Decoded(t, cause, c)
    BY DEF Clocks, Decoded
  <2>2. QED
    BY <2>1, LatchOk DEF Causes
<1>2. /\ Ok([ended EXCEPT !.lc = Arm(ended.lc, MonAt(m, m.boss))], c, n)
      /\ [ended EXCEPT !.lc = Arm(ended.lc, MonAt(m, m.boss))].last_event = ended.last_event
      /\ OpenAt(ended.lc, c) => OpenAt([ended EXCEPT !.lc = Arm(ended.lc, MonAt(m, m.boss))].lc, c)
  BY <1>1, ArmTimes, SetLcOk, OpenKept DEF Ok
<1> HIDE DEF ended
<1>3. QED
  BY <1>1, <1>2, Zenon DEF EndFightOnHeldFinish, ended, Ok, NewMeter

LEMMA CompletionSignalOk ==
  ASSUME NEW m, NEW c, NEW n, Clocks(c, n), Ok(m, c, n)
  PROVE  Ok(CompletionSignal(m), c, n)
<1>1. Ok(Latch(m, "dungeon_ended", m.last_event, m.last_event), c, n)
  <2>1. m.last_event \in Int /\ m.last_event <= n /\ Decoded(m.last_event, "dungeon_ended", c)
    BY DEF Ok, OkTimes, Clocks, Decoded
  <2>2. QED
    BY <2>1, LatchOk DEF Causes
<1>2. Ok([m EXCEPT !.finish = TRUE], c, n)
  BY Zenon DEF Ok, NewMeter
<1>3. QED
  BY <1>1, <1>2, Zenon DEF CompletionSignal

LEMMA LatchWipeOk ==
  ASSUME NEW m, NEW c, NEW n, Clocks(c, n), Ok(m, c, n),
         NEW t \in Int, m.last_event <= t, t <= c
  PROVE  /\ Ok([Latch(m, "wipe", t, t) EXCEPT !.lc = Hold(@)], c, n)
         /\ [Latch(m, "wipe", t, t) EXCEPT !.lc = Hold(@)].last_event = m.last_event
         /\ OpenAt(m.lc, c) /\ t = c => OpenAt([Latch(m, "wipe", t, t) EXCEPT !.lc = Hold(@)].lc, c)
<1> DEFINE ended == Latch(m, "wipe", t, t)
<1>1. /\ Ok(ended, c, n) /\ ended.last_event = m.last_event
      /\ OpenAt(m.lc, c) /\ t = c => OpenAt(ended.lc, c)
  <2>1. t <= n /\ \A cause : Decoded(t, cause, c)
    BY DEF Clocks, Decoded
  <2>2. QED
    BY <2>1, LatchOk DEF Causes
<1> HIDE DEF ended
<1>2. /\ Ok([ended EXCEPT !.lc = Hold(ended.lc)], c, n)
      /\ [ended EXCEPT !.lc = Hold(ended.lc)].last_event = ended.last_event
      /\ OpenAt(ended.lc, c) => OpenAt([ended EXCEPT !.lc = Hold(ended.lc)].lc, c)
  BY <1>1, HoldTimes, SetLcOk, OpenKept DEF Ok
<1>3. QED
  BY <1>1, <1>2, Zenon DEF ended, Ok, NewMeter

LEMMA LatchWipeIfPartyDownOk ==
  ASSUME NEW m, NEW c, NEW n, Clocks(c, n), Ok(m, c, n),
         NEW t \in Int, m.last_event <= t, t <= c
  PROVE  /\ Ok(LatchWipeIfPartyDown(m, t), c, n)
         /\ LatchWipeIfPartyDown(m, t).last_event = m.last_event
         /\ OpenAt(m.lc, c) /\ t = c => OpenAt(LatchWipeIfPartyDown(m, t).lc, c)
BY LatchWipeOk, Zenon DEF LatchWipeIfPartyDown

LEMMA HoldReleasedOk ==
  ASSUME NEW m, NEW c, NEW n, Ok(m, c, n)
  PROVE  /\ Ok([m EXCEPT !.lc = ReleaseHold(@)], c, n)
         /\ Ok([m EXCEPT !.lc = Disarm(@)], c, n)
         /\ Ok([m EXCEPT !.lc = Resume(@)], c, n)
         /\ Ok(ReleaseHoldIfRecovered(m), c, n)
         /\ [m EXCEPT !.lc = Resume(@)].last_event = m.last_event
<1>1. \A l : OkTimes(l, m.last_event, c, n) => /\ Ok([m EXCEPT !.lc = l], c, n)
                                            /\ [m EXCEPT !.lc = l].last_event = m.last_event
  BY SetLcOk
<1>2. /\ OkTimes(ReleaseHold(m.lc), m.last_event, c, n)
      /\ OkTimes(Disarm(m.lc), m.last_event, c, n)
      /\ OkTimes(Resume(m.lc), m.last_event, c, n)
  BY HoldTimes, ArmTimes, ResumeTimes DEF Ok
<1>3. QED
  BY <1>1, <1>2, Zenon DEF ReleaseHoldIfRecovered

(* The idle end: it is dated back to the last hit, and observed at t. *)
LEMMA PinOk ==
  ASSUME NEW m, NEW c, NEW n, Clocks(c, n), Ok(m, c, n), NEW t \in Int, c <= t, t <= n
  PROVE  Ok(Pin(m, t), c, n) /\ Pin(m, t).last_event = m.last_event
<1>1. /\ m.last_event \in Int /\ m.last_event <= t /\ m.lc.end \in Int
      /\ Decoded(m.last_event, "idle_timeout", c)
  BY DEF Ok, OkTimes, Clocks, Decoded
<1>2. CASE m.lc.st = "active"
  <2>1. EndedAt(m, t) = m.last_event \/ EndedAt(m, t) = NONE
    BY <1>2 DEF EndedAt, IsEnded
  <2>2. /\ Ok(Latch(m, "idle_timeout", m.last_event, t), c, n)
        /\ Latch(m, "idle_timeout", m.last_event, t).last_event = m.last_event
    BY <1>1, LatchOk DEF Causes
  <2>3. QED
    BY <2>1, <2>2, Zenon DEF Pin
<1>3. CASE m.lc.st # "active"
  <2>1. \A end : Same(m, Latch(m, "idle_timeout", end, t))
    BY <1>3, Zenon DEF Latch, End, Same, Ok, NewMeter
  <2>2. Same(m, Pin(m, t))
    BY <2>1, Zenon DEF Pin, Same
  <2>3. QED
    BY <2>2, SameOk DEF Same
<1>4. QED
  BY <1>2, <1>3

(* The clock a packet carries is in order with the meter it finds. *)
LEMMA PacketTime ==
  ASSUME NEW m, NEW c, NEW n, Clocks(c, n), Ok(m, c, n)
  PROVE  /\ c \in Int /\ m.last_event <= c /\ c <= c /\ c <= n
         /\ m.last_event \in Int /\ m.last_event <= n
BY DEF Ok, OkTimes, Clocks

(* So is the time of the last hit. *)
LEMMA HitDecoded ==
  ASSUME NEW m, NEW c, NEW n, Clocks(c, n), Ok(m, c, n), NEW cause
  PROVE  Decoded(m.last_event, cause, c)
BY DEF Ok, OkTimes, Clocks, Decoded

LEMMA RowsOk ==
  ASSUME NEW m, NEW c, NEW n, Ok(m, c, n), NEW p, NEW e, NEW enemy, NEW members
  PROVE  /\ Ok(Recompute(m), c, n) /\ Ok(MarkDead(m, e), c, n)
         /\ Ok(PutEnemy(m, e, enemy), c, n) /\ Ok(ClearEnemies(m), c, n)
         /\ Ok(PruneStalePreloads(m), c, n) /\ Ok(ClearDungeon(m), c, n)
         /\ Ok(RecordDeath(m, p), c, n) /\ Ok(StandUp(m, p), c, n)
         /\ Ok(Accumulate(m, p), c, n) /\ Ok(Keep(m, members), c, n)
         /\ Ok(ApplyPlayer(m, p), c, n)
BY RowsSame, SameOk, Zenon DEF Ok

(* Before a hit is credited its fight is running, or this hit ended it. *)
Ready(m, c, n) == Ok(m, c, n) /\ OpenAt(m.lc, c)

LEMMA RowsReady ==
  ASSUME NEW m, NEW c, NEW n, Ready(m, c, n), NEW p, NEW e, NEW enemy
  PROVE  /\ Ready(Recompute(m), c, n) /\ Ready(MarkDead(m, e), c, n)
         /\ Ready(PutEnemy(m, e, enemy), c, n)
         /\ Ready(RecordDeath(m, p), c, n) /\ Ready(StandUp(m, p), c, n)
<1>1. ASSUME NEW r, Same(m, r) PROVE Ready(r, c, n)
  BY <1>1, SameOk DEF Ready, Same, OpenAt
<1>2. QED
  BY <1>1, RowsSame, Zenon DEF Ready, Ok

---------------------------------------------------------------------------
(* The handlers. *)
LEMMA StrikeOk ==
  ASSUME NEW m, NEW c, NEW n, Clocks(c, n), Ready(m, c, n), NEW d
  PROVE  Ready(Strike(m, d, c), c, n)
<1> DEFINE e == d.to
           old == IF e \in Known(m) THEN m.enemies[e] ELSE Unknown
           hit == PutEnemy(m, e, [old EXCEPT !.damaged = TRUE,
                                             !.last = IF c > @ THEN c ELSE @])
           seen == Recompute(IF d.dead THEN MarkDead(hit, e) ELSE hit)
           ended == IF m.boss = e THEN EndFightOnBossDeath(seen, e, c) ELSE seen
<1>1. Ready(hit, c, n)
  <2>1. \A enemy : Ready(PutEnemy(m, e, enemy), c, n)
    BY RowsReady
  <2>2. QED
    BY <2>1
<1> HIDE DEF hit
<1>2. Ready(seen, c, n)
  <2>1. Ready(IF d.dead THEN MarkDead(hit, e) ELSE hit, c, n)
    BY <1>1, RowsReady
  <2>2. QED
    BY <2>1, RowsReady
<1> HIDE DEF seen
<1>3. Ready(ended, c, n)
  <2>1. c \in Int /\ seen.last_event <= c /\ c <= n
    BY <1>2, PacketTime DEF Ready
  <2>2. QED
    BY <1>2, <2>1, EndFightOnBossDeathOk DEF Ready
<1> HIDE DEF ended
<1>4. Ready(EndFightOnHeldFinish(ended, c), c, n)
  <2>1. c \in Int /\ ended.last_event <= c /\ c <= n
    BY <1>3, PacketTime DEF Ready
  <2>2. QED
    BY <1>3, <2>1, EndFightOnHeldFinishOk DEF Ready
<1>5. QED
  BY <1>2, <1>3, <1>4, Zenon DEF Strike, hit, seen, ended

(* The hit that opens or extends a fight stamps it with its own time. *)
LEMMA CreditOk ==
  ASSUME NEW m, NEW c, NEW n, Clocks(c, n), Ready(m, c, n), NEW d
  PROVE  Ready(Credit(m, d, c), c, n) /\ Credit(m, d, c).last_event = c
<1> DEFINE stamped == [m EXCEPT !.last_event = IF c > @ THEN c ELSE @, !.lc = Start(@, c)]
           live == Accumulate(stamped, d.by)
<1>1. /\ DOMAIN stamped = DOMAIN m /\ stamped.lc = Start(m.lc, c)
      /\ stamped.last_event = IF c > m.last_event THEN c ELSE m.last_event
  BY Zenon DEF Ready, Ok, NewMeter
<1>2. stamped.last_event = c
  BY <1>1 DEF Ready, Ok, OkTimes, Clocks
<1>3. OkTimes(Start(m.lc, c), c, c, n)
  <2>1. CASE m.lc.st = "idle"
    <3>1. c \in Int /\ c \in Nat /\ c # NONE /\ c <= c
      BY DEF Clocks, NONE
    <3>2. OkTimes(Running(c, FALSE), c, c, n)
      BY <3>1, RunningTimes
    <3>3. QED
      BY <2>1, <3>2 DEF Start
  <2>2. CASE m.lc.st # "idle"
    BY <2>2 DEF Start, Ready, OpenAt, Ok, OkTimes, Clocks, WellFormed
  <2>3. QED
    BY <2>1, <2>2
<1>4. Ok(stamped, c, n)
  BY <1>1, <1>2, <1>3 DEF Ready, Ok
<1> HIDE DEF stamped
<1>5. Ok(live, c, n) /\ live.last_event = c /\ OpenAt(live.lc, c)
  <2>1. OpenAt(stamped.lc, c) /\ stamped.last_event = c
    BY <1>1, <1>2 DEF stamped, Start, Running, OpenAt, Ready
  <2>2. Same(stamped, live)
    BY <1>4, RowsSame DEF Ok
  <2>3. QED
    BY <1>4, <2>1, <2>2, SameOk DEF Same
<1>6. c \in Int /\ live.last_event <= c /\ c <= n
  BY <1>5 DEF Ok, OkTimes, Clocks
<1> HIDE DEF live
<1>7. /\ Ready(EndFightOnBossDeath(live, d.to, c), c, n)
      /\ EndFightOnBossDeath(live, d.to, c).last_event = c
  BY <1>5, <1>6, EndFightOnBossDeathOk DEF Ready
<1>8. QED
  BY <1>5, <1>7, Zenon DEF Credit, live, stamped, Ready

LEMMA LandOk ==
  ASSUME NEW m, NEW c, NEW n, Clocks(c, n), Ready(m, c, n), NEW d
  PROVE  /\ Ready(Land(m, d, c), c, n)
         /\ PlayerHit(d) => Land(m, d, c).last_event = c
<1> DEFINE acting == IF d.by \in Players THEN StandUp(m, d.by) ELSE m
           fell == IF d.dead /\ d.to \in Players
                   THEN LatchWipeIfPartyDown(RecordDeath(acting, d.to), c) ELSE acting
           struck == IF d.to \in Entities /\ ~ d.heal THEN Strike(fell, d, c) ELSE fell
<1>1. Ready(acting, c, n)
  BY RowsReady
<1> HIDE DEF acting
<1>2. Ready(fell, c, n)
  <2>1. Ready(RecordDeath(acting, d.to), c, n)
    BY <1>1, RowsReady
  <2>2. Ready(LatchWipeIfPartyDown(RecordDeath(acting, d.to), c), c, n)
    BY <2>1, PacketTime, LatchWipeIfPartyDownOk DEF Ready
  <2>3. QED
    BY <1>1, <2>2
<1> HIDE DEF fell
<1>3. Ready(struck, c, n)
  BY <1>2, StrikeOk
<1> HIDE DEF struck
<1>4. QED
  BY <1>3, CreditOk, Zenon DEF Land, struck, fell, acting

LEMMA ApplyDamageOk ==
  ASSUME NEW m, NEW c, NEW n, Clocks(c, n), Ok(m, c, n), NEW d
  PROVE  Ok(ApplyDamage(m, d, c), c, n)
<1> DEFINE pinned == Pin(m, c)
           held == IF ResumesHeldFight(pinned, d, c)
                   THEN [pinned EXCEPT !.lc = Resume(@)] ELSE pinned
           fresh == /\ IsEnded(held) /\ PlayerHit(d)
                    /\ ~ WithholdsNewFight(held, d, c)
                    /\ ~ WithholdsAfterWipe(held, d, c)
                    /\ ~ InPostEndGrace(held, d, c)
           open == IF fresh THEN Reset(held, c, "new_fight") ELSE held
<1>1. Ok(pinned, c, n)
  BY PinOk DEF Clocks
<1> HIDE DEF pinned
<1>2. Ok(held, c, n)
  BY <1>1, HoldReleasedOk
<1> HIDE DEF held, fresh
<1>3. Ok(open, c, n)
  BY <1>2, ResetOk
<1> HIDE DEF open
<1>4. ~ IsEnded(open) => Ok(Land(open, d, c), c, n)
  BY <1>3, LandOk DEF Ready, OpenAt, IsEnded
<1>5. Ok(Accumulate(open, d.by), c, n)
  BY <1>3, RowsOk
<1>6. QED
  BY <1>3, <1>4, <1>5, Zenon DEF ApplyDamage, open, fresh, held, pinned

LEMMA ObserveOk ==
  ASSUME NEW m, NEW c, NEW n, Ok(m, c, n), NEW e, NEW id, NEW hp
  PROVE  Ok(Observe(m, e, id, hp), c, n)
<1>1. \A enemy : Ok(PutEnemy(m, e, enemy), c, n)
  BY RowsOk
<1>2. ASSUME NEW r, Ok(r, c, n), NEW seq PROVE Ok([r EXCEPT !.deaths = seq], c, n)
  BY <1>2, Zenon DEF Ok, NewMeter
<1>3. \A r : Ok(r, c, n) => Ok(MarkDead(r, e), c, n)
  BY RowsOk
<1>4. QED
  BY <1>1, <1>2, <1>3, Zenon DEF Observe

LEMMA RollbackOk ==
  ASSUME NEW m, NEW c, NEW n, Clocks(c, n), Ok(m, c, n), NEW e
  PROVE  Ok(Rollback(m, e, c), c, n)
<1> DEFINE wiped == IF Down(m) = {} THEN m
                    ELSE [Latch(m, "wipe", c, c) EXCEPT !.lc = Hold(@)]
<1>1. Ok(wiped, c, n)
  BY PacketTime, LatchWipeOk
<1> HIDE DEF wiped
<1>2. Ok(Reset(wiped, c, "boss_hp_rollback"), c, n)
  BY <1>1, ResetOk
<1>3. Ok([wiped EXCEPT !.enemies[e].dipped = FALSE], c, n)
  BY <1>1, Zenon DEF Ok, NewMeter
<1>4. QED
  BY <1>2, <1>3, Zenon DEF Rollback, wiped

LEMMA ApplyEnemyHpOk ==
  ASSUME NEW m, NEW c, NEW n, Clocks(c, n), Ok(m, c, n), NEW e, NEW id, NEW hp
  PROVE  Ok(ApplyEnemyHp(m, e, id, hp, c), c, n)
<1> DEFINE seen == Recompute(Observe(m, e, id, hp))
           killed == IF EndOnBossDeath /\ m.boss = e /\ seen.enemies[e].hp = Dead
                     THEN EndFightOnBossDeath(seen, e, c) ELSE seen
           ended == IF EndOnBossDeath /\ hp = Dead
                    THEN EndFightOnHeldFinish(killed, c) ELSE killed
<1>1. Ok(seen, c, n)
  BY ObserveOk, RowsOk
<1> HIDE DEF seen
<1>2. Ok(killed, c, n)
  BY <1>1, PacketTime, EndFightOnBossDeathOk
<1> HIDE DEF killed
<1>3. Ok(ended, c, n)
  BY <1>2, PacketTime, EndFightOnHeldFinishOk
<1> HIDE DEF ended
<1>4. QED
  BY <1>3, RollbackOk, Zenon DEF ApplyEnemyHp, ended, killed, seen

LEMMA ApplyEnemyGoneOk ==
  ASSUME NEW m, NEW c, NEW n, Clocks(c, n), Ok(m, c, n), NEW e, NEW reason
  PROVE  Ok(ApplyEnemyGone(m, e, reason), c, n)
<1> DEFINE seen == Recompute(MarkDead(m, e))
<1>1. Ok(seen, c, n) /\ seen.last_event = m.last_event
  <2>1. Ok(MarkDead(m, e), c, n) /\ Same(m, MarkDead(m, e))
    BY RowsOk, RowsSame DEF Ok
  <2>2. Same(MarkDead(m, e), seen)
    BY <2>1, RowsSame DEF Ok
  <2>3. QED
    BY <2>1, <2>2, SameOk DEF Same
<1> HIDE DEF seen
<1>2. Ok(EndFightOnBossDeath(seen, e, m.last_event), c, n)
  BY <1>1, PacketTime, EndFightOnBossDeathOk
<1>3. QED
  BY <1>2, Zenon DEF ApplyEnemyGone, seen

LEMMA EnemyDiedOk ==
  ASSUME NEW m, NEW c, NEW n, Clocks(c, n), Ok(m, c, n), NEW e
  PROVE  Ok(EnemyDied(m, e, c), c, n)
<1> DEFINE seen == Recompute(MarkDead(m, e))
           ended == IF EndOnBossDeath /\ m.boss = e
                    THEN EndFightOnBossDeath(seen, e, c) ELSE seen
<1>1. Ok(seen, c, n)
  BY RowsOk
<1> HIDE DEF seen
<1>2. Ok(ended, c, n)
  BY <1>1, PacketTime, EndFightOnBossDeathOk
<1> HIDE DEF ended
<1>3. Ok(EndFightOnHeldFinish(ended, c), c, n)
  BY <1>2, PacketTime, EndFightOnHeldFinishOk
<1>4. QED
  BY <1>2, <1>3, Zenon DEF EnemyDied, ended, seen

LEMMA PlayerStateOk ==
  ASSUME NEW m, NEW c, NEW n, Clocks(c, n), Ok(m, c, n), NEW p
  PROVE  Ok(PlayerDied(m, p, c), c, n) /\ Ok(PlayerRevived(m, p), c, n)
<1>1. Ok(RecordDeath(m, p), c, n) /\ Ok(StandUp(m, p), c, n)
  BY RowsOk
<1>2. Ok(LatchWipeIfPartyDown(RecordDeath(m, p), c), c, n)
  BY <1>1, PacketTime, LatchWipeIfPartyDownOk
<1>3. Ok(ReleaseHoldIfRecovered(StandUp(m, p)), c, n)
  BY <1>1, HoldReleasedOk
<1>4. QED
  BY <1>2, <1>3, Zenon DEF PlayerDied, PlayerRevived

(* Single assignments to the other fields. *)
LEMMA FieldOk ==
  ASSUME NEW m, NEW c, NEW n, Ok(m, c, n), NEW x
  PROVE  /\ Ok([m EXCEPT !.boss = x], c, n) /\ Ok([m EXCEPT !.scene = x], c, n)
         /\ Ok([m EXCEPT !.finish = x], c, n) /\ Ok([m EXCEPT !.dungeon = x], c, n)
BY Zenon DEF Ok, NewMeter

LEMMA ApplySceneOk ==
  ASSUME NEW m, NEW c, NEW n, Clocks(c, n), Ok(m, c, n), NEW s
  PROVE  Ok(ApplyScene(m, s), c, n)
<1> DEFINE pruned == PruneStalePreloads(m)
           ended == IF IsActive(m)
                    THEN Latch(pruned, "scene_changed", m.last_event, m.last_event) ELSE pruned
           left == [ended EXCEPT !.finish = FALSE]
           clean == IF ~ IsActive(m) /\ ~ m.lc.hold
                    THEN Reset(left, m.last_event, "scene_changed") ELSE left
           unbossed == [ClearEnemies(clean) EXCEPT !.boss = NONE]
           disarmed == [unbossed EXCEPT !.lc = Disarm(@)]
           entered == ClearDungeon([ClearEnemies(clean) EXCEPT !.boss = NONE, !.lc = Disarm(@)])
           gone == IF s \in Dungeon THEN entered ELSE [left EXCEPT !.lc = ReleaseHold(@)]
<1>1. Ok(pruned, c, n) /\ pruned.last_event = m.last_event
  BY RowsOk, RowsSame DEF Same, Ok
<1> HIDE DEF pruned
<1>2. Ok(Latch(pruned, "scene_changed", m.last_event, m.last_event), c, n)
  BY <1>1, PacketTime, HitDecoded, LatchOk DEF Causes
<1>3. Ok(left, c, n)
  <2>1. Ok(ended, c, n)
    BY <1>1, <1>2
  <2> HIDE DEF ended
  <2>2. QED
    BY <2>1, FieldOk
<1> HIDE DEF ended, left
<1>4. Ok(ClearEnemies(clean), c, n)
  <2>1. Ok(clean, c, n)
    BY <1>3, ResetOk
  <2> HIDE DEF clean
  <2>2. QED
    BY <2>1, RowsOk
<1> HIDE DEF clean
<1>5. Ok(entered, c, n)
  <2>1. Ok(unbossed, c, n)
    BY <1>4, FieldOk
  <2> HIDE DEF unbossed
  <2>2. Ok(disarmed, c, n)
    BY <2>1, HoldReleasedOk
  <2> HIDE DEF disarmed
  <2>3. Ok(ClearDungeon(disarmed), c, n)
    BY <2>2, RowsOk
  <2>4. QED
    BY <2>3, Zenon DEF disarmed, unbossed
<1> HIDE DEF entered
<1>6. Ok(gone, c, n)
  BY <1>3, <1>5, HoldReleasedOk
<1> HIDE DEF gone
<1>7. Ok([m EXCEPT !.scene = s], c, n) /\ Ok([gone EXCEPT !.scene = s], c, n)
  BY <1>6, FieldOk
<1>8. QED
  BY <1>7, Zenon DEF ApplyScene, gone, entered, clean, left, ended, pruned

LEMMA ApplyServerChangedOk ==
  ASSUME NEW m, NEW c, NEW n, Clocks(c, n), Ok(m, c, n),
         NEW t \in Int, m.last_event <= t, t <= n
  PROVE  Ok(ApplyServerChanged(m, t), c, n)
<1> DEFINE cleared == ClearEnemies(PruneStalePreloads(Latch(m, "server_changed", t, t)))
           disarmed == [cleared EXCEPT !.lc = Disarm(@)]
           released == [disarmed EXCEPT !.lc = ReleaseHold(@)]
<1>1. Ok(Latch(m, "server_changed", t, t), c, n)
  BY LatchOk DEF Causes, Decoded
<1>2. Ok(PruneStalePreloads(Latch(m, "server_changed", t, t)), c, n)
  BY <1>1, RowsOk
<1>3. Ok(cleared, c, n)
  BY <1>2, RowsOk
<1> HIDE DEF cleared
<1>4. Ok(disarmed, c, n)
  BY <1>3, HoldReleasedOk
<1>5. Ok(released, c, n)
  BY <1>4, HoldReleasedOk
<1>6. released = [cleared EXCEPT !.lc = ReleaseHold(Disarm(@))]
  BY <1>3, Zenon DEF Ok, NewMeter
<1>7. Ok(ClearDungeon(released), c, n)
  BY <1>5, RowsOk
<1> HIDE DEF released
<1>8. QED
  BY <1>6, <1>7, Zenon DEF ApplyServerChanged, cleared

LEMMA ApplyDungeonStateOk ==
  ASSUME NEW m, NEW c, NEW n, Clocks(c, n), Ok(m, c, n), NEW ds \in DungeonStates
  PROVE  Ok(ApplyDungeonState(m, ds), c, n)
<1>1. CASE ds = "null"
  BY <1>1, RowsOk DEF ApplyDungeonState
<1>2. CASE ds = "running"
  BY <1>2, FieldOk DEF ApplyDungeonState
<1>3. CASE ds = "playing"
  <2>1. Ok(ClearDungeon(m), c, n)
    BY RowsOk
  <2>2. Ok([ClearDungeon(m) EXCEPT !.dungeon = "running"], c, n)
    BY <2>1, FieldOk
  <2>3. QED
    BY <1>3, <2>2, ResetOk DEF ApplyDungeonState
<1>4. CASE ds = "terminal"
  <2> DEFINE over == [m EXCEPT !.dungeon = "terminal"]
  <2>1. Ok(over, c, n)
    BY FieldOk
  <2>2. Ok([over EXCEPT !.lc = Disarm(@)], c, n)
    BY <2>1, HoldReleasedOk
  <2>3. [over EXCEPT !.lc = Disarm(@)] = [m EXCEPT !.dungeon = "terminal", !.lc = Disarm(@)]
    OBVIOUS
  <2>4. QED
    BY <1>4, <2>2, <2>3, CompletionSignalOk DEF ApplyDungeonState
<1>5. QED
  BY <1>1, <1>2, <1>3, <1>4, TablesAssumption

LEMMA ApplyObjectiveOk ==
  ASSUME NEW m, NEW c, NEW n, Clocks(c, n), Ok(m, c, n), NEW o, NEW zero, NEW complete
  PROVE  /\ Ok(ApplyObjective(m, o, zero, complete), c, n)
         /\ Ok(ApplyObjectiveRemoved(m, o), c, n)
<1>1. ASSUME NEW r, DOMAIN r = DOMAIN m, r.lc = m.lc, r.last_event = m.last_event
      PROVE  /\ Ok(Reset(r, m.last_event, "dungeon_started"), c, n)
             /\ Ok(EndFightOnHeldFinish(r, m.last_event), c, n)
  <2>1. Ok(r, c, n)
    BY <1>1 DEF Ok
  <2>2. QED
    BY <1>1, <2>1, PacketTime, ResetOk, EndFightOnHeldFinishOk
<1>2. Ok(ApplyObjectiveRemoved(m, o), c, n)
  <2> DEFINE r == [m EXCEPT !.open = @ \ {o}, !.done = @ \ {o},
                            !.current = IF @ = o THEN NONE ELSE @]
  <2>1. DOMAIN r = DOMAIN m /\ r.lc = m.lc /\ r.last_event = m.last_event
    BY Zenon DEF Ok, NewMeter
  <2> HIDE DEF r
  <2>2. QED
    BY <1>1, <2>1, Zenon DEF ApplyObjectiveRemoved, r
<1>3. Ok(ApplyObjective(m, o, zero, complete), c, n)
  <2> DEFINE done == IF complete = "yes" THEN m.done \cup {o}
                     ELSE IF complete = "no" THEN m.done \ {o} ELSE m.done
             first == IF m.first = NONE THEN o ELSE m.first
             kept == [m EXCEPT !.done = done, !.open = (@ \cup {o}) \ done, !.first = first]
             turned == [kept EXCEPT !.current = o]
             new == o # m.current /\ complete = "no" /\ zero
             restarted == m.current # NONE /\ m.current # first /\ o = first
  <2>0. ApplyObjective(m, o, zero, complete) =
          IF new /\ restarted THEN Reset(turned, m.last_event, "dungeon_started")
          ELSE EndFightOnHeldFinish(IF new THEN turned ELSE kept, m.last_event)
    BY Zenon DEF ApplyObjective
  <2> HIDE DEF done, first, new, restarted
  <2>1. DOMAIN kept = DOMAIN m /\ kept.lc = m.lc /\ kept.last_event = m.last_event
    BY Zenon DEF Ok, NewMeter
  <2> HIDE DEF kept
  <2>2. DOMAIN turned = DOMAIN m /\ turned.lc = m.lc /\ turned.last_event = m.last_event
    BY <2>1, Zenon DEF Ok, NewMeter
  <2> HIDE DEF turned
  <2>3. QED
    BY <1>1, <2>0, <2>1, <2>2
<1>4. QED
  BY <1>2, <1>3

---------------------------------------------------------------------------
(* The inductive invariant of the specification. *)
ClockInv == Clocks(clock, now) /\ Ok(meter, clock, now)

LEMMA ClockInit == Init => ClockInv
<1> SUFFICES ASSUME Init PROVE ClockInv
  OBVIOUS
<1>1. NewMeter.lc = Idle /\ NewMeter.last_event = 0
  BY DEF NewMeter
<1>2. OkTimes(Idle, 0, 0, 0)
  BY DEF OkTimes, WellFormed, Idle, NONE
<1> HIDE DEF NewMeter
<1>3. QED
  BY <1>1, <1>2 DEF Init, ClockInv, Clocks, Ok

(* The step: what apply last returned is not part of the argument. *)
LEMMA CalledOk ==
  ASSUME ClockInv PROVE Ok(Called, clock, now) /\ Clocks(clock, now)
BY Zenon DEF ClockInv, Called, Ok, NewMeter

LEMMA BecomesOk ==
  ASSUME ClockInv, NEW m, Ok(m, clock, now), Becomes(m) PROVE ClockInv'
BY DEF ClockInv, Becomes, Clocks, Ok, OkTimes

LEMMA LaterOk ==
  ASSUME NEW m, NEW c, NEW n, Ok(m, c, n), Clocks(c, n),
         NEW c2 \in Nat, NEW n2 \in Nat, c <= c2, n <= n2
  PROVE  Ok(m, c2, n2)
<1>1. /\ m.last_event \in Int /\ m.last_event <= c2
      /\ m.lc.st = "ended" => m.lc.observed <= n2
  BY DEF Ok, OkTimes, Clocks
<1>2. QED
  BY <1>1 DEF Ok, OkTimes, Clocks, Decoded

LEMMA ClockStep == ClockInv /\ [Next]_vars => ClockInv'
<1> SUFFICES ASSUME ClockInv, [Next]_vars PROVE ClockInv'
  OBVIOUS
<1>0. Ok(Called, clock, now) /\ Clocks(clock, now)
  BY CalledOk
<1>1. CASE Damage
  BY <1>0, <1>1, ApplyDamageOk, BecomesOk DEF Damage
<1>2. CASE EnemyHp
  BY <1>0, <1>2, ApplyEnemyHpOk, BecomesOk DEF EnemyHp
<1>3. CASE EnemyGone
  BY <1>0, <1>3, ApplyEnemyGoneOk, BecomesOk DEF EnemyGone
<1>4. CASE EnemyState
  BY <1>0, <1>4, EnemyDiedOk, BecomesOk DEF EnemyState
<1>5. CASE PlayerState \/ Revive
  BY <1>0, <1>5, PlayerStateOk, BecomesOk DEF PlayerState, Revive
<1>6. CASE PlayerInfo \/ TeamRoster \/ TeamMemberLeft
  BY <1>0, <1>6, RowsOk, BecomesOk DEF PlayerInfo, TeamRoster, TeamMemberLeft
<1>7. CASE Scene
  BY <1>0, <1>7, ApplySceneOk, BecomesOk DEF Scene
<1>8. CASE ServerChanged
  <2>1. PICK t \in meter.last_event .. now : Becomes(ApplyServerChanged(Called, t))
    BY <1>8 DEF ServerChanged
  <2>2. t \in Int /\ Called.last_event <= t /\ t <= now
    <3>1. Called.last_event = meter.last_event
      BY Zenon DEF Called, ClockInv, Ok, NewMeter
    <3>2. meter.last_event \in Int /\ now \in Int
      BY <1>0 DEF ClockInv, Clocks, Ok, OkTimes
    <3>3. QED
      BY <3>1, <3>2
  <2>3. QED
    BY <1>0, <2>1, <2>2, ApplyServerChangedOk, BecomesOk
<1>9. CASE DungeonState
  BY <1>0, <1>9, ApplyDungeonStateOk, BecomesOk DEF DungeonState
<1>10. CASE DungeonVar
  BY <1>0, <1>10, CompletionSignalOk, BecomesOk DEF DungeonVar
<1>11. CASE DungeonObjective \/ DungeonObjectiveRemoved
  BY <1>0, <1>11, ApplyObjectiveOk, BecomesOk DEF DungeonObjective, DungeonObjectiveRemoved
<1>12. CASE Tick
  <2>1. Ok(Pin(Called, now), clock, now)
    BY <1>0, PinOk DEF Clocks
  <2>2. QED
    BY <1>12, <2>1, BecomesOk DEF Tick
<1>13. CASE ManualReset
  <2>1. Ok(Reset(Called, now, "manual"), clock, now)
    BY <1>0, ResetOk
  <2>2. Ok([Reset(Called, now, "manual") EXCEPT !.saved = Nothing], clock, now)
    BY <2>1, Zenon DEF Ok, NewMeter
  <2>3. QED
    BY <1>13, <2>2, BecomesOk DEF ManualReset
<1>14. CASE Pass \/ Hear
  <2>1. clock' \in Nat /\ now' \in Nat /\ clock <= clock' /\ now <= now' /\ clock' <= now'
    BY <1>0, <1>14, WindowsAssumption DEF Pass, Hear, Clocks
  <2>2. meter' = Called
    BY <1>14 DEF Pass, Hear
  <2>3. Ok(Called, clock', now')
    BY <1>0, <2>1, LaterOk
  <2>4. QED
    BY <2>1, <2>2, <2>3 DEF ClockInv, Clocks
<1>15. CASE UNCHANGED vars
  BY <1>15 DEF ClockInv, vars
<1>16. QED
  BY <1>1, <1>2, <1>3, <1>4, <1>5, <1>6, <1>7, <1>8, <1>9, <1>10, <1>11, <1>12,
     <1>13, <1>14, <1>15 DEF Next

(* For every roster, table, window and lag: a fight started no later than   *)
(* its last hit, ended no earlier than it started, and its end was observed *)
(* no earlier than it happened and not in the pipeline's future, through    *)
(* every handler of apply, the idle poll and the user's reset.              *)
THEOREM ClocksStayInOrder == Spec => []ClocksInOrder
<1>1. Spec => []ClockInv
  BY ClockInit, ClockStep, PTL DEF Spec
<1>2. ClockInv => ClocksInOrder
  BY DEF ClockInv, ClocksInOrder, Clocks, Ok, OkTimes, Decoded, IsEnded
<1> QED
  BY <1>1, <1>2, PTL

---------------------------------------------------------------------------
(* A boss is left armed only by an idle end, or by a kill in a run the      *)
(* dungeon has not reported over.                                          *)
RightlyArmed(l, dungeon) ==
  l.armed # NONE => \/ l.cause = "idle_timeout"
                    \/ l.cause \in {"boss_death", "dungeon_ended"} /\ dungeon # "terminal"

(* A fight goes on, or its end stays as it was latched. *)
Kept(a, b) ==
  /\ b.st = "idle" <=> a.st = "idle"
  /\ a.st # "idle" => b.start = a.start
  /\ a.st = "ended" => /\ b.st = "ended" /\ b.end = a.end /\ b.observed = a.observed
                       /\ b.cause = a.cause /\ b.armed \in {a.armed, NONE}

(* m came of o without a reset and without a resumption. *)
From(o, m) ==
  /\ DOMAIN m = DOMAIN NewMeter /\ DOMAIN m.lc = DOMAIN Idle
  /\ m.reason = o.reason /\ m.saved = o.saved
  /\ Kept(o.lc, m.lc) /\ RightlyArmed(m.lc, m.dungeon)

(* Changing the fight alone: it has to be kept and rightly armed.          *)
LEMMA SetLcFrom ==
  ASSUME NEW o, NEW m, NEW l, From(o, m), DOMAIN l = DOMAIN Idle, Kept(o.lc, l),
         RightlyArmed(l, m.dungeon)
  PROVE  From(o, [m EXCEPT !.lc = l])
<1>1. /\ DOMAIN [m EXCEPT !.lc = l] = DOMAIN NewMeter /\ [m EXCEPT !.lc = l].lc = l
      /\ [m EXCEPT !.lc = l].reason = m.reason /\ [m EXCEPT !.lc = l].saved = m.saved
      /\ [m EXCEPT !.lc = l].dungeon = m.dungeon
  BY Zenon DEF From, NewMeter
<1>2. QED
  BY <1>1 DEF From

(* The running fight of m has ended as l; its meter is r. *)
EndsAs(m, l, r) ==
  /\ m.lc.st = "active" /\ l.st = "ended" /\ l.start = m.lc.start /\ DOMAIN l = DOMAIN Idle
  /\ r = [m EXCEPT !.lc = l]

(* Latching ends the fight that runs, armed only by the idle timeout, or   *)
(* changes nothing.                                                        *)
LEMMA LatchEnds ==
  ASSUME NEW o, NEW m, From(o, m), NEW cause, NEW end, NEW observed
  PROVE  \/ /\ m.lc.st # "active" /\ From(o, Latch(m, cause, end, observed))
            /\ Latch(m, cause, end, observed).lc = m.lc
         \/ \E l : /\ EndsAs(m, l, Latch(m, cause, end, observed))
                   /\ l.cause = cause /\ l.end = end /\ l.observed = observed
                   /\ cause # "idle_timeout" => l.armed = NONE
                   /\ cause = "idle_timeout" => l.armed = EngagedBossMon(m)
<1> DEFINE a == IF cause = "idle_timeout" THEN EngagedBossMon(m) ELSE NONE
           l == End(m.lc, end, observed, cause, a)
<1>1. Latch(m, cause, end, observed) = [m EXCEPT !.lc = l]
  BY Zenon DEF Latch, From, NewMeter
<1>2. CASE m.lc.st # "active"
  <2>1. l = m.lc
    BY <1>2, Zenon DEF End
  <2> HIDE DEF l
  <2>2. [m EXCEPT !.lc = l].lc = m.lc
    BY <2>1, Zenon DEF From, NewMeter
  <2>3. From(o, [m EXCEPT !.lc = l])
    BY <2>1, SetLcFrom DEF From
  <2>4. QED
    BY <1>1, <1>2, <2>2, <2>3
<1>3. CASE m.lc.st = "active"
  <2>1. /\ DOMAIN l = DOMAIN Idle /\ l.st = "ended" /\ l.start = m.lc.start
        /\ l.end = end /\ l.observed = observed /\ l.cause = cause /\ l.armed = a
    BY <1>3, Zenon DEF End, From, Idle
  <2> HIDE DEF l
  <2>2. QED
    BY <1>1, <1>3, <2>1, Zenon DEF EndsAs
<1>4. QED
  BY <1>2, <1>3

(* A fight that has ended is still the same fight.                         *)
LEMMA EndsFrom ==
  ASSUME NEW o, NEW m, From(o, m), NEW l, NEW r, EndsAs(m, l, r),
         RightlyArmed(l, m.dungeon)
  PROVE  From(o, r)
<1>1. Kept(o.lc, l)
  BY DEF From, EndsAs, Kept
<1>2. QED
  BY <1>1, SetLcFrom DEF EndsAs

(* Arming is only ever done to an end just latched. *)
LEMMA EndsThenArms ==
  ASSUME NEW o, NEW m, From(o, m), NEW l, NEW r, EndsAs(m, l, r), NEW mon
  PROVE  \E k : /\ EndsAs(m, k, [r EXCEPT !.lc = Arm(@, mon)])
                /\ k.armed = mon /\ k.cause = l.cause /\ k.end = l.end
<1> DEFINE k == [l EXCEPT !.armed = mon]
<1>1. /\ DOMAIN k = DOMAIN Idle /\ k.st = "ended" /\ k.start = m.lc.start
      /\ k.armed = mon /\ k.cause = l.cause /\ k.end = l.end
  BY Zenon DEF EndsAs, Idle
<1>2. r.lc = l /\ [r EXCEPT !.lc = Arm(r.lc, mon)] = [r EXCEPT !.lc = Arm(l, mon)]
  BY Zenon DEF EndsAs, From, NewMeter
<1>3. Arm(l, mon) = k
  BY Zenon DEF EndsAs, Arm
<1>4. [r EXCEPT !.lc = k] = [m EXCEPT !.lc = k]
  BY Zenon DEF EndsAs, From, NewMeter
<1> HIDE DEF k
<1>5. QED
  BY <1>1, <1>2, <1>3, <1>4, Zenon DEF EndsAs

(* The functions on rows, enemies and the dungeon leave the fight alone, and *)
(* only a dungeon state says that the run is over.                          *)
Aside(m, r) ==
  /\ DOMAIN r = DOMAIN m /\ r.lc = m.lc /\ r.reason = m.reason /\ r.saved = m.saved
  /\ \/ r.dungeon = m.dungeon \/ r.dungeon = "none"
     \/ r.dungeon = "running"

(* None of them resets, resumes or arms.                                   *)
LEMMA RowsFrom ==
  ASSUME NEW o, NEW m, From(o, m), NEW p, NEW e, NEW enemy, NEW members, NEW x
  PROVE  /\ From(o, Recompute(m)) /\ From(o, MarkDead(m, e))
         /\ From(o, PutEnemy(m, e, enemy)) /\ From(o, ClearEnemies(m))
         /\ From(o, PruneStalePreloads(m)) /\ From(o, ClearDungeon(m))
         /\ From(o, RecordDeath(m, p)) /\ From(o, StandUp(m, p))
         /\ From(o, Accumulate(m, p)) /\ From(o, Keep(m, members))
         /\ From(o, ApplyPlayer(m, p))
         /\ From(o, [m EXCEPT !.boss = x]) /\ From(o, [m EXCEPT !.scene = x])
         /\ From(o, [m EXCEPT !.finish = x]) /\ From(o, [m EXCEPT !.dungeon = "running"])
<1>1. \A r : Aside(m, r) => From(o, r)
  BY DEF From, RightlyArmed, Aside
<1>2. DOMAIN m = DOMAIN NewMeter
  BY DEF From
<1>3. /\ Aside(m, Recompute(m)) /\ Aside(m, MarkDead(m, e))
      /\ Aside(m, PutEnemy(m, e, enemy)) /\ Aside(m, ClearEnemies(m))
  BY <1>2, Zenon DEF Aside, Recompute, MarkDead, PutEnemy, ClearEnemies, NewMeter
<1>4. Aside(m, PruneStalePreloads(m)) /\ Aside(m, ClearDungeon(m))
  BY <1>2, Zenon DEF Aside, PruneStalePreloads, ClearDungeon, NewMeter
<1>5. Aside(m, RecordDeath(m, p)) /\ Aside(m, StandUp(m, p)) /\ Aside(m, Accumulate(m, p))
  BY <1>2, Zenon DEF Aside, RecordDeath, StandUp, Accumulate, NewMeter
<1>6. Aside(m, Keep(m, members)) /\ Aside(m, ApplyPlayer(m, p))
  BY <1>2, Zenon DEF Aside, Keep, ApplyPlayer, NewMeter
<1>7. /\ Aside(m, [m EXCEPT !.boss = x]) /\ Aside(m, [m EXCEPT !.scene = x])
      /\ Aside(m, [m EXCEPT !.finish = x]) /\ Aside(m, [m EXCEPT !.dungeon = "running"])
  BY <1>2, Zenon DEF Aside, NewMeter
<1>8. QED
  BY <1>1, <1>3, <1>4, <1>5, <1>6, <1>7

(* The functions that end a fight. *)
LEMMA LatchFrom ==
  ASSUME NEW o, NEW m, From(o, m), NEW cause, NEW end, NEW observed
  PROVE  From(o, Latch(m, cause, end, observed))
<1>1. ASSUME NEW l, EndsAs(m, l, Latch(m, cause, end, observed)), l.cause = cause,
             cause # "idle_timeout" => l.armed = NONE
      PROVE  From(o, Latch(m, cause, end, observed))
  BY <1>1, EndsFrom DEF RightlyArmed
<1>2. QED
  BY <1>1, LatchEnds

(* The idle end is the end of the same fight.                              *)
LEMMA PinFrom ==
  ASSUME NEW o, NEW m, From(o, m), NEW t PROVE From(o, Pin(m, t))
BY LatchFrom, Zenon DEF Pin

(* The end a boss's death latches is armed only in a run that goes on.     *)
LEMMA BossDeathFrom ==
  ASSUME NEW o, NEW m, From(o, m), NEW e, NEW t PROVE From(o, EndFightOnBossDeath(m, e, t))
<1> DEFINE ended == Latch(m, "boss_death", t, t)
           armed == [ended EXCEPT !.lc = Arm(@, MonAt(m, e))]
<1>1. From(o, ended)
  BY LatchFrom
<1>2. ASSUME m.lc.st = "active", m.dungeon # "terminal" PROVE From(o, armed)
  <2>1. PICK l : EndsAs(m, l, ended) /\ l.cause = "boss_death"
    BY <1>2, LatchEnds
  <2>2. PICK k : EndsAs(m, k, armed) /\ k.cause = l.cause
    BY <2>1, EndsThenArms
  <2>3. QED
    BY <1>2, <2>1, <2>2, EndsFrom DEF RightlyArmed
<1> HIDE DEF ended
<1>3. QED
  BY <1>1, <1>2, Zenon DEF EndFightOnBossDeath, ended, IsActive, Terminal

(* So is the end of a held completion.                                     *)
LEMMA HeldFinishFrom ==
  ASSUME NEW o, NEW m, From(o, m), NEW t PROVE From(o, EndFightOnHeldFinish(m, t))
<1> DEFINE ended == Latch(m, "dungeon_ended", t, t)
           armed == [ended EXCEPT !.lc = Arm(@, MonAt(m, m.boss))]
<1>1. From(o, ended)
  BY LatchFrom
<1>2. ASSUME m.lc.st = "active", m.dungeon # "terminal" PROVE From(o, armed)
  <2>1. PICK l : EndsAs(m, l, ended) /\ l.cause = "dungeon_ended"
    BY <1>2, LatchEnds
  <2>2. PICK k : EndsAs(m, k, armed) /\ k.cause = l.cause
    BY <2>1, EndsThenArms
  <2>3. QED
    BY <1>2, <2>1, <2>2, EndsFrom DEF RightlyArmed
<1> HIDE DEF ended
<1>3. QED
  BY <1>1, <1>2, Zenon DEF EndFightOnHeldFinish, ended, IsActive, Terminal

(* A completion ends the fight unarmed, or is held.                        *)
LEMMA CompletionFrom ==
  ASSUME NEW o, NEW m, From(o, m) PROVE From(o, CompletionSignal(m))
BY LatchFrom, RowsFrom, Zenon DEF CompletionSignal

(* Holding, releasing and disarming keep an end as it is. *)
LEMMA HoldFrom ==
  ASSUME NEW o, NEW m, From(o, m)
  PROVE  /\ From(o, [m EXCEPT !.lc = Hold(@)]) /\ From(o, [m EXCEPT !.lc = ReleaseHold(@)])
         /\ From(o, [m EXCEPT !.lc = Disarm(@)]) /\ From(o, ReleaseHoldIfRecovered(m))
<1>1. ASSUME NEW b PROVE From(o, [m EXCEPT !.lc = [@ EXCEPT !.hold = b]])
  <2> DEFINE l == [m.lc EXCEPT !.hold = b]
  <2>1. /\ DOMAIN l = DOMAIN m.lc /\ l.st = m.lc.st /\ l.start = m.lc.start
        /\ l.end = m.lc.end /\ l.observed = m.lc.observed /\ l.cause = m.lc.cause
        /\ l.armed = m.lc.armed
    BY Zenon DEF From, Idle
  <2> HIDE DEF l
  <2>2. From(o, [m EXCEPT !.lc = l])
    BY <2>1, SetLcFrom DEF From, Kept, RightlyArmed
  <2>3. QED
    BY <2>2 DEF l
<1>2. From(o, [m EXCEPT !.lc = Disarm(@)])
  <2> DEFINE l == Disarm(m.lc)
  <2>1. /\ DOMAIN l = DOMAIN m.lc /\ l.st = m.lc.st /\ l.start = m.lc.start
        /\ l.end = m.lc.end /\ l.observed = m.lc.observed /\ l.cause = m.lc.cause
        /\ l.armed = NONE
    BY Zenon DEF From, Idle, Disarm
  <2> HIDE DEF l
  <2>2. From(o, [m EXCEPT !.lc = l])
    BY <2>1, SetLcFrom DEF From, Kept, RightlyArmed
  <2>3. QED
    BY <2>2 DEF l
<1>3. From(o, [m EXCEPT !.lc = m.lc])
  BY SetLcFrom DEF From
<1>4. QED
  BY <1>1, <1>2, <1>3, Zenon DEF Hold, ReleaseHold, ReleaseHoldIfRecovered

(* A wipe ends the fight unarmed and puts the hold on.                     *)
LEMMA WipeFrom ==
  ASSUME NEW o, NEW m, From(o, m), NEW t
  PROVE  /\ From(o, [Latch(m, "wipe", t, t) EXCEPT !.lc = Hold(@)])
         /\ From(o, LatchWipeIfPartyDown(m, t))
<1> DEFINE r == Latch(m, "wipe", t, t)
<1>1. From(o, r)
  BY LatchFrom
<1> HIDE DEF r
<1>2. From(o, [r EXCEPT !.lc = Hold(@)])
  BY <1>1, HoldFrom
<1>3. QED
  BY <1>2, Zenon DEF LatchWipeIfPartyDown, r

---------------------------------------------------------------------------
(* What a hit lands as, from any meter. *)
LEMMA StrikeFrom ==
  ASSUME NEW o, NEW m, From(o, m), NEW d, NEW t PROVE From(o, Strike(m, d, t))
<1> DEFINE e == d.to
           old == IF e \in Known(m) THEN m.enemies[e] ELSE Unknown
           hit == PutEnemy(m, e, [old EXCEPT !.damaged = TRUE,
                                             !.last = IF t > @ THEN t ELSE @])
           seen == Recompute(IF d.dead THEN MarkDead(hit, e) ELSE hit)
           ended == IF m.boss = e THEN EndFightOnBossDeath(seen, e, t) ELSE seen
<1>1. From(o, hit)
  <2>1. \A enemy : From(o, PutEnemy(m, e, enemy))
    BY RowsFrom
  <2>2. QED
    BY <2>1
<1> HIDE DEF hit
<1>2. From(o, seen)
  BY <1>1, RowsFrom
<1> HIDE DEF seen
<1>3. From(o, ended)
  BY <1>2, BossDeathFrom
<1> HIDE DEF ended
<1>4. From(o, EndFightOnHeldFinish(ended, t))
  BY <1>3, HeldFinishFrom
<1>5. QED
  BY <1>2, <1>4, Zenon DEF Strike, hit, seen, ended

(* A hit credited to a fight may end it by the kill it is.                 *)
LEMMA CreditFrom ==
  ASSUME NEW o, NEW m, From(o, m), m.lc.st # "idle", NEW d, NEW t
  PROVE  From(o, Credit(m, d, t))
<1> DEFINE stamped == [m EXCEPT !.last_event = IF t > @ THEN t ELSE @, !.lc = Start(@, t)]
           live == Accumulate(stamped, d.by)
<1>1. /\ DOMAIN stamped = DOMAIN m /\ stamped.lc = Start(m.lc, t)
      /\ stamped.reason = m.reason /\ stamped.saved = m.saved /\ stamped.dungeon = m.dungeon
  BY Zenon DEF From, NewMeter
<1>2. From(o, stamped)
  <2>1. stamped.lc = m.lc
    BY <1>1 DEF Start
  <2> HIDE DEF stamped
  <2>2. QED
    BY <1>1, <2>1 DEF From
<1> HIDE DEF stamped
<1>3. From(o, live)
  BY <1>2, RowsFrom
<1> HIDE DEF live
<1>4. From(o, EndFightOnBossDeath(live, d.to, t))
  BY <1>3, BossDeathFrom
<1>5. QED
  BY <1>3, <1>4, Zenon DEF Credit, live, stamped

(* What m carries past the fight is in r. *)
Carries(m, r) ==
  /\ DOMAIN r = DOMAIN NewMeter /\ DOMAIN r.lc = DOMAIN Idle
  /\ r.reason = m.reason /\ r.saved = m.saved /\ RightlyArmed(r.lc, r.dungeon)

(* Where there is no fight it starts one, which that kill may end as well. *)
LEMMA CreditBegins ==
  ASSUME NEW m, From(m, m), m.lc.st = "idle", NEW d, NEW t
  PROVE  /\ Carries(m, Credit(m, d, t))
         /\ Credit(m, d, t).lc.st # "idle" /\ Credit(m, d, t).lc.start = t
<1> DEFINE stamped == [m EXCEPT !.last_event = IF t > @ THEN t ELSE @, !.lc = Start(@, t)]
           live == Accumulate(stamped, d.by)
<1>1. /\ DOMAIN stamped = DOMAIN m /\ stamped.lc = Start(m.lc, t)
      /\ stamped.reason = m.reason /\ stamped.saved = m.saved /\ stamped.dungeon = m.dungeon
  BY Zenon DEF From, NewMeter
<1>2. Start(m.lc, t) = Running(t, FALSE)
  BY DEF Start
<1>3. /\ stamped.lc.st = "active" /\ stamped.lc.start = t /\ stamped.lc.armed = NONE
      /\ DOMAIN stamped.lc = DOMAIN Idle
  BY <1>1, <1>2 DEF Running, Idle
<1> HIDE DEF stamped
<1>4. From(stamped, stamped)
  BY <1>1, <1>3 DEF From, Kept, RightlyArmed
<1>5. From(stamped, live)
  BY <1>4, RowsFrom
<1> HIDE DEF live
<1>6. From(stamped, EndFightOnBossDeath(live, d.to, t))
  BY <1>5, BossDeathFrom
<1>7. From(stamped, Credit(m, d, t))
  BY <1>5, <1>6, Zenon DEF Credit, live, stamped
<1>8. QED
  BY <1>1, <1>3, <1>7 DEF From, Kept, Carries

(* All a hit does to the fight that runs, and what it does where there is   *)
(* none: it starts one if a player dealt it.                                *)
LEMMA LandFrom ==
  ASSUME NEW o, NEW m, From(o, m), NEW d, NEW t
  PROVE  /\ m.lc.st # "idle" => From(o, Land(m, d, t))
         /\ m.lc.st = "idle" =>
              /\ Carries(m, Land(m, d, t))
              /\ PlayerHit(d) => Land(m, d, t).lc.st # "idle" /\ Land(m, d, t).lc.start = t
              /\ ~ PlayerHit(d) => From(o, Land(m, d, t))
<1> DEFINE acting == IF d.by \in Players THEN StandUp(m, d.by) ELSE m
           fell == IF d.dead /\ d.to \in Players
                   THEN LatchWipeIfPartyDown(RecordDeath(acting, d.to), t) ELSE acting
           struck == IF d.to \in Entities /\ ~ d.heal THEN Strike(fell, d, t) ELSE fell
<1>1. ASSUME NEW b, From(b, m) PROVE From(b, struck)
  <2>1. From(b, acting)
    BY <1>1, RowsFrom
  <2> HIDE DEF acting
  <2>2. From(b, fell)
    <3>1. From(b, RecordDeath(acting, d.to))
      BY <2>1, RowsFrom
    <3>2. QED
      BY <2>1, <3>1, WipeFrom
  <2> HIDE DEF fell
  <2>3. QED
    BY <2>2, StrikeFrom
<1>2. Land(m, d, t) = IF PlayerHit(d) THEN Credit(struck, d, t) ELSE struck
  BY Zenon DEF Land
<1> HIDE DEF struck
<1>3. From(m, m)
  BY DEF From, Kept
<1>4. From(m, struck) /\ From(o, struck)
  BY <1>1, <1>3
<1>5. m.lc.st # "idle" => From(o, Land(m, d, t))
  BY <1>2, <1>4, CreditFrom DEF From, Kept
<1>6. ASSUME m.lc.st = "idle", PlayerHit(d)
      PROVE  /\ Carries(m, Land(m, d, t))
             /\ Land(m, d, t).lc.st # "idle" /\ Land(m, d, t).lc.start = t
  <2>1. From(struck, struck) /\ struck.lc.st = "idle"
    BY <1>4, <1>6 DEF From, Kept
  <2>2. QED
    BY <1>2, <1>4, <1>6, <2>1, CreditBegins DEF From, Carries
<1>7. m.lc.st = "idle" /\ ~ PlayerHit(d) => Carries(m, Land(m, d, t)) /\ From(o, Land(m, d, t))
  BY <1>2, <1>4 DEF From, Carries
<1>8. QED
  BY <1>5, <1>6, <1>7

(* A reset hands back the ended fight it erases, as it was. *)
LEMMA ResetHandsBack ==
  ASSUME NEW o, NEW m, From(o, m), NEW t, NEW reason
  PROVE  /\ From(Reset(m, t, reason), Reset(m, t, reason))
         /\ Reset(m, t, reason).lc = Idle /\ Reset(m, t, reason).reason = reason
         /\ ~ IsEnded(m) => Reset(m, t, reason).saved = Nothing
         /\ IsEnded(m) => /\ Reset(m, t, reason).saved.lc = m.lc
                          /\ Reset(m, t, reason).saved.rows = Fighters(m)
<1> DEFINE r == Reset(m, t, reason)
<1>1. /\ DOMAIN r = DOMAIN NewMeter /\ r.lc = Idle /\ r.reason = reason
      /\ r.saved = IF IsEnded(m) THEN [lc |-> m.lc, rows |-> Fighters(m)] ELSE Nothing
  BY Zenon DEF Reset, Recompute, From, NewMeter
<1> HIDE DEF r
<1>2. From(r, r)
  BY <1>1 DEF From, Kept, RightlyArmed, Idle
<1>3. /\ ~ IsEnded(m) => r.saved = Nothing
      /\ IsEnded(m) => r.saved.lc = m.lc /\ r.saved.rows = Fighters(m)
  BY <1>1
<1>4. QED
  BY <1>1, <1>2, <1>3, Zenon DEF r

---------------------------------------------------------------------------
(* What a call of apply may do to the fight it finds. *)

(* The fight its end left armed goes on, with the hit of time c. *)
Resumed(o, r, c) ==
  /\ IsEnded(o) /\ HasPhaseGroup(o.lc.armed)
  /\ r.lc.st # "idle" /\ r.lc.start = o.lc.start /\ r.last_event = c
  /\ OpenAt(r.lc, c)

(* A fight begins, and may end, with the hit of time c. *)
Begins(r, c) == r.lc.st # "idle" /\ r.lc.start = c /\ OpenAt(r.lc, c)

(* A fight that ran has ended as l, by time c. *)
EndedBy(l, c) == l.start <= l.end /\ Decoded(l.end, l.cause, c)

(* The fight is gone, and only one that is handed back makes room for another. *)
Erased(o, r, c) ==
  \/ o.lc.st = "idle" /\ r.saved = Nothing /\ r.lc.st = "idle"
  \/ /\ IsActive(o) /\ r.saved = Nothing /\ r.lc.st = "idle"
     /\ r.reason = "dungeon_started" \/ (r.reason = "boss_hp_rollback" /\ Down(o) = {})
  \/ /\ o.lc.st # "idle" /\ r.saved.lc.st = "ended" /\ Kept(o.lc, r.saved.lc)
     /\ r.saved.rows = Fighters(o)
     /\ IsActive(o) => EndedBy(r.saved.lc, c)
     /\ r.lc.st = "idle" \/ Begins(r, c)

(* apply finds nothing erased yet. *)
Fresh(o) ==
  /\ From(o, o) /\ o.lc.st \in {"idle", "active", "ended"}
  /\ o.reason = "none" /\ o.saved = Nothing

Went(o, r, c) ==
  /\ DOMAIN r = DOMAIN NewMeter /\ RightlyArmed(r.lc, r.dungeon)
  /\ r.reason # "manual"
  /\ IF r.reason = "none"
     THEN /\ r.saved = Nothing
          /\ \/ Kept(o.lc, r.lc) \/ Resumed(o, r, c)
             \/ o.lc.st = "idle" /\ Begins(r, c)
     ELSE Erased(o, r, c)

(* A handler that neither resets nor resumes keeps the fight.              *)
LEMMA FromWent ==
  ASSUME NEW o, Fresh(o), NEW r, From(o, r), NEW c PROVE Went(o, r, c)
BY DEF Fresh, From, Went

(* A reset hands back the fight it erases, unless it still runs and the    *)
(* dungeon or a re-pull erases it.                                         *)
LEMMA ErasedWent ==
  ASSUME NEW o, Fresh(o), NEW m, From(o, m), NEW t, NEW reason,
         reason # "none", reason # "manual",
         \/ o.lc.st = "idle" /\ m.lc.st # "ended"
         \/ o.lc.st = "active" /\ m.lc.st # "ended" /\ reason = "dungeon_started"
         \/ /\ o.lc.st = "active" /\ m.lc.st # "ended" /\ reason = "boss_hp_rollback"
            /\ Down(o) = {}
         \/ o.lc.st = "ended" /\ m.lc.st = "ended" /\ Fighters(m) = Fighters(o),
         NEW r, From(Reset(m, t, reason), r), NEW c
  PROVE  Went(o, r, c)
<1> DEFINE z == Reset(m, t, reason)
<1>1. /\ z.reason = reason /\ z.lc = Idle
      /\ ~ IsEnded(m) => z.saved = Nothing
      /\ IsEnded(m) => z.saved.lc = m.lc /\ z.saved.rows = Fighters(m)
  BY ResetHandsBack
<1> HIDE DEF z
<1>2. r.reason = reason /\ r.saved = z.saved /\ r.lc.st = "idle"
  BY <1>1 DEF From, Kept, Idle, z
<1>3. ~ IsEnded(m) => r.saved = Nothing
  BY <1>1, <1>2
<1>4. IsEnded(m) => r.saved.lc = m.lc /\ r.saved.rows = Fighters(m)
  BY <1>1, <1>2
<1>5. Erased(o, r, c)
  BY <1>2, <1>3, <1>4 DEF Erased, From, IsEnded, IsActive
<1>6. QED
  BY <1>2, <1>5 DEF Went, From

(* Pinning the idle end finds the same rows, and no fight where none was. *)
LEMMA PinKeeps ==
  ASSUME NEW o, NEW c, NEW n, Ok(o, c, n), From(o, o), NEW t
  PROVE  /\ From(o, Pin(o, t)) /\ Fighters(Pin(o, t)) = Fighters(o)
         /\ o.lc.st = "idle" => Pin(o, t).lc.st = "idle"
<1>1. \A end : /\ Latch(o, "idle_timeout", end, t).players = o.players
               /\ o.lc.st = "idle" => Latch(o, "idle_timeout", end, t).lc = o.lc
  BY Zenon DEF Latch, End, From, NewMeter
<1>2. Pin(o, t).players = o.players /\ (o.lc.st = "idle" => Pin(o, t).lc = o.lc)
  BY <1>1, Zenon DEF Pin
<1>3. QED
  BY <1>2, PinFrom, Zenon DEF Fighters, RowsIn

(* No monster is in no group.                                              *)
LEMMA NoneHasNoGroup == ~ HasPhaseGroup(NONE)
BY TablesAssumption DEF HasPhaseGroup

(* A hit is part of the fight that runs, of the one it resumes, or of a    *)
(* new one: then the fight before it has ended and is handed back.         *)
LEMMA ApplyDamageWent ==
  ASSUME NEW o, NEW c, NEW n, Clocks(c, n), Ok(o, c, n), Fresh(o), NEW d
  PROVE  Went(o, ApplyDamage(o, d, c), c)
<1> DEFINE pinned == Pin(o, c)
           resumes == ResumesHeldFight(pinned, d, c)
           held == IF resumes THEN [pinned EXCEPT !.lc = Resume(@)] ELSE pinned
           fresh == /\ IsEnded(held) /\ PlayerHit(d)
                    /\ ~ WithholdsNewFight(held, d, c)
                    /\ ~ WithholdsAfterWipe(held, d, c)
                    /\ ~ InPostEndGrace(held, d, c)
           open == IF fresh THEN Reset(held, c, "new_fight") ELSE held
           r == ApplyDamage(o, d, c)
<1> SUFFICES Went(o, r, c)
  OBVIOUS
<1>1. /\ From(o, pinned) /\ Fighters(pinned) = Fighters(o)
      /\ o.lc.st = "idle" => pinned.lc.st = "idle"
      /\ Ok(pinned, c, n)
  BY PinKeeps, PinOk DEF Clocks, Fresh
<1>2. resumes => /\ IsEnded(pinned) /\ PlayerHit(d) /\ HasPhaseGroup(pinned.lc.armed)
  BY Zenon DEF ResumesHeldFight, ArmedPhaseHold
<1> HIDE DEF pinned, resumes
<1>3. fresh => IsEnded(held) /\ PlayerHit(d)
  OBVIOUS
<1>4. r = IF ~ IsEnded(open) THEN Land(open, d, c)
          ELSE IF InPostEndGrace(open, d, c) /\ PlayerHit(d) THEN Accumulate(open, d.by)
          ELSE open
  BY Zenon DEF ApplyDamage, open, fresh, held, resumes, pinned
<1> HIDE DEF r, fresh
<1>5. CASE resumes
  <2>1. /\ DOMAIN held = DOMAIN NewMeter /\ held.lc = Resume(pinned.lc)
        /\ held.reason = pinned.reason /\ held.saved = pinned.saved
    BY <1>1, <1>5, Zenon DEF From, NewMeter
  <2>2. Ok(held, c, n)
    BY <1>1, HoldReleasedOk
  <2>3. Resume(pinned.lc) = Running(pinned.lc.start, pinned.lc.hold)
    BY <1>2, <1>5 DEF Resume, IsEnded
  <2>4. /\ held.lc.st = "active" /\ held.lc.start = pinned.lc.start /\ held.lc.armed = NONE
        /\ DOMAIN held.lc = DOMAIN Idle
    BY <2>1, <2>3 DEF Running, Idle
  <2> HIDE DEF held
  <2>5. From(held, held)
    BY <2>1, <2>4 DEF From, Kept, RightlyArmed
  <2>6. open = held /\ r = Land(held, d, c)
    BY <1>3, <1>4, <2>4 DEF IsEnded
  <2>7. From(held, r)
    <3>1. held.lc.st # "idle"
      BY <2>4
    <3>2. QED
      BY <2>5, <2>6, <3>1, LandFrom
  <2>8. OpenAt(r.lc, c) /\ r.last_event = c
    BY <1>2, <1>5, <2>2, <2>4, <2>6, LandOk DEF Ready, OpenAt
  <2>9. r.reason = "none" /\ r.saved = Nothing
    BY <1>1, <2>1, <2>7 DEF From, Fresh
  <2>10. r.lc.st # "idle" /\ r.lc.start = pinned.lc.start
    BY <2>4, <2>7 DEF From, Kept
  <2>11. CASE o.lc.st = "ended"
    <3>1. HasPhaseGroup(o.lc.armed) /\ o.lc.start = pinned.lc.start
      BY <1>1, <1>2, <1>5, <2>11, NoneHasNoGroup DEF From, Kept
    <3>2. Resumed(o, r, c)
      BY <2>8, <2>10, <2>11, <3>1 DEF Resumed, IsEnded
    <3>3. QED
      BY <2>7, <2>9, <3>2 DEF Went, From
  <2>12. CASE o.lc.st # "ended"
    <3>1. Kept(o.lc, r.lc)
      BY <1>1, <1>2, <1>5, <2>10, <2>12 DEF From, Kept, IsEnded
    <3>2. QED
      BY <2>7, <2>9, <3>1 DEF Went, From
  <2>13. QED
    BY <2>11, <2>12
<1>6. CASE ~ resumes /\ fresh
  <2>1. held = pinned /\ open = Reset(pinned, c, "new_fight")
    BY <1>6
  <2>2. o.lc.st # "idle" /\ IsEnded(pinned)
    BY <1>1, <1>3, <1>6, <2>1 DEF IsEnded
  <2> HIDE DEF open, held
  <2>3. /\ From(open, open) /\ open.lc.st = "idle" /\ open.reason = "new_fight"
        /\ open.saved.lc = pinned.lc /\ open.saved.rows = Fighters(pinned)
    BY <1>1, <2>1, <2>2, ResetHandsBack DEF Idle
  <2>4. r = Land(open, d, c) /\ PlayerHit(d)
    BY <1>3, <1>4, <1>6, <2>3 DEF IsEnded
  <2>5. Ok(open, c, n)
    BY <1>1, <2>1, ResetOk
  <2>6. Carries(open, r) /\ r.lc.st # "idle" /\ r.lc.start = c
    BY <2>3, <2>4, LandFrom
  <2>7. OpenAt(r.lc, c)
    BY <2>3, <2>4, <2>5, LandOk DEF Ready, OpenAt
  <2>8. Begins(r, c)
    BY <2>6, <2>7 DEF Begins
  <2>9. EndedBy(pinned.lc, c)
    BY <1>1, <2>2 DEF EndedBy, Ok, OkTimes, WellFormed, IsEnded
  <2>10. Erased(o, r, c)
    BY <1>1, <2>2, <2>3, <2>6, <2>8, <2>9 DEF Erased, From, Carries, IsEnded
  <2>11. QED
    BY <2>3, <2>6, <2>10 DEF Went, Carries
<1>7. CASE ~ resumes /\ ~ fresh
  <2>1. open = pinned
    BY <1>7
  <2> HIDE DEF open, held
  <2>2. CASE IsEnded(pinned)
    <3>1. From(o, r)
      BY <1>1, <1>4, <2>1, <2>2, RowsFrom
    <3>2. QED
      BY <3>1, FromWent
  <2>3. CASE ~ IsEnded(pinned)
    <3>1. r = Land(pinned, d, c)
      BY <1>4, <2>1, <2>3
    <3>2. CASE pinned.lc.st # "idle" \/ ~ PlayerHit(d)
      BY <1>1, <3>1, <3>2, LandFrom, FromWent
    <3>3. CASE pinned.lc.st = "idle" /\ PlayerHit(d)
      <4>1. Carries(pinned, r) /\ r.lc.st # "idle" /\ r.lc.start = c
        BY <1>1, <3>1, <3>3, LandFrom
      <4>2. OpenAt(r.lc, c)
        BY <1>1, <2>3, <3>1, LandOk DEF Ready, OpenAt, IsEnded
      <4>3. o.lc.st = "idle" /\ pinned.reason = "none" /\ pinned.saved = Nothing
        BY <1>1, <3>3 DEF From, Kept, Fresh
      <4>4. QED
        BY <4>1, <4>2, <4>3 DEF Went, Begins, Carries
    <3>4. QED
      BY <3>2, <3>3
  <2>4. QED
    BY <2>2, <2>3
<1>8. QED
  BY <1>5, <1>6, <1>7 DEF r

(* HP packets, the only ones that may tell a re-pull. *)
LEMMA ObserveFrom ==
  ASSUME NEW o, NEW m, From(o, m), NEW e, NEW id, NEW hp
  PROVE  From(o, Observe(m, e, id, hp)) /\ Observe(m, e, id, hp).players = m.players
<1>1. \A enemy : /\ From(o, PutEnemy(m, e, enemy))
                 /\ PutEnemy(m, e, enemy).players = m.players
  BY RowsFrom, Zenon DEF PutEnemy, From, NewMeter
<1>2. ASSUME NEW r, From(o, r), NEW seq
      PROVE  From(o, [r EXCEPT !.deaths = seq]) /\ [r EXCEPT !.deaths = seq].players = r.players
  <2>1. Aside(r, [r EXCEPT !.deaths = seq]) /\ [r EXCEPT !.deaths = seq].players = r.players
    BY <1>2, Zenon DEF From, Aside, NewMeter
  <2>2. QED
    BY <1>2, <2>1 DEF From, Aside, RightlyArmed
<1>3. \A r : From(o, r) => From(o, MarkDead(r, e)) /\ MarkDead(r, e).players = r.players
  BY RowsFrom, Zenon DEF MarkDead, From, NewMeter
<1> DEFINE old == IF e \in Known(m) THEN m.enemies[e] ELSE Unknown
           other == id # NONE /\ old.mon \notin {NONE, id}
           named == IF other THEN [Unknown EXCEPT !.mon = id]
                    ELSE [old EXCEPT !.mon = IF id = NONE THEN @ ELSE id]
           level == IF hp = NONE THEN named.hp ELSE hp
           risen == other \/ (hp \notin {NONE, Dead} /\ ~ named.damaged)
           enemy == [named EXCEPT !.hp = level, !.dipped = @ \/ level \in {Dead, Low}]
           read == PutEnemy(m, e, enemy)
           seq == Unranked(read, e)
           kept == IF risen THEN [read EXCEPT !.deaths = seq] ELSE read
<1>4. Observe(m, e, id, hp) = IF hp = Dead THEN MarkDead(kept, e) ELSE kept
  BY Zenon DEF Observe
<1> HIDE DEF risen, enemy, seq
<1>5. From(o, read) /\ read.players = m.players
  BY <1>1
<1> HIDE DEF read
<1>6. From(o, kept) /\ kept.players = m.players
  BY <1>2, <1>5
<1> HIDE DEF kept
<1>7. QED
  BY <1>3, <1>4, <1>6

(* Ending a fight touches no row. *)
LEMMA EndsKeepRows ==
  ASSUME NEW o, NEW m, From(o, m), NEW e, NEW t, NEW cause, NEW end, NEW observed
  PROVE  /\ Recompute(m).players = m.players
         /\ Latch(m, cause, end, observed).players = m.players
         /\ EndFightOnBossDeath(m, e, t).players = m.players
         /\ EndFightOnHeldFinish(m, t).players = m.players
<1>1. \A k : From(o, Latch(m, k, t, t)) /\ Latch(m, k, t, t).players = m.players
  <2>1. \A k : From(o, Latch(m, k, t, t))
    BY LatchFrom
  <2>2. \A k : Latch(m, k, t, t).players = m.players
    BY Zenon DEF Latch, From, NewMeter
  <2>3. QED
    BY <2>1, <2>2
<1>2. Latch(m, cause, end, observed).players = m.players
  BY Zenon DEF Latch, From, NewMeter
<1>3. \A r, l : From(o, r) => [r EXCEPT !.lc = l].players = r.players
  BY Zenon DEF From, NewMeter
<1>4. Recompute(m).players = m.players
  BY Zenon DEF Recompute, From, NewMeter
<1>5. EndFightOnBossDeath(m, e, t).players = m.players
  BY <1>1, <1>3, Zenon DEF EndFightOnBossDeath
<1>6. EndFightOnHeldFinish(m, t).players = m.players
  BY <1>1, <1>3, Zenon DEF EndFightOnHeldFinish
<1>7. QED
  BY <1>2, <1>4, <1>5, <1>6

(* A re-pull erases the fight it finds only if nobody is down, and it runs. *)
LEMMA RollbackWent ==
  ASSUME NEW o, NEW c, NEW n, Clocks(c, n), Fresh(o), NEW m, Ok(m, c, n), From(o, m),
         m.players = o.players, NEW e
  PROVE  Went(o, Rollback(m, e, c), c)
<1> DEFINE hurt == [Latch(m, "wipe", c, c) EXCEPT !.lc = Hold(@)]
           wiped == IF Down(m) = {} THEN m ELSE hurt
           cool == m.last_reset = NONE \/ Since(c, m.last_reset) >= ResetCooldown
           reset == Reset(wiped, c, "boss_hp_rollback")
<1>1. From(o, wiped) /\ Ok(wiped, c, n)
  BY WipeFrom, LatchWipeOk, PacketTime
<1>2. Down(m) = Down(o)
  BY Zenon DEF Down, RowsIn
<1>3. Rollback(m, e, c) = IF cool /\ EndedAt(wiped, c) = NONE THEN reset
                          ELSE [wiped EXCEPT !.enemies[e].dipped = FALSE]
  BY Zenon DEF Rollback
<1>4. m.lc.st = "active" => hurt.lc.st = "ended"
  <2>1. ASSUME NEW l, EndsAs(m, l, Latch(m, "wipe", c, c))
        PROVE  [Latch(m, "wipe", c, c) EXCEPT !.lc = Hold(@)].lc.st = "ended"
    BY <2>1, Zenon DEF EndsAs, Hold, From, NewMeter, Idle
  <2>2. QED
    BY <2>1, LatchEnds
<1> HIDE DEF hurt, cool
<1>5. Went(o, [wiped EXCEPT !.enemies[e].dipped = FALSE], c)
  <2> HIDE DEF wiped
  <2>1. Aside(wiped, [wiped EXCEPT !.enemies[e].dipped = FALSE])
    BY <1>1, Zenon DEF From, Aside, NewMeter
  <2>2. From(o, [wiped EXCEPT !.enemies[e].dipped = FALSE])
    BY <1>1, <2>1 DEF From, Aside, RightlyArmed
  <2>3. QED
    BY <2>2, FromWent
<1>6. ASSUME EndedAt(wiped, c) = NONE PROVE Went(o, reset, c)
  <2>1. wiped.lc.st # "ended"
    <3> HIDE DEF wiped
    <3>1. wiped.lc.st = "ended" => wiped.lc.end \in Nat /\ EndedAt(wiped, c) = wiped.lc.end
      BY <1>1 DEF Ok, OkTimes, EndedAt, IsEnded
    <3>2. QED
      BY <1>6, <3>1 DEF NONE
  <2>2. o.lc.st = "idle" \/ (o.lc.st = "active" /\ Down(o) = {})
    <3>1. m.lc.st # "ended"
      <4>1. From(m, m)
        BY DEF From, Kept
      <4>2. From(m, wiped)
        BY <4>1, WipeFrom DEF hurt
      <4>3. QED
        BY <2>1, <4>2 DEF From, Kept
    <3>2. o.lc.st # "ended" /\ (o.lc.st # "idle" => m.lc.st # "idle")
      BY <3>1 DEF From, Kept
    <3>3. m.lc.st \in {"idle", "active", "ended"} /\ o.lc.st \in {"idle", "active", "ended"}
      BY DEF Ok, OkTimes, WellFormed, Fresh
    <3>4. m.lc.st = "active" => Down(m) = {}
      BY <1>4, <2>1
    <3>5. QED
      BY <1>2, <3>1, <3>2, <3>3, <3>4
  <2> HIDE DEF wiped
  <2>3. From(reset, reset) /\ reset.lc = Idle
    BY <1>1, ResetHandsBack
  <2> HIDE DEF reset
  <2>4. reset.lc.st = "idle"
    BY <2>3 DEF Idle
  <2>5. QED
    BY <1>1, <2>1, <2>2, <2>3, <2>4, ErasedWent DEF reset
<1>7. QED
  BY <1>3, <1>5, <1>6

(* An HP packet ends the fight, erases it by a re-pull, or leaves it.      *)
LEMMA ApplyEnemyHpWent ==
  ASSUME NEW o, NEW c, NEW n, Clocks(c, n), Ok(o, c, n), Fresh(o), NEW e, NEW id, NEW hp
  PROVE  Went(o, ApplyEnemyHp(o, e, id, hp, c), c)
<1> DEFINE seen == Recompute(Observe(o, e, id, hp))
           killed == IF EndOnBossDeath /\ o.boss = e /\ seen.enemies[e].hp = Dead
                     THEN EndFightOnBossDeath(seen, e, c) ELSE seen
           ended == IF EndOnBossDeath /\ hp = Dead
                    THEN EndFightOnHeldFinish(killed, c) ELSE killed
<1>1. From(o, seen) /\ Ok(seen, c, n) /\ seen.players = o.players
  <2>1. /\ From(o, Observe(o, e, id, hp)) /\ Ok(Observe(o, e, id, hp), c, n)
        /\ Observe(o, e, id, hp).players = o.players
    BY ObserveFrom, ObserveOk DEF Fresh
  <2>2. QED
    BY <2>1, RowsFrom, RowsOk, EndsKeepRows
<1> HIDE DEF seen
<1>2. From(o, killed) /\ Ok(killed, c, n) /\ killed.players = o.players
  BY <1>1, BossDeathFrom, EndFightOnBossDeathOk, EndsKeepRows, PacketTime
<1> HIDE DEF killed
<1>3. From(o, ended) /\ Ok(ended, c, n) /\ ended.players = o.players
  BY <1>2, HeldFinishFrom, EndFightOnHeldFinishOk, EndsKeepRows, PacketTime
<1> HIDE DEF ended
<1>4. Went(o, ended, c) /\ Went(o, Rollback(ended, e, c), c)
  BY <1>3, FromWent, RollbackWent
<1>5. QED
  BY <1>4, Zenon DEF ApplyEnemyHp, ended, killed, seen

(* The other packets about one enemy or one player. *)
LEMMA DeathsFrom ==
  ASSUME NEW o, NEW m, From(o, m), NEW e, NEW p, NEW t, NEW reason
  PROVE  /\ From(o, ApplyEnemyGone(m, e, reason)) /\ From(o, EnemyDied(m, e, t))
         /\ From(o, PlayerDied(m, p, t)) /\ From(o, PlayerRevived(m, p))
<1> DEFINE seen == Recompute(MarkDead(m, e))
           ended == IF EndOnBossDeath /\ m.boss = e
                    THEN EndFightOnBossDeath(seen, e, t) ELSE seen
<1>1. From(o, seen)
  BY RowsFrom
<1> HIDE DEF seen
<1>2. From(o, ended) /\ From(o, EndFightOnBossDeath(seen, e, m.last_event))
  BY <1>1, BossDeathFrom
<1> HIDE DEF ended
<1>3. From(o, EndFightOnHeldFinish(ended, t))
  BY <1>2, HeldFinishFrom
<1>4. From(o, ApplyEnemyGone(m, e, reason))
  BY <1>2, Zenon DEF ApplyEnemyGone, seen
<1>5. From(o, EnemyDied(m, e, t))
  BY <1>2, <1>3, Zenon DEF EnemyDied, ended, seen
<1>6. From(o, PlayerDied(m, p, t))
  BY RowsFrom, WipeFrom, Zenon DEF PlayerDied
<1>7. From(o, PlayerRevived(m, p))
  BY RowsFrom, HoldFrom, Zenon DEF PlayerRevived
<1>8. QED
  BY <1>4, <1>5, <1>6, <1>7

(* Leaving a scene ends the fight that runs, and hands back one that ended. *)
LEMMA ApplySceneWent ==
  ASSUME NEW o, NEW c, NEW n, Clocks(c, n), Ok(o, c, n), Fresh(o), NEW s
  PROVE  Went(o, ApplyScene(o, s), c)
<1> DEFINE pruned == PruneStalePreloads(o)
           ended == IF IsActive(o)
                    THEN Latch(pruned, "scene_changed", o.last_event, o.last_event) ELSE pruned
           left == [ended EXCEPT !.finish = FALSE]
           erases == ~ IsActive(o) /\ ~ o.lc.hold
           clean == IF erases THEN Reset(left, o.last_event, "scene_changed") ELSE left
           unbossed == [ClearEnemies(clean) EXCEPT !.boss = NONE]
           disarmed == [unbossed EXCEPT !.lc = Disarm(@)]
           entered == ClearDungeon([ClearEnemies(clean) EXCEPT !.boss = NONE, !.lc = Disarm(@)])
<1>1. From(o, left) /\ (~ IsActive(o) => left.lc = o.lc /\ Fighters(left) = Fighters(o))
  <2>1. From(o, pruned) /\ pruned.lc = o.lc /\ Fighters(pruned) = Fighters(o)
    <3>1. From(o, pruned) /\ pruned.lc = o.lc
      BY RowsFrom, Zenon DEF Fresh, PruneStalePreloads, From, NewMeter
    <3>2. pruned.players = [p \in Players |->
                              IF o.players[p] = "preloaded" THEN "absent" ELSE o.players[p]]
      BY Zenon DEF Fresh, PruneStalePreloads, From, NewMeter
    <3> HIDE DEF pruned
    <3>3. \A p \in Players : pruned.players[p] \in {"up", "down"}
                              <=> o.players[p] \in {"up", "down"}
      BY <3>2
    <3>4. QED
      BY <3>1, <3>3 DEF Fighters, RowsIn
  <2> HIDE DEF pruned
  <2>2. From(o, ended) /\ (~ IsActive(o) => ended = pruned)
    BY <2>1, LatchFrom
  <2> HIDE DEF ended
  <2>3. From(o, left) /\ left.lc = ended.lc /\ left.players = ended.players
    BY <2>2, RowsFrom, Zenon DEF From, NewMeter
  <2>4. Fighters(left) = Fighters(ended)
    BY <2>3, Zenon DEF Fighters, RowsIn
  <2>5. QED
    BY <2>1, <2>2, <2>3, <2>4
<1> HIDE DEF left
<1>2. ASSUME NEW b, From(b, clean)
      PROVE  From(b, entered)
  <2> HIDE DEF clean
  <2>1. From(b, unbossed)
    BY <1>2, RowsFrom
  <2> HIDE DEF unbossed
  <2>2. From(b, disarmed)
    BY <2>1, HoldFrom
  <2> HIDE DEF disarmed
  <2>3. From(b, ClearDungeon(disarmed))
    BY <2>2, RowsFrom
  <2>4. QED
    BY <2>3, Zenon DEF disarmed, unbossed
<1>3. Went(o, [o EXCEPT !.scene = s], c)
  BY RowsFrom, FromWent DEF Fresh
<1>4. Went(o, [[left EXCEPT !.lc = ReleaseHold(@)] EXCEPT !.scene = s], c)
  <2>1. From(o, [left EXCEPT !.lc = ReleaseHold(@)])
    BY <1>1, HoldFrom
  <2>2. QED
    BY <2>1, RowsFrom, FromWent
<1>5. Went(o, [entered EXCEPT !.scene = s], c)
  <2>1. CASE ~ erases
    <3>1. From(o, entered)
      BY <1>1, <1>2, <2>1
    <3> HIDE DEF entered
    <3>2. QED
      BY <3>1, RowsFrom, FromWent
  <2>2. CASE erases
    <3> DEFINE z == Reset(left, o.last_event, "scene_changed")
    <3>1. From(z, z)
      BY <1>1, ResetHandsBack
    <3>2. clean = z
      BY <2>2
    <3>3. From(z, entered)
      BY <1>2, <3>1, <3>2
    <3> HIDE DEF entered, z
    <3>4. From(z, [entered EXCEPT !.scene = s])
      BY <3>3, RowsFrom
    <3>5. \/ o.lc.st = "idle" /\ left.lc.st # "ended"
          \/ o.lc.st = "ended" /\ left.lc.st = "ended" /\ Fighters(left) = Fighters(o)
      BY <1>1, <2>2 DEF Fresh, IsActive
    <3>6. QED
      BY <1>1, <3>4, <3>5, ErasedWent DEF z
  <2>3. QED
    BY <2>1, <2>2
<1> HIDE DEF entered
<1>6. QED
  BY <1>3, <1>4, <1>5, Zenon DEF ApplyScene, entered, clean, erases, left, ended, pruned

(* A server change ends the fight, and leaves nothing armed.               *)
LEMMA ApplyServerChangedFrom ==
  ASSUME NEW o, NEW m, From(o, m), NEW t PROVE From(o, ApplyServerChanged(m, t))
<1> DEFINE cleared == ClearEnemies(PruneStalePreloads(Latch(m, "server_changed", t, t)))
           disarmed == [cleared EXCEPT !.lc = Disarm(@)]
           released == [disarmed EXCEPT !.lc = ReleaseHold(@)]
<1>1. From(o, cleared)
  BY LatchFrom, RowsFrom
<1> HIDE DEF cleared
<1>2. From(o, disarmed)
  BY <1>1, HoldFrom
<1>3. From(o, released)
  BY <1>2, HoldFrom
<1>4. released = [cleared EXCEPT !.lc = ReleaseHold(Disarm(@))]
  BY <1>1, Zenon DEF From, NewMeter
<1>5. From(o, ClearDungeon(released))
  BY <1>3, RowsFrom
<1> HIDE DEF released
<1>6. QED
  BY <1>4, <1>5, Zenon DEF ApplyServerChanged, cleared

(* A dungeon that starts over erases what it finds, running or not. *)
LEMMA DungeonStartedWent ==
  ASSUME NEW o, Fresh(o), NEW m, From(o, m), m.lc = o.lc, m.players = o.players, NEW t, NEW c
  PROVE  Went(o, Reset(m, t, "dungeon_started"), c)
<1> DEFINE r == Reset(m, t, "dungeon_started")
<1>1. From(r, r) /\ r.lc = Idle
  BY ResetHandsBack
<1> HIDE DEF r
<1>2. r.lc.st = "idle"
  BY <1>1 DEF Idle
<1>3. Fighters(m) = Fighters(o)
  BY Zenon DEF Fighters, RowsIn
<1>4. \/ o.lc.st = "idle" /\ m.lc.st # "ended"
      \/ o.lc.st = "active" /\ m.lc.st # "ended"
      \/ o.lc.st = "ended" /\ m.lc.st = "ended" /\ Fighters(m) = Fighters(o)
  BY <1>3 DEF Fresh
<1>5. QED
  BY <1>1, <1>2, <1>4, ErasedWent DEF r

(* A dungeon state ends the fight, erases it where the dungeon starts      *)
(* over, or leaves it; a run over leaves nothing armed.                    *)
LEMMA ApplyDungeonStateWent ==
  ASSUME NEW o, Fresh(o), NEW ds \in DungeonStates, NEW c
  PROVE  Went(o, ApplyDungeonState(o, ds), c)
<1>1. CASE ds = "null"
  BY <1>1, RowsFrom, FromWent DEF ApplyDungeonState, Fresh
<1>2. CASE ds = "running"
  BY <1>2, RowsFrom, FromWent DEF ApplyDungeonState, Fresh
<1>3. CASE ds = "playing"
  <2> DEFINE m == [ClearDungeon(o) EXCEPT !.dungeon = "running"]
  <2>0. From(o, ClearDungeon(o))
    BY RowsFrom DEF Fresh
  <2>1. ClearDungeon(o).lc = o.lc /\ ClearDungeon(o).players = o.players
    BY Zenon DEF Fresh, From, ClearDungeon, NewMeter
  <2>2. From(o, m) /\ m.lc = o.lc /\ m.players = o.players
    BY <2>0, <2>1, RowsFrom, Zenon DEF From, NewMeter
  <2> HIDE DEF m
  <2>3. Went(o, Reset(m, o.last_event, "dungeon_started"), c)
    BY <2>2, DungeonStartedWent
  <2>4. QED
    BY <1>3, <2>3 DEF ApplyDungeonState, m
<1>4. CASE ds = "terminal"
  <2> DEFINE r == [o EXCEPT !.dungeon = "terminal", !.lc = Disarm(@)]
  <2>1. /\ DOMAIN r = DOMAIN NewMeter /\ r.reason = o.reason /\ r.saved = o.saved
        /\ r.lc = Disarm(o.lc)
    BY Zenon DEF Fresh, From, NewMeter
  <2> HIDE DEF r
  <2>2. /\ DOMAIN r.lc = DOMAIN Idle /\ r.lc.st = o.lc.st /\ r.lc.start = o.lc.start
        /\ r.lc.end = o.lc.end /\ r.lc.observed = o.lc.observed /\ r.lc.cause = o.lc.cause
        /\ r.lc.armed = NONE
    <3> DEFINE l == Disarm(o.lc)
    <3>1. /\ DOMAIN l = DOMAIN Idle /\ l.st = o.lc.st /\ l.start = o.lc.start
          /\ l.end = o.lc.end /\ l.observed = o.lc.observed /\ l.cause = o.lc.cause
          /\ l.armed = NONE
      BY Zenon DEF Fresh, From, Idle, Disarm
    <3> HIDE DEF l
    <3>2. r.lc = l
      BY <2>1 DEF l
    <3>3. QED
      BY <3>1, <3>2
  <2>3. From(o, r)
    BY <2>1, <2>2 DEF From, Kept, RightlyArmed
  <2>4. Went(o, CompletionSignal(r), c)
    BY <2>3, CompletionFrom, FromWent
  <2>5. QED
    BY <1>4, <2>4 DEF ApplyDungeonState, r
<1>5. QED
  BY <1>1, <1>2, <1>3, <1>4, TablesAssumption

(* So does an objective.                                                   *)
LEMMA ApplyObjectiveWent ==
  ASSUME NEW o, Fresh(o), NEW obj, NEW zero, NEW complete, NEW c
  PROVE  /\ Went(o, ApplyObjective(o, obj, zero, complete), c)
         /\ Went(o, ApplyObjectiveRemoved(o, obj), c)
<1>1. ASSUME NEW r, Aside(o, r), r.players = o.players
      PROVE  /\ Went(o, Reset(r, o.last_event, "dungeon_started"), c)
             /\ Went(o, EndFightOnHeldFinish(r, o.last_event), c)
  <2>1. From(o, r) /\ r.lc = o.lc
    BY <1>1 DEF Fresh, From, Aside, RightlyArmed
  <2>2. QED
    BY <1>1, <2>1, DungeonStartedWent, HeldFinishFrom, FromWent
<1>2. Went(o, ApplyObjectiveRemoved(o, obj), c)
  <2> DEFINE r == [o EXCEPT !.open = @ \ {obj}, !.done = @ \ {obj},
                            !.current = IF @ = obj THEN NONE ELSE @]
  <2>1. Aside(o, r) /\ r.players = o.players
    BY Zenon DEF Fresh, From, Aside, NewMeter
  <2> HIDE DEF r
  <2>2. QED
    BY <1>1, <2>1, Zenon DEF ApplyObjectiveRemoved, r
<1>3. Went(o, ApplyObjective(o, obj, zero, complete), c)
  <2> DEFINE done == IF complete = "yes" THEN o.done \cup {obj}
                     ELSE IF complete = "no" THEN o.done \ {obj} ELSE o.done
             first == IF o.first = NONE THEN obj ELSE o.first
             kept == [o EXCEPT !.done = done, !.open = (@ \cup {obj}) \ done, !.first = first]
             turned == [kept EXCEPT !.current = obj]
             new == obj # o.current /\ complete = "no" /\ zero
             restarted == o.current # NONE /\ o.current # first /\ obj = first
  <2>0. ApplyObjective(o, obj, zero, complete) =
          IF new /\ restarted THEN Reset(turned, o.last_event, "dungeon_started")
          ELSE EndFightOnHeldFinish(IF new THEN turned ELSE kept, o.last_event)
    BY Zenon DEF ApplyObjective
  <2> HIDE DEF done, first, new, restarted
  <2>1. Aside(o, kept) /\ kept.players = o.players
    BY Zenon DEF Fresh, From, Aside, NewMeter
  <2>2. Aside(o, turned) /\ turned.players = o.players
    BY Zenon DEF Fresh, From, Aside, NewMeter
  <2> HIDE DEF kept, turned
  <2>3. QED
    BY <1>1, <2>0, <2>1, <2>2
<1>4. QED
  BY <1>2, <1>3

---------------------------------------------------------------------------
(* The step.  Arming goes with the clocks in the inductive invariant. *)
StepInv == ClockInv /\ RightlyArmed(meter.lc, meter.dungeon)

(* A call of apply finds the fight of the step before it.                  *)
LEMMA CalledFresh ==
  ASSUME StepInv
  PROVE  /\ Fresh(Called) /\ Called.lc = meter.lc /\ Fighters(Called) = Fighters(meter)
         /\ Down(Called) = Down(meter) /\ Called.players = meter.players
         /\ Called.dungeon = meter.dungeon
<1>1. /\ DOMAIN Called = DOMAIN NewMeter /\ Called.reason = "none"
      /\ Called.saved = Nothing /\ Called.lc = meter.lc /\ Called.dungeon = meter.dungeon
      /\ Called.players = meter.players
  BY Zenon DEF StepInv, ClockInv, Called, Ok, NewMeter
<1>2. Fighters(Called) = Fighters(meter) /\ Down(Called) = Down(meter)
  BY <1>1, Zenon DEF Fighters, Down, RowsIn
<1>3. Fresh(Called)
  BY <1>1 DEF StepInv, ClockInv, Ok, OkTimes, WellFormed, Fresh, From, Kept
<1>4. QED
  BY <1>1, <1>2, <1>3

(* Whatever happens, the fight goes on, its end stands, the fight its end   *)
(* left armed is resumed, or it is erased and handed back; but the user may *)
(* reset.                                                                   *)
LEMMA StepWent ==
  ASSUME StepInv, [Next]_vars
  PROVE  \/ Went(Called, meter', clock)
         \/ meter'.reason = "manual" /\ meter'.lc = Idle /\ meter'.saved = Nothing
         \/ UNCHANGED vars
<1>0. /\ Ok(Called, clock, now) /\ Clocks(clock, now) /\ Fresh(Called)
      /\ From(Called, Called)
  BY CalledOk, CalledFresh DEF StepInv, Fresh
<1>1. CASE Damage
  BY <1>0, <1>1, ApplyDamageWent DEF Damage, Becomes
<1>2. CASE EnemyHp
  BY <1>0, <1>2, ApplyEnemyHpWent DEF EnemyHp, Becomes
<1>3. CASE EnemyGone \/ EnemyState \/ PlayerState \/ Revive
  BY <1>0, <1>3, DeathsFrom, FromWent DEF EnemyGone, EnemyState, PlayerState, Revive, Becomes
<1>4. CASE PlayerInfo \/ TeamRoster \/ TeamMemberLeft
  BY <1>0, <1>4, RowsFrom, FromWent DEF PlayerInfo, TeamRoster, TeamMemberLeft, Becomes
<1>5. CASE Scene
  BY <1>0, <1>5, ApplySceneWent DEF Scene, Becomes
<1>6. CASE ServerChanged
  BY <1>0, <1>6, ApplyServerChangedFrom, FromWent DEF ServerChanged, Becomes
<1>7. CASE DungeonState
  BY <1>0, <1>7, ApplyDungeonStateWent DEF DungeonState, Becomes
<1>8. CASE DungeonVar
  BY <1>0, <1>8, CompletionFrom, FromWent DEF DungeonVar, Becomes
<1>9. CASE DungeonObjective \/ DungeonObjectiveRemoved
  BY <1>0, <1>9, ApplyObjectiveWent DEF DungeonObjective, DungeonObjectiveRemoved, Becomes
<1>10. CASE Tick
  BY <1>0, <1>10, PinFrom, FromWent DEF Tick, Becomes
<1>11. CASE ManualReset
  <2> DEFINE z == Reset(Called, now, "manual")
  <2>1. z.reason = "manual" /\ z.lc = Idle /\ DOMAIN z = DOMAIN NewMeter
    BY <1>0, ResetHandsBack DEF From
  <2> HIDE DEF z
  <2>2. /\ [z EXCEPT !.saved = Nothing].reason = "manual"
        /\ [z EXCEPT !.saved = Nothing].lc = Idle
        /\ [z EXCEPT !.saved = Nothing].saved = Nothing
    BY <2>1, Zenon DEF NewMeter
  <2>3. QED
    BY <1>11, <2>2 DEF ManualReset, Becomes, z
<1>12. CASE Pass \/ Hear
  BY <1>0, <1>12, FromWent DEF Pass, Hear
<1>13. CASE UNCHANGED vars
  BY <1>13
<1>14. QED
  BY <1>1, <1>2, <1>3, <1>4, <1>5, <1>6, <1>7, <1>8, <1>9, <1>10, <1>11, <1>12, <1>13 DEF Next

(* The strengthened invariant is inductive.                                *)
LEMMA StepInvKept == StepInv /\ [Next]_vars => StepInv'
<1> SUFFICES ASSUME StepInv, [Next]_vars PROVE StepInv'
  OBVIOUS
<1>1. ClockInv'
  BY ClockStep DEF StepInv
<1>2. RightlyArmed(meter'.lc, meter'.dungeon)
  BY StepWent DEF Went, StepInv, RightlyArmed, Idle, vars
<1>3. QED
  BY <1>1, <1>2 DEF StepInv

(* It holds in every reachable state.                                      *)
LEMMA StepInvAlways == Spec => []StepInv
<1>1. Init => StepInv
  BY ClockInit DEF Init, StepInv, RightlyArmed, NewMeter, Idle
<1>2. QED
  BY <1>1, StepInvKept, PTL DEF Spec

(* No kill stays armed in a run the dungeon has reported over, in          *)
(* whichever order the kill and the report come (encounter.rs,             *)
(* end_fight_on_boss_death, end_fight_on_held_finish and                   *)
(* apply_dungeon_state).                                                   *)
THEOREM RunsOverAreNotResumed == Spec => []TerminalRunIsNotResumed
<1>1. StepInv => TerminalRunIsNotResumed
  BY DEF StepInv, TerminalRunIsNotResumed, RightlyArmed, Terminal
<1>2. QED
  BY <1>1, StepInvAlways, PTL

(* An end that was latched keeps its time and its cause until its fight is *)
(* erased, unless a phase of the boss that armed it goes on, and then the  *)
(* fight keeps its start (encounter.rs, latch_fight_end and                *)
(* resume_held_fight).                                                     *)
THEOREM EndsAreFinal == Spec => EndIsFinal
<1> DEFINE A == IsEnded(meter) /\ meter'.reason = "none" =>
        /\ meter'.lc.start = meter.lc.start
        /\ \/ IsEnded(meter') /\ \A f \in {"end", "observed", "cause"} :
                                    meter'.lc[f] = meter.lc[f]
           \/ HasPhaseGroup(meter.lc.armed)
<1>1. StepInv /\ [Next]_vars => A
  BY StepWent, CalledFresh DEF Went, Kept, Resumed, IsEnded, vars
<1>2. StepInv /\ [Next]_vars => [A]_vars
  BY <1>1
<1> HIDE DEF A
<1>3. Spec => [][A]_vars
  BY <1>2, StepInvAlways, PTL DEF Spec
<1>4. QED
  BY <1>3 DEF EndIsFinal, A

(* Whatever erases a fight: the user, the dungeon, a re-pull with nobody   *)
(* down, or an event that hands the ended fight back for the history       *)
(* (encounter.rs, reset and apply_preserving).                             *)
THEOREM FightsAreErasedSafely == Spec => FightsEraseSafely
<1> DEFINE A == meter'.reason # "none" /\ meter.lc.st # "idle" =>
        \/ meter'.reason = "manual"
        \/ IsActive(meter) /\ meter'.reason = "dungeon_started"
        \/ IsActive(meter) /\ meter'.reason = "boss_hp_rollback" /\ Down(meter) = {}
        \/ meter'.saved.lc.st = "ended" /\ meter'.saved.lc.start = meter.lc.start
<1>1. StepInv /\ [Next]_vars => [A]_vars
  <2> SUFFICES ASSUME StepInv, [Next]_vars, ~ UNCHANGED vars, meter'.reason # "manual",
                      meter'.reason # "none", meter.lc.st # "idle"
               PROVE  A
    BY DEF A
  <2>1. Erased(Called, meter', clock)
    BY StepWent DEF Went
  <2>2. QED
    BY <2>1, CalledFresh DEF Erased, Kept, IsActive
<1> HIDE DEF A
<1>2. Spec => [][A]_vars
  BY <1>1, StepInvAlways, PTL DEF Spec
<1>3. QED
  BY <1>2 DEF FightsEraseSafely, A

(* A hit that kills nobody ends no fight: one that may run, runs. *)
LEMMA HitLandsRunning ==
  ASSUME NEW m, NEW c, NEW n, Clocks(c, n), Ok(m, c, n), m.lc.st # "ended",
         NEW p \in Players, NEW e
  PROVE  IsActive(Land(m, Hit(p, e), c))
<1> DEFINE d == Hit(p, e)
           acting == IF d.by \in Players THEN StandUp(m, d.by) ELSE m
           fell == IF d.dead /\ d.to \in Players
                   THEN LatchWipeIfPartyDown(RecordDeath(acting, d.to), c) ELSE acting
           struck == IF d.to \in Entities /\ ~ d.heal THEN Strike(fell, d, c) ELSE fell
<1>1. d.by = p /\ d.to = e /\ ~ d.heal /\ ~ d.dead /\ PlayerHit(d)
  BY DEF Hit, PlayerHit
<1> HIDE DEF d
<1>2. Land(m, d, c) = Credit(struck, d, c)
  BY <1>1, Zenon DEF Land
<1>3. Same(m, acting)
  BY RowsSame, Zenon DEF Ok
<1>4. fell = acting
  BY <1>1
<1> HIDE DEF acting
<1>5. Same(m, struck)
  <2>1. Same(acting, Strike(acting, d, c))
    <3> DEFINE old == IF d.to \in Known(acting) THEN acting.enemies[d.to] ELSE Unknown
               enemy == [old EXCEPT !.damaged = TRUE, !.last = IF c > @ THEN c ELSE @]
               hit == PutEnemy(acting, d.to, enemy)
    <3>1. Strike(acting, d, c) = Recompute(hit)
      BY <1>1, Zenon DEF Strike
    <3> HIDE DEF enemy
    <3>2. Same(acting, hit)
      <4>1. DOMAIN acting = DOMAIN NewMeter
        BY <1>3 DEF Same, Ok
      <4>2. QED
        BY <4>1, RowsSame
    <3> HIDE DEF hit
    <3>3. Same(hit, Recompute(hit))
      BY <1>3, <3>2, RowsSame DEF Same, Ok
    <3>4. QED
      BY <3>1, <3>2, <3>3 DEF Same
  <2>2. QED
    BY <1>3, <1>4, <2>1 DEF Same
<1> HIDE DEF struck
<1>6. Credit(struck, d, c).lc = Start(m.lc, c)
  <2> DEFINE stamped == [struck EXCEPT !.last_event = IF c > @ THEN c ELSE @, !.lc = Start(@, c)]
  <2>1. Credit(struck, d, c) = Accumulate(stamped, d.by)
    BY <1>1, Zenon DEF Credit
  <2>2. DOMAIN stamped = DOMAIN NewMeter /\ stamped.lc = Start(m.lc, c)
    BY <1>5, Zenon DEF Same, Ok, NewMeter
  <2> HIDE DEF stamped
  <2>3. Same(stamped, Accumulate(stamped, d.by))
    BY <2>2, RowsSame
  <2>4. QED
    BY <2>1, <2>2, <2>3 DEF Same
<1>7. Start(m.lc, c).st = "active"
  BY DEF Start, Running, Ok, OkTimes, WellFormed
<1>8. QED
  BY <1>2, <1>6, <1>7 DEF d, IsActive

(* Pinning an ended fight changes nothing a hit looks at. *)
LEMMA PinnedEnd ==
  ASSUME NEW m, NEW c, NEW n, Clocks(c, n), Ok(m, c, n), IsEnded(m)
  PROVE  /\ Ok(Pin(m, c), c, n) /\ Pin(m, c).lc = m.lc /\ Pin(m, c).enemies = m.enemies
<1>1. \A end : /\ Latch(m, "idle_timeout", end, c).lc = m.lc
               /\ Latch(m, "idle_timeout", end, c).enemies = m.enemies
  BY Zenon DEF Latch, End, IsEnded, Ok, NewMeter
<1>2. Pin(m, c).lc = m.lc /\ Pin(m, c).enemies = m.enemies
  BY <1>1, Zenon DEF Pin
<1>3. Ok(Pin(m, c), c, n)
  BY PinOk DEF Clocks
<1>4. QED
  BY <1>2, <1>3

(* A hit on a fight no window holds any more either resumes it or starts the *)
(* next one.                                                                *)
LEMMA HitCounts ==
  ASSUME NEW m, NEW c, NEW n, Clocks(c, n), Ok(m, c, n), IsEnded(m),
         NEW p \in Players, NEW e,
         Since(c, m.lc.end) > PostEndGrace,
         \/ MonAt(m, e) \in Boss \ {m.lc.armed}
         \/ /\ Since(c, m.lc.end) >= WipeHoldRelease
            /\ Since(c, m.lc.observed) > PhaseResumeWindow
  PROVE  IsActive(ApplyDamage(m, Hit(p, e), c))
<1> DEFINE d == Hit(p, e)
           pinned == Pin(m, c)
           resumes == ResumesHeldFight(pinned, d, c)
           held == IF resumes THEN [pinned EXCEPT !.lc = Resume(@)] ELSE pinned
           fresh == /\ IsEnded(held) /\ PlayerHit(d)
                    /\ ~ WithholdsNewFight(held, d, c)
                    /\ ~ WithholdsAfterWipe(held, d, c)
                    /\ ~ InPostEndGrace(held, d, c)
           open == IF fresh THEN Reset(held, c, "new_fight") ELSE held
<1>1. Ok(pinned, c, n) /\ pinned.lc = m.lc /\ pinned.enemies = m.enemies
  BY PinnedEnd
<1>2. PlayerHit(d) /\ d.to = e
  BY DEF Hit, PlayerHit
<1>3. ApplyDamage(m, d, c) =
        IF ~ IsEnded(open) THEN Land(open, d, c)
        ELSE IF InPostEndGrace(open, d, c) /\ PlayerHit(d) THEN Accumulate(open, d.by) ELSE open
  BY Zenon DEF ApplyDamage
<1> HIDE DEF pinned, resumes
<1>4. Ok(open, c, n) /\ open.lc.st # "ended"
  <2>1. CASE resumes
    <3>1. Ok(held, c, n) /\ held.lc = Resume(m.lc)
      <4>1. Ok([pinned EXCEPT !.lc = Resume(@)], c, n)
        BY <1>1, HoldReleasedOk
      <4>2. [pinned EXCEPT !.lc = Resume(@)].lc = Resume(m.lc)
        BY <1>1, Zenon DEF Ok, NewMeter
      <4>3. QED
        BY <2>1, <4>1, <4>2
    <3>2. held.lc.st = "active"
      BY <3>1 DEF Resume, Running, IsEnded
    <3>3. open = held
      BY <3>2 DEF IsEnded
    <3>4. QED
      BY <3>1, <3>2, <3>3
  <2>2. CASE ~ resumes
    <3>1. held = pinned
      BY <2>2
    <3>2. MonAt(pinned, e) = MonAt(m, e)
      BY <1>1, Zenon DEF MonAt, Known
    <3>3. ~ InPostEndGrace(pinned, d, c)
      BY <1>1, WindowsAssumption DEF InPostEndGrace, Since, Ok, OkTimes, Clocks
    <3>4. ~ WithholdsAfterWipe(pinned, d, c)
      <4>1. pinned.lc = m.lc /\ TargetMon(pinned, d) = MonAt(m, e)
        BY <1>1, <1>2, <3>2 DEF TargetMon
      <4>2. WipeHoldReleased(pinned, c) \/ TargetMon(pinned, d) \in Boss
        BY <4>1 DEF WipeHoldReleased, IsEnded
      <4>3. QED
        BY <4>2 DEF WithholdsAfterWipe
    <3>5. ~ WithholdsNewFight(pinned, d, c)
      <4>1. CASE MonAt(m, e) \in Boss \ {m.lc.armed}
        BY <1>1, <1>2, <3>2, <4>1 DEF WithholdsNewFight, TargetMon
      <4>2. CASE Since(c, m.lc.observed) > PhaseResumeWindow
        <5>1. ~ (Since(c, pinned.lc.observed) <= PhaseResumeWindow)
          BY <1>1, <4>2, WindowsAssumption DEF Since, Ok, OkTimes, Clocks
        <5>2. ArmedPhaseHold(pinned, d, c) = NONE
          BY <5>1 DEF ArmedPhaseHold
        <5>3. QED
          BY <5>2 DEF WithholdsNewFight
      <4>3. QED
        BY <4>1, <4>2
    <3>6. open = Reset(pinned, c, "new_fight")
      BY <1>1, <1>2, <3>1, <3>3, <3>4, <3>5 DEF IsEnded
    <3>7. Ok(open, c, n)
      BY <1>1, <3>6, ResetOk
    <3>8. open.lc = Idle
      <4>1. Reset(pinned, c, "new_fight").lc = Idle
        BY <1>1, Zenon DEF Reset, Recompute, Ok, NewMeter
      <4>2. QED
        BY <3>6, <4>1
    <3>9. QED
      BY <3>7, <3>8 DEF Idle
  <2>3. QED
    BY <2>1, <2>2
<1> HIDE DEF open
<1>5. IsActive(Land(open, d, c))
  BY <1>4, HitLandsRunning
<1>6. QED
  BY <1>3, <1>4, <1>5 DEF IsEnded

(* Once the grace period is over no window swallows a hit on a recognized  *)
(* boss other than the armed one (encounter.rs, apply_damage with the      *)
(* phase-resume hold and the wipe hold).                                   *)
THEOREM PullsAreCounted == Spec => []PullIsCounted
<1>1. StepInv => PullIsCounted
  <2> SUFFICES ASSUME StepInv, IsEnded(meter), Since(clock, meter.lc.end) > PostEndGrace,
                      NEW e \in Known(meter), MonAt(meter, e) \in Boss \ {meter.lc.armed},
                      NEW p \in Players
               PROVE  IsActive(ApplyDamage(meter, Hit(p, e), clock))
    BY DEF PullIsCounted, CountsFrom
  <2>1. QED
    BY HitCounts DEF StepInv, ClockInv
<1>2. QED
  BY <1>1, StepInvAlways, PTL

(* Once every window has passed, any player's hit on any enemy is part of  *)
(* a running fight (encounter.rs, apply_damage).                           *)
THEOREM HoldsRunOut == Spec => []NoHoldIsForever
<1>1. StepInv => NoHoldIsForever
  <2> SUFFICES ASSUME StepInv, IsEnded(meter), AllWindowsPast(clock),
                      NEW e \in Entities, NEW p \in Players
               PROVE  IsActive(ApplyDamage(meter, Hit(p, e), clock))
    BY DEF NoHoldIsForever, CountsFrom
  <2>1. QED
    BY HitCounts DEF StepInv, ClockInv, AllWindowsPast
<1>2. QED
  BY <1>1, StepInvAlways, PTL

---------------------------------------------------------------------------
(* The meter implements Fights.  First what each way a call may go means    *)
(* there, for the fight a it finds and the fight b it leaves.               *)

(* A call that neither erases nor resumes goes on with the fight or ends it. *)
LEMMA KeptIsOfFights ==
  ASSUME NEW a, NEW b, Kept(a, b), a.st \in {"active", "ended"},
         b.st \in {"idle", "active", "ended"}, b.st = "ended" => EndedBy(b, clock)
  PROVE  \/ Contract!Runs(AsFight(a), AsFight(b)) \/ Contract!Ended(AsFight(a), AsFight(b))
         \/ Contract!Stands(AsFight(a), AsFight(b))
<1> DEFINE f == AsFight(a)
           g == AsFight(b)
<1>1. /\ f.st = a.st /\ f.start = a.start /\ f.end = a.end /\ f.cause = a.cause
      /\ f.open = HasPhaseGroup(a.armed)
      /\ g.st = b.st /\ g.start = b.start /\ g.end = b.end /\ g.cause = b.cause
      /\ g.open = HasPhaseGroup(b.armed)
  BY DEF AsFight
<1> HIDE DEF f, g
<1>2. CASE a.st = "active" /\ b.st = "active"
  <2>1. Contract!Runs(f, g)
    BY <1>1, <1>2 DEF Contract!Runs, Kept
  <2>2. QED
    BY <2>1 DEF f, g
<1>3. CASE a.st = "active" /\ b.st = "ended"
  <2>1. Contract!Ended(f, g)
    BY <1>1, <1>3 DEF Contract!Ended, Kept, EndedBy, Decoded
  <2>2. QED
    BY <2>1 DEF f, g
<1>4. CASE a.st = "ended" /\ b.st = "ended"
  <2>1. g.open => f.open
    <3>1. b.armed \in {a.armed, NONE}
      BY <1>4 DEF Kept
    <3>2. QED
      BY <1>1, <3>1, NoneHasNoGroup
  <2>2. Contract!Stands(f, g)
    BY <1>1, <1>4, <2>1 DEF Contract!Stands, Kept
  <2>3. QED
    BY <2>2 DEF f, g
<1>5. QED
  BY <1>2, <1>3, <1>4 DEF Kept

(* The end of a fight the clocks are in order of.                          *)
LEMMA EndInOrder ==
  ASSUME NEW m, NEW c, NEW n, Ok(m, c, n), IsEnded(m) PROVE EndedBy(m.lc, c)
BY DEF EndedBy, Ok, OkTimes, WellFormed, IsEnded

(* Time passes without a call, which erases nothing; no call takes time.   *)
LEMMA TimeIsLater ==
  ASSUME ClockInv, Next
  PROVE  \/ clock' \in Int /\ clock' >= clock /\ meter' = Called
         \/ clock' = clock
<1>1. clock \in Nat /\ now \in Nat /\ clock <= now
  BY DEF ClockInv, Clocks
<1>2. CASE Pass
  BY <1>1, <1>2, WindowsAssumption DEF Pass
<1>3. CASE Hear
  BY <1>1, <1>3 DEF Hear
<1>4. CASE ~ Pass /\ ~ Hear
  BY <1>4 DEF Next, Damage, EnemyHp, EnemyGone, EnemyState, PlayerState, Revive, PlayerInfo,
     TeamRoster, TeamMemberLeft, Scene, ServerChanged, DungeonState, DungeonVar,
     DungeonObjective, DungeonObjectiveRemoved, Tick, ManualReset, Becomes
<1>5. QED
  BY <1>2, <1>3, <1>4

(* One step of the meter is a step of Fights, or a stutter.                *)
LEMMA StepIsOfFights ==
  ASSUME StepInv, StepInv', [Next]_vars
  PROVE  [Contract!Next]_(Contract!vars)
<1> DEFINE f == AsFight(meter.lc)
           g == AsFight(meter'.lc)
           h == AsFight(meter'.saved.lc)
<1>1. /\ f.st = meter.lc.st /\ f.start = meter.lc.start /\ f.end = meter.lc.end
      /\ f.cause = meter.lc.cause /\ f.open = HasPhaseGroup(meter.lc.armed)
      /\ g.st = meter'.lc.st /\ g.start = meter'.lc.start /\ g.end = meter'.lc.end
      /\ g.cause = meter'.lc.cause /\ g.open = HasPhaseGroup(meter'.lc.armed)
      /\ h.st = meter'.saved.lc.st /\ h.start = meter'.saved.lc.start
      /\ h.end = meter'.saved.lc.end /\ h.cause = meter'.saved.lc.cause
      /\ h.open = HasPhaseGroup(meter'.saved.lc.armed)
  BY DEF AsFight
<1>2. /\ Called.lc = meter.lc /\ Called.reason = "none" /\ Called.saved = Nothing
      /\ meter.lc.st \in {"idle", "active", "ended"}
      /\ meter'.lc.st \in {"idle", "active", "ended"}
      /\ IsEnded(meter) => EndedBy(meter.lc, clock)
      /\ IsEnded(meter') => EndedBy(meter'.lc, clock')
  BY CalledFresh, EndInOrder DEF Fresh, StepInv, ClockInv, Ok, OkTimes, WellFormed
<1>3. Nothing.lc.st = "idle"
  BY DEF Nothing, Idle
<1>4. CASE UNCHANGED vars
  BY <1>4 DEF Contract!vars, vars
<1>5. CASE clock' \in Int /\ clock' >= clock /\ meter' = Called
  <2>1. Contract!Later
    BY <1>2, <1>3, <1>5 DEF Contract!Later, Contract!None, AsFight
  <2>2. QED
    BY <2>1 DEF Contract!Next
<1>6. CASE clock' = clock /\ meter'.reason = "manual" /\ meter'.lc = Idle /\ meter'.saved = Nothing
  <2>1. Contract!Clear
    BY <1>3, <1>6 DEF Contract!Clear, Contract!None, AsFight, Idle
  <2>2. QED
    BY <1>6, <2>1 DEF Contract!Next
<1>7. CASE clock' = clock /\ Went(Called, meter', clock) /\ meter'.reason = "none"
  <2>1. h.st = "idle"
    BY <1>1, <1>3, <1>7 DEF Went
  <2>2. \/ Kept(meter.lc, meter'.lc) \/ Resumed(Called, meter', clock)
        \/ meter.lc.st = "idle" /\ Begins(meter', clock)
    BY <1>2, <1>7 DEF Went
  <2> HIDE DEF f, g, h
  <2>3. CASE Kept(meter.lc, meter'.lc) /\ meter.lc.st = "idle"
    <3>1. Contract!Nothing
      BY <1>1, <2>1, <2>3 DEF Contract!Nothing, Contract!None, Kept, f, g, h
    <3>2. QED
      BY <1>7, <3>1 DEF Contract!Next
  <2>4. CASE Kept(meter.lc, meter'.lc) /\ meter.lc.st # "idle"
    <3>1. /\ meter.lc.st \in {"active", "ended"}
          /\ meter'.lc.st \in {"idle", "active", "ended"}
          /\ meter'.lc.st = "ended" => EndedBy(meter'.lc, clock)
      BY <1>2, <1>7, <2>4 DEF IsEnded
    <3>2. Contract!Runs(f, g) \/ Contract!Ended(f, g) \/ Contract!Stands(f, g)
      BY <2>4, <3>1, KeptIsOfFights DEF f, g
    <3>3. Contract!Go
      BY <1>7, <2>1, <3>2 DEF Contract!Go, Contract!None, f, g, h
    <3>4. QED
      BY <1>7, <3>3 DEF Contract!Next
  <2>5. CASE Resumed(Called, meter', clock)
    <3>1. Contract!GoesOn(f, g)
      BY <1>1, <1>2, <2>5 DEF Contract!GoesOn, Contract!None, Resumed, OpenAt, IsEnded
    <3>2. Contract!Go
      BY <1>7, <2>1, <3>1 DEF Contract!Go, Contract!None, f, g, h
    <3>3. QED
      BY <1>7, <3>2 DEF Contract!Next
  <2>6. CASE meter.lc.st = "idle" /\ Begins(meter', clock)
    <3>1. Contract!Begun(g) /\ Contract!None(f)
      BY <1>1, <2>6 DEF Contract!Begun, Contract!None, Begins, OpenAt
    <3>2. Contract!Begin
      BY <1>7, <2>1, <3>1 DEF Contract!Begin, Contract!None, f, g, h
    <3>3. QED
      BY <1>7, <3>2 DEF Contract!Next
  <2>7. QED
    BY <2>2, <2>3, <2>4, <2>5, <2>6
<1>8. CASE clock' = clock /\ Went(Called, meter', clock) /\ meter'.reason # "none"
  <2>1. Erased(Called, meter', clock) /\ meter'.reason \notin {"none", "manual"}
    BY <1>8 DEF Went
  <2> HIDE DEF f, g, h
  <2>2. CASE meter.lc.st = "idle" /\ meter'.saved = Nothing /\ meter'.lc.st = "idle"
    <3>1. Contract!Nothing
      BY <1>1, <1>3, <2>2 DEF Contract!Nothing, Contract!None, f, g, h
    <3>2. QED
      BY <1>8, <3>1 DEF Contract!Next
  <2>3. CASE /\ IsActive(Called) /\ meter'.saved = Nothing /\ meter'.lc.st = "idle"
             /\ meter'.reason \in {"dungeon_started", "boss_hp_rollback"}
    <3>1. Contract!Discard
      BY <1>1, <1>2, <1>3, <2>3 DEF Contract!Discard, Contract!None, IsActive, f, g, h
    <3>2. QED
      BY <1>8, <3>1 DEF Contract!Next
  <2>4. CASE /\ meter.lc.st # "idle" /\ meter'.saved.lc.st = "ended"
             /\ Kept(meter.lc, meter'.saved.lc)
             /\ IsActive(meter) => EndedBy(meter'.saved.lc, clock)
             /\ meter'.lc.st = "idle" \/ Begins(meter', clock)
    <3>1. EndedBy(meter'.saved.lc, clock)
      BY <1>2, <2>4 DEF EndedBy, Decoded, Kept, IsEnded, IsActive
    <3>2. Contract!Ended(f, h) \/ Contract!Stands(f, h)
      <4>1. meter.lc.st \in {"active", "ended"} /\ meter'.saved.lc.st = "ended"
        BY <1>2, <2>4
      <4>2. Contract!Runs(f, h) \/ Contract!Ended(f, h) \/ Contract!Stands(f, h)
        BY <2>4, <3>1, <4>1, KeptIsOfFights DEF f, h
      <4>3. QED
        BY <1>1, <4>1, <4>2 DEF Contract!Runs
    <3>3. /\ Contract!None(g) \/ Contract!Begun(g)
          /\ Contract!None(g) \/ h.end <= g.start \/ h.cause = "server_changed"
      BY <1>1, <2>4, <3>1
         DEF Contract!None, Contract!Begun, Begins, OpenAt, EndedBy, Decoded
    <3>4. Contract!HandBack
      BY <2>1, <3>2, <3>3 DEF Contract!HandBack, Contract!None, f, g, h
    <3>5. QED
      BY <1>8, <3>4 DEF Contract!Next
  <2>5. QED
    BY <1>2, <2>1, <2>2, <2>3, <2>4 DEF Erased, IsActive
<1>9. QED
  <2>1. CASE UNCHANGED vars
    BY <1>4, <2>1
  <2>2. CASE Next /\ ~ UNCHANGED vars
    BY <1>5, <1>6, <1>7, <1>8, <2>2, TimeIsLater, StepWent DEF StepInv
  <2>3. QED
    BY <2>1, <2>2

(* To the pipeline the meter is a sequence of fights: each begins with a   *)
(* packet's own time, ends in time order, is joined to no other by a       *)
(* resumption, does not open again once over for good, and leaves the      *)
(* board handed back and not overlapping the next (encounter.rs,           *)
(* apply_preserving with every handler, and fight.rs).                     *)
THEOREM MeterIsASequenceOfFights == Spec => ImplementsFights
<1>1. Init => Contract!Init
  BY DEF Init, NewMeter, Nothing, Idle, Contract!Init, Contract!None, AsFight
<1>2. StepInv /\ StepInv' /\ [Next]_vars => [Contract!Next]_(Contract!vars)
  BY StepIsOfFights
<1> HIDE DEF StepInv, Next, Init, vars
<1>3. Spec => Contract!Init /\ [][Contract!Next]_(Contract!vars)
  BY <1>1, <1>2, StepInvAlways, PTL DEF Spec
<1>4. QED
  BY <1>3 DEF ImplementsFights, Contract!Spec

=============================================================================
