----------------------- MODULE EncounterBoard_proofs -----------------------
(***************************************************************************)
(* What is proved of the meter's board, whatever the roster, the enemies,  *)
(* the tables and the windows: no new row joins a fight that is over once  *)
(* its grace has passed, the boss on the board is the one the ranking      *)
(* chooses, and the meter keeps its types.                                 *)
(*                                                                         *)
(* The first part follows the rows: Crew(F, U, m) says that m still has a  *)
(* row for each of F and that nobody beside U is up in it, and each        *)
(* function of the meter is shown to keep it; and who joins a fight that   *)
(* is over stood by it, or comes within its grace (Trails).  Then comes    *)
(* the ranking: rank_boss compares keys of five numbers, so that of a      *)
(* finite set of enemies one is top, and two meters that agree on the      *)
(* enemies agree on the boss.  The third part carries Whole, the types and *)
(* the ranking together, through every handler: a function either leaves   *)
(* the enemies and the boss alone (ApartWhole), or ranks anew              *)
(* (RecomputeWhole), or, as an HP packet may, changes what the ranking     *)
(* does not look at (BestSame).                                            *)
(***************************************************************************)
EXTENDS Encounter_proofs, Orbits, SequenceTheorems

(* Those whose row is up.                                                  *)
Upright(m) == RowsIn(m, {"up"})

(* m has a row for everyone, the fight of all of F, and nobody beside U is *)
(* up.                                                                     *)
Crew(F, U, m) ==
  /\ DOMAIN m = DOMAIN NewMeter /\ m.players \in [Players -> Rows]
  /\ F \subseteq Fighters(m) /\ Upright(m) \subseteq U

(* The rows are the same.                                                  *)
SameCrew(m, r) == DOMAIN r = DOMAIN m /\ r.players = m.players

(* A function that leaves the rows alone leaves them as they were. *)
LEMMA SameCrewKeeps ==
  ASSUME NEW F, NEW U, NEW m, Crew(F, U, m), NEW r, SameCrew(m, r)
  PROVE  Crew(F, U, r)
<1>1. Fighters(r) = Fighters(m) /\ Upright(r) = Upright(m)
  BY Zenon DEF Fighters, Upright, RowsIn, SameCrew
<1>2. QED
  BY <1>1 DEF Crew, SameCrew

(* The functions on enemies, the dungeon and the fight leave them alone. *)
LEMMA FightsSameCrew ==
  ASSUME NEW o, DOMAIN o = DOMAIN NewMeter, NEW m, SameCrew(o, m), NEW e, NEW enemy, NEW l,
         NEW t, NEW x, NEW cause, NEW end, NEW observed
  PROVE  /\ SameCrew(o, Recompute(m)) /\ SameCrew(o, MarkDead(m, e))
         /\ SameCrew(o, PutEnemy(m, e, enemy)) /\ SameCrew(o, ClearEnemies(m))
         /\ SameCrew(o, ClearDungeon(m)) /\ SameCrew(o, Latch(m, cause, end, observed))
         /\ SameCrew(o, [m EXCEPT !.lc = l]) /\ SameCrew(o, [m EXCEPT !.boss = x])
         /\ SameCrew(o, [m EXCEPT !.finish = x]) /\ SameCrew(o, [m EXCEPT !.scene = x])
         /\ SameCrew(o, [m EXCEPT !.dungeon = x]) /\ SameCrew(o, [m EXCEPT !.enemies = x])
         /\ SameCrew(o, [m EXCEPT !.deaths = x])
<1>1. SameCrew(o, Recompute(m)) /\ SameCrew(o, MarkDead(m, e))
  BY Zenon DEF SameCrew, Recompute, MarkDead, NewMeter
<1>2. SameCrew(o, PutEnemy(m, e, enemy)) /\ SameCrew(o, ClearEnemies(m))
  BY Zenon DEF SameCrew, PutEnemy, ClearEnemies, NewMeter
<1>3. SameCrew(o, ClearDungeon(m)) /\ SameCrew(o, Latch(m, cause, end, observed))
  BY Zenon DEF SameCrew, ClearDungeon, Latch, NewMeter
<1>4. /\ SameCrew(o, [m EXCEPT !.lc = l]) /\ SameCrew(o, [m EXCEPT !.boss = x])
      /\ SameCrew(o, [m EXCEPT !.finish = x]) /\ SameCrew(o, [m EXCEPT !.scene = x])
      /\ SameCrew(o, [m EXCEPT !.dungeon = x]) /\ SameCrew(o, [m EXCEPT !.enemies = x])
      /\ SameCrew(o, [m EXCEPT !.deaths = x])
  BY Zenon DEF SameCrew, NewMeter
<1>5. QED
  BY <1>1, <1>2, <1>3, <1>4

(* And so keep the crew. *)
LEMMA FightsKeepCrew ==
  ASSUME NEW F, NEW U, NEW m, Crew(F, U, m), NEW e, NEW enemy, NEW l, NEW t, NEW x,
         NEW cause, NEW end, NEW observed
  PROVE  /\ Crew(F, U, Recompute(m)) /\ Crew(F, U, MarkDead(m, e))
         /\ Crew(F, U, PutEnemy(m, e, enemy)) /\ Crew(F, U, ClearEnemies(m))
         /\ Crew(F, U, ClearDungeon(m)) /\ Crew(F, U, Latch(m, cause, end, observed))
         /\ Crew(F, U, [m EXCEPT !.lc = l]) /\ Crew(F, U, [m EXCEPT !.boss = x])
         /\ Crew(F, U, [m EXCEPT !.finish = x]) /\ Crew(F, U, [m EXCEPT !.scene = x])
         /\ Crew(F, U, [m EXCEPT !.dungeon = x]) /\ Crew(F, U, [m EXCEPT !.enemies = x])
         /\ Crew(F, U, [m EXCEPT !.deaths = x])
<1>1. DOMAIN m = DOMAIN NewMeter /\ SameCrew(m, m)
  BY DEF Crew, SameCrew
<1>2. \A r : SameCrew(m, r) => Crew(F, U, r)
  BY SameCrewKeeps
<1>3. QED
  BY <1>1, <1>2, FightsSameCrew

(* One row changes: its fighter stays one, and is up only if U has them. *)
LEMMA RowSet ==
  ASSUME NEW F, NEW U, NEW m, Crew(F, U, m), NEW p, NEW row \in Rows,
         p \in Fighters(m) => row \in {"up", "down"}, row = "up" => p \in U
  PROVE  Crew(F, U, [m EXCEPT !.players[p] = row])
<1> DEFINE r == [m EXCEPT !.players[p] = row]
<1>1. DOMAIN r = DOMAIN NewMeter /\ r.players = [m.players EXCEPT ![p] = row]
  BY Zenon DEF Crew, NewMeter
<1> HIDE DEF r
<1>2. r.players \in [Players -> Rows]
  BY <1>1 DEF Crew
<1>3. Fighters(m) \subseteq Fighters(r)
  BY <1>1 DEF Crew, Fighters, RowsIn
<1>4. Upright(r) \subseteq U
  BY <1>1 DEF Crew, Upright, RowsIn
<1>5. QED
  BY <1>1, <1>2, <1>3, <1>4 DEF Crew, r

(* A row that stands up has to be one of U; the others only fall.          *)
LEMMA RowsKeepCrew ==
  ASSUME NEW F, NEW U, NEW m, Crew(F, U, m), NEW p \in Players
  PROVE  /\ Crew(F, U, RecordDeath(m, p))
         /\ p \in U \/ p \notin Down(m) => Crew(F, U, StandUp(m, p))
         /\ p \in U => Crew(F, U, Accumulate(m, p))
         /\ Crew(F, U, ApplyPlayer(m, p))
<1> DEFINE row == m.players[p]
<1>0. row \in Rows /\ (row = "up" => p \in U) /\ (row = "down" <=> p \in Down(m))
      /\ (p \in Fighters(m) <=> row \in {"up", "down"})
  BY DEF Crew, Upright, Fighters, Down, RowsIn
<1>1. Crew(F, U, RecordDeath(m, p))
  BY <1>0, RowSet DEF RecordDeath, Rows
<1>2. p \in U \/ p \notin Down(m) => Crew(F, U, StandUp(m, p))
  <2> DEFINE next == IF row = "down" THEN "up" ELSE row
  <2>1. StandUp(m, p) = [m EXCEPT !.players[p] = next]
    BY Zenon DEF StandUp, Crew, NewMeter
  <2> HIDE DEF row
  <2>2. /\ next \in Rows
        /\ p \in Fighters(m) => next \in {"up", "down"}
        /\ p \in U \/ p \notin Down(m) => (next = "up" => p \in U)
    BY <1>0 DEF Rows
  <2> HIDE DEF next
  <2>3. QED
    BY <2>1, <2>2, RowSet
<1>3. p \in U => Crew(F, U, Accumulate(m, p))
  <2> DEFINE next == IF row \in {"absent", "preloaded"} THEN "up" ELSE row
  <2>1. Accumulate(m, p) = [m EXCEPT !.players[p] = next]
    BY Zenon DEF Accumulate, Crew, NewMeter
  <2> HIDE DEF row
  <2>2. /\ next \in Rows
        /\ p \in Fighters(m) => next \in {"up", "down"}
    BY <1>0 DEF Rows
  <2> HIDE DEF next
  <2>3. QED
    BY <2>1, <2>2, RowSet
<1>4. Crew(F, U, ApplyPlayer(m, p))
  <2>1. row = "absent" => Crew(F, U, [m EXCEPT !.players[p] = "preloaded"])
    BY <1>0, RowSet DEF Rows
  <2>2. QED
    BY <2>1 DEF ApplyPlayer
<1>5. QED
  BY <1>1, <1>2, <1>3, <1>4

(* Those who only stand by leave with the scene. *)
LEMMA PruneKeepsCrew ==
  ASSUME NEW F, NEW U, NEW m, Crew(F, U, m) PROVE Crew(F, U, PruneStalePreloads(m))
<1> DEFINE r == PruneStalePreloads(m)
<1>1. /\ DOMAIN r = DOMAIN NewMeter
      /\ r.players = [p \in Players |-> IF m.players[p] = "preloaded" THEN "absent"
                                        ELSE m.players[p]]
  BY Zenon DEF Crew, PruneStalePreloads, NewMeter
<1> HIDE DEF r
<1>2. \A p \in Players : /\ r.players[p] \in Rows
                         /\ r.players[p] = "up" <=> m.players[p] = "up"
                         /\ r.players[p] \in {"up", "down"} <=> m.players[p] \in {"up", "down"}
  BY <1>1 DEF Crew, Rows
<1>3. Fighters(r) = Fighters(m) /\ Upright(r) = Upright(m)
  BY <1>2 DEF Fighters, Upright, RowsIn
<1>4. QED
  BY <1>1, <1>2, <1>3 DEF Crew, r

(* After a reset nobody has a row. *)
LEMMA ResetCrew ==
  ASSUME NEW F, NEW U, NEW m, Crew(F, U, m), NEW t, NEW reason, NEW V
  PROVE  Crew({}, V, Reset(m, t, reason))
<1> DEFINE r == Reset(m, t, reason)
<1>1. DOMAIN r = DOMAIN NewMeter /\ r.players = [p \in Players |-> "absent"]
  BY Zenon DEF Reset, Recompute, Crew, NewMeter
<1> HIDE DEF r
<1>2. QED
  BY <1>1 DEF Crew, Rows, Upright, RowsIn, r

(* Ending, pinning and holding a fight touch no row.                       *)
LEMMA EndsSameCrew ==
  ASSUME NEW o, DOMAIN o = DOMAIN NewMeter, NEW m, SameCrew(o, m), NEW e, NEW t
  PROVE  /\ SameCrew(o, EndFightOnBossDeath(m, e, t)) /\ SameCrew(o, EndFightOnHeldFinish(m, t))
         /\ SameCrew(o, CompletionSignal(m)) /\ SameCrew(o, Pin(m, t))
         /\ SameCrew(o, LatchWipeIfPartyDown(m, t))
         /\ SameCrew(o, [Latch(m, "wipe", t, t) EXCEPT !.lc = Hold(@)])
         /\ SameCrew(o, ReleaseHoldIfRecovered(m))
<1>1. \A cause, end, observed : SameCrew(o, Latch(m, cause, end, observed))
  BY FightsSameCrew
<1>2. \A r, l : SameCrew(o, r) => SameCrew(o, [r EXCEPT !.lc = l])
  BY FightsSameCrew
<1>3. \A x : SameCrew(o, [m EXCEPT !.finish = x])
  BY FightsSameCrew
<1>4. SameCrew(o, EndFightOnBossDeath(m, e, t))
  BY <1>1, <1>2, Zenon DEF EndFightOnBossDeath
<1>5. SameCrew(o, EndFightOnHeldFinish(m, t))
  BY <1>1, <1>2, Zenon DEF EndFightOnHeldFinish
<1>6. SameCrew(o, CompletionSignal(m)) /\ SameCrew(o, Pin(m, t))
  BY <1>1, <1>3, Zenon DEF CompletionSignal, Pin
<1>7. /\ SameCrew(o, LatchWipeIfPartyDown(m, t)) /\ SameCrew(o, ReleaseHoldIfRecovered(m))
      /\ SameCrew(o, [Latch(m, "wipe", t, t) EXCEPT !.lc = Hold(@)])
  BY <1>1, <1>2, Zenon DEF LatchWipeIfPartyDown, ReleaseHoldIfRecovered
<1>8. QED
  BY <1>4, <1>5, <1>6, <1>7

(* And so keep the crew. *)
LEMMA EndsKeepCrew ==
  ASSUME NEW F, NEW U, NEW m, Crew(F, U, m), NEW e, NEW t
  PROVE  /\ Crew(F, U, EndFightOnBossDeath(m, e, t)) /\ Crew(F, U, EndFightOnHeldFinish(m, t))
         /\ Crew(F, U, CompletionSignal(m)) /\ Crew(F, U, Pin(m, t))
         /\ Crew(F, U, LatchWipeIfPartyDown(m, t))
         /\ Crew(F, U, [Latch(m, "wipe", t, t) EXCEPT !.lc = Hold(@)])
         /\ Crew(F, U, ReleaseHoldIfRecovered(m))
<1>1. DOMAIN m = DOMAIN NewMeter /\ SameCrew(m, m)
  BY DEF Crew, SameCrew
<1>2. \A r : SameCrew(m, r) => Crew(F, U, r)
  BY SameCrewKeeps
<1>3. QED
  BY <1>1, <1>2, EndsSameCrew

(* Nor does the blow an enemy takes.                                       *)
LEMMA StrikeKeepsCrew ==
  ASSUME NEW F, NEW U, NEW m, Crew(F, U, m), NEW d, NEW t PROVE Crew(F, U, Strike(m, d, t))
<1> DEFINE e == d.to
           old == IF e \in Known(m) THEN m.enemies[e] ELSE Unknown
           hit == PutEnemy(m, e, [old EXCEPT !.damaged = TRUE,
                                             !.last = IF t > @ THEN t ELSE @])
           seen == Recompute(IF d.dead THEN MarkDead(hit, e) ELSE hit)
           ended == IF m.boss = e THEN EndFightOnBossDeath(seen, e, t) ELSE seen
<1>1. Crew(F, U, hit)
  <2>1. \A enemy : Crew(F, U, PutEnemy(m, e, enemy))
    BY FightsKeepCrew
  <2>2. QED
    BY <2>1
<1> HIDE DEF hit
<1>2. Crew(F, U, seen)
  BY <1>1, FightsKeepCrew
<1> HIDE DEF seen
<1>3. Crew(F, U, ended)
  BY <1>2, EndsKeepCrew
<1> HIDE DEF ended
<1>4. Crew(F, U, EndFightOnHeldFinish(ended, t))
  BY <1>3, EndsKeepCrew
<1>5. QED
  BY <1>2, <1>4, Zenon DEF Strike, hit, seen, ended

(* A hit takes nobody out of the fight. *)
LEMMA LandKeepsCrew ==
  ASSUME NEW F, NEW m, Crew(F, Players, m), NEW d, NEW t
  PROVE  Crew(F, Players, Land(m, d, t))
<1> DEFINE acting == IF d.by \in Players THEN StandUp(m, d.by) ELSE m
           fell == IF d.dead /\ d.to \in Players
                   THEN LatchWipeIfPartyDown(RecordDeath(acting, d.to), t) ELSE acting
           struck == IF d.to \in Entities /\ ~ d.heal THEN Strike(fell, d, t) ELSE fell
<1>1. Crew(F, Players, acting)
  BY RowsKeepCrew
<1> HIDE DEF acting
<1>2. Crew(F, Players, fell)
  <2>1. d.to \in Players => Crew(F, Players, RecordDeath(acting, d.to))
    BY <1>1, RowsKeepCrew
  <2>2. QED
    BY <1>1, <2>1, EndsKeepCrew
<1> HIDE DEF fell
<1>3. Crew(F, Players, struck)
  BY <1>2, StrikeKeepsCrew
<1> HIDE DEF struck
<1>4. PlayerHit(d) => Crew(F, Players, Credit(struck, d, t))
  <2> SUFFICES ASSUME d.by \in Players PROVE Crew(F, Players, Credit(struck, d, t))
    BY DEF PlayerHit
  <2> DEFINE stamped == [struck EXCEPT !.last_event = IF t > @ THEN t ELSE @, !.lc = Start(@, t)]
             live == Accumulate(stamped, d.by)
  <2>1. SameCrew(struck, stamped)
    BY <1>3, Zenon DEF Crew, SameCrew, NewMeter
  <2> HIDE DEF stamped
  <2>2. Crew(F, Players, live)
    BY <1>3, <2>1, SameCrewKeeps, RowsKeepCrew
  <2> HIDE DEF live
  <2>3. Crew(F, Players, EndFightOnBossDeath(live, d.to, t))
    BY <2>2, EndsKeepCrew
  <2>4. QED
    BY <2>2, <2>3, Zenon DEF Credit, live, stamped
<1>5. QED
  BY <1>3, <1>4, Zenon DEF Land, struck, fell, acting

---------------------------------------------------------------------------
(* The rows after a handler: those of the fight it found, or of a new one. *)
Manned(F, U, r) == Crew(F, U, r) \/ (r.reason # "none" /\ Crew({}, Players, r))

(* U has all who have fought, so that they may stand up again. *)
Staffed(F, U, o) == Crew(F, U, o) /\ Fighters(o) \subseteq U /\ U \subseteq Players

(* What holds of fewer holds of all.                                       *)
LEMMA CrewWeaker ==
  ASSUME NEW F, NEW U, NEW m, Crew(F, U, m), U \subseteq Players
  PROVE  Crew(F, Players, m) /\ Crew({}, Players, m)
BY DEF Crew

(* A hit on an ended fight resumes it, erases it, or comes in its grace; else *)
(* it changes no row.                                                       *)
LEMMA ApplyDamageCrew ==
  ASSUME NEW o, NEW c, NEW n, Clocks(c, n), Ok(o, c, n), Fresh(o), NEW d,
         NEW F, NEW U, Staffed(F, U, o)
  PROVE  \/ Manned(F, U, ApplyDamage(o, d, c))
         \/ /\ Crew(F, Players, ApplyDamage(o, d, c))
            /\ IsEnded(o) => \/ Since(c, o.lc.end) <= PostEndGrace
                             \/ OpenAt(ApplyDamage(o, d, c).lc, c)
<1> DEFINE pinned == Pin(o, c)
           resumes == ResumesHeldFight(pinned, d, c)
           held == IF resumes THEN [pinned EXCEPT !.lc = Resume(@)] ELSE pinned
           fresh == /\ IsEnded(held) /\ PlayerHit(d)
                    /\ ~ WithholdsNewFight(held, d, c)
                    /\ ~ WithholdsAfterWipe(held, d, c)
                    /\ ~ InPostEndGrace(held, d, c)
           open == IF fresh THEN Reset(held, c, "new_fight") ELSE held
           r == ApplyDamage(o, d, c)
<1> SUFFICES \/ Manned(F, U, r)
             \/ /\ Crew(F, Players, r)
                /\ IsEnded(o) => \/ Since(c, o.lc.end) <= PostEndGrace
                                 \/ OpenAt(r.lc, c)
  OBVIOUS
<1>1. /\ From(o, pinned) /\ Crew(F, U, pinned) /\ Crew(F, Players, pinned)
      /\ IsEnded(o) => pinned.lc = o.lc
      /\ Ok(pinned, c, n)
  <2>1. From(o, pinned) /\ Crew(F, U, pinned) /\ Crew(F, Players, pinned)
    BY PinFrom, EndsKeepCrew, CrewWeaker DEF Fresh, Staffed
  <2>2. IsEnded(o) => pinned.lc = o.lc
    BY PinnedEnd
  <2>3. Ok(pinned, c, n)
    BY PinOk DEF Clocks
  <2>4. QED
    BY <2>1, <2>2, <2>3
<1>2. resumes => IsEnded(pinned)
  BY Zenon DEF ResumesHeldFight, ArmedPhaseHold
<1>3. r = IF ~ IsEnded(open) THEN Land(open, d, c)
          ELSE IF InPostEndGrace(open, d, c) /\ PlayerHit(d) THEN Accumulate(open, d.by)
          ELSE open
  BY Zenon DEF ApplyDamage
<1> HIDE DEF pinned, resumes, r
<1>5. CASE resumes
  <2>1. Crew(F, Players, held)
    BY <1>1, <1>5, FightsKeepCrew
  <2>2. held.lc = Resume(pinned.lc) /\ Ok(held, c, n)
    <3>1. Ok(held, c, n)
      BY <1>1, <1>5, HoldReleasedOk
    <3>2. held.lc = Resume(pinned.lc)
      BY <1>1, <1>5, Zenon DEF From, NewMeter
    <3>3. QED
      BY <3>1, <3>2
  <2>3. ~ IsEnded(held)
    BY <1>2, <1>5, <2>2 DEF Resume, Running, IsEnded
  <2>4. r = Land(held, d, c)
    BY <1>3, <2>3
  <2> HIDE DEF held
  <2>5. Crew(F, Players, r)
    BY <2>1, <2>4, LandKeepsCrew
  <2>6. OpenAt(r.lc, c)
    BY <2>2, <2>3, <2>4, LandOk DEF Ready, OpenAt, IsEnded
  <2>7. QED
    BY <2>5, <2>6
<1>6. CASE ~ resumes /\ fresh
  <2>1. open = Reset(pinned, c, "new_fight")
    BY <1>6
  <2>2. IsEnded(pinned)
    BY <1>6
  <2> HIDE DEF open, held, fresh
  <2>3. From(open, open) /\ Crew({}, Players, open) /\ open.lc = Idle
    BY <1>1, <2>1, ResetCrew, ResetHandsBack
  <2>4. open.reason = "new_fight"
    BY <1>1, <2>1, ResetHandsBack
  <2>5. r = Land(open, d, c)
    BY <1>3, <2>3 DEF IsEnded, Idle
  <2>6. Crew({}, Players, r) /\ r.reason = "new_fight"
    <3>1. open.lc.st = "idle"
      BY <2>3 DEF Idle
    <3>2. QED
      BY <2>3, <2>4, <2>5, <3>1, LandFrom, LandKeepsCrew DEF Carries
  <2>7. QED
    BY <2>6 DEF Manned
<1>7. CASE ~ resumes /\ ~ fresh
  <2>1. open = pinned
    BY <1>7
  <2> HIDE DEF open, held, fresh
  <2>2. CASE ~ IsEnded(pinned)
    <3>1. ~ IsEnded(o)
      BY <1>1, <2>2 DEF IsEnded
    <3>2. r = Land(pinned, d, c)
      BY <1>3, <2>1, <2>2
    <3>3. QED
      BY <1>1, <3>1, <3>2, LandKeepsCrew
  <2>3. CASE IsEnded(pinned) /\ InPostEndGrace(pinned, d, c) /\ PlayerHit(d)
    <3>1. r = Accumulate(pinned, d.by)
      BY <1>3, <2>1, <2>3
    <3>2. Crew(F, Players, r)
      BY <1>1, <2>3, <3>1, RowsKeepCrew DEF PlayerHit
    <3>3. IsEnded(o) => Since(c, o.lc.end) <= PostEndGrace
      BY <1>1, <2>3 DEF InPostEndGrace
    <3>4. QED
      BY <3>2, <3>3
  <2>4. CASE IsEnded(pinned) /\ ~ (InPostEndGrace(pinned, d, c) /\ PlayerHit(d))
    <3>1. r = pinned
      BY <1>3, <2>1, <2>4
    <3>2. QED
      BY <1>1, <3>1 DEF Manned
  <2>5. QED
    BY <2>2, <2>3, <2>4
<1>8. QED
  BY <1>5, <1>6, <1>7

(* An HP packet moves no row, unless it erases the fight by a re-pull. *)
LEMMA ApplyEnemyHpCrew ==
  ASSUME NEW o, Fresh(o), NEW e, NEW id, NEW hp, NEW c, NEW F, NEW U, Staffed(F, U, o)
  PROVE  Manned(F, U, ApplyEnemyHp(o, e, id, hp, c))
<1> DEFINE seen == Recompute(Observe(o, e, id, hp))
           killed == IF EndOnBossDeath /\ o.boss = e /\ seen.enemies[e].hp = Dead
                     THEN EndFightOnBossDeath(seen, e, c) ELSE seen
           ended == IF EndOnBossDeath /\ hp = Dead
                    THEN EndFightOnHeldFinish(killed, c) ELSE killed
<1>1. From(o, Observe(o, e, id, hp)) /\ SameCrew(o, Observe(o, e, id, hp))
  BY ObserveFrom DEF Fresh, From, SameCrew
<1>2. Crew(F, U, seen) /\ From(o, seen)
  BY <1>1, SameCrewKeeps, FightsKeepCrew, RowsFrom DEF Staffed
<1> HIDE DEF seen
<1>3. Crew(F, U, killed) /\ From(o, killed)
  BY <1>2, EndsKeepCrew, BossDeathFrom
<1> HIDE DEF killed
<1>4. Crew(F, U, ended) /\ From(o, ended)
  BY <1>3, EndsKeepCrew, HeldFinishFrom
<1> HIDE DEF ended
<1>5. Manned(F, U, Rollback(ended, e, c))
  <2> DEFINE hurt == [Latch(ended, "wipe", c, c) EXCEPT !.lc = Hold(@)]
             wiped == IF Down(ended) = {} THEN ended ELSE hurt
             cool == ended.last_reset = NONE \/ Since(c, ended.last_reset) >= ResetCooldown
             reset == Reset(wiped, c, "boss_hp_rollback")
             left == [wiped EXCEPT !.enemies[e].dipped = FALSE]
  <2>1. Rollback(ended, e, c) = IF cool /\ EndedAt(wiped, c) = NONE THEN reset ELSE left
    BY Zenon DEF Rollback
  <2>2. Crew(F, U, wiped) /\ From(o, wiped)
    BY <1>4, EndsKeepCrew, WipeFrom
  <2> HIDE DEF wiped, cool
  <2>3. Crew({}, Players, reset) /\ reset.reason = "boss_hp_rollback"
    BY <2>2, ResetCrew, ResetHandsBack
  <2>4. Crew(F, U, left)
    BY <2>2, FightsKeepCrew
  <2> HIDE DEF reset, left
  <2>5. QED
    BY <2>1, <2>3, <2>4 DEF Manned
<1>6. QED
  BY <1>4, <1>5, Zenon DEF ApplyEnemyHp, ended, killed, seen, Manned

(* The other packets about one enemy move no row. *)
LEMMA EnemiesCrew ==
  ASSUME NEW F, NEW U, NEW m, Crew(F, U, m), NEW e, NEW t, NEW reason
  PROVE  Crew(F, U, ApplyEnemyGone(m, e, reason)) /\ Crew(F, U, EnemyDied(m, e, t))
<1> DEFINE seen == Recompute(MarkDead(m, e))
           ended == IF EndOnBossDeath /\ m.boss = e
                    THEN EndFightOnBossDeath(seen, e, t) ELSE seen
<1>1. Crew(F, U, seen)
  BY FightsKeepCrew
<1> HIDE DEF seen
<1>2. Crew(F, U, ended) /\ Crew(F, U, EndFightOnBossDeath(seen, e, m.last_event))
  BY <1>1, EndsKeepCrew
<1> HIDE DEF ended
<1>3. Crew(F, U, EndFightOnHeldFinish(ended, t))
  BY <1>2, EndsKeepCrew
<1>4. Crew(F, U, ApplyEnemyGone(m, e, reason))
  BY <1>2, Zenon DEF ApplyEnemyGone, seen
<1>5. Crew(F, U, EnemyDied(m, e, t))
  BY <1>2, <1>3, Zenon DEF EnemyDied, ended, seen
<1>6. QED
  BY <1>4, <1>5

(* Those about one player move theirs: a death makes a fighter of one who  *)
(* stood by, and only one who fell stands up.                              *)
LEMMA PlayersCrew ==
  ASSUME NEW m, NEW p \in Players, NEW t, NEW F, NEW U, Staffed(F, U, m)
  PROVE  /\ Crew(F, U, PlayerDied(m, p, t)) /\ Crew(F, U, PlayerRevived(m, p))
         /\ Crew(F, U, ApplyPlayer(m, p))
<1>0. Crew(F, U, m)
  BY DEF Staffed
<1>6. Crew(F, U, PlayerDied(m, p, t))
  <2>1. Crew(F, U, RecordDeath(m, p))
    BY <1>0, RowsKeepCrew
  <2>2. QED
    BY <1>0, <2>1, EndsKeepCrew, Zenon DEF PlayerDied
<1>7. Crew(F, U, PlayerRevived(m, p))
  <2>1. p \in U \/ p \notin Down(m)
    BY DEF Staffed, Down, Fighters, RowsIn
  <2>2. Crew(F, U, StandUp(m, p))
    BY <1>0, <2>1, RowsKeepCrew
  <2>3. QED
    BY <1>0, <2>2, EndsKeepCrew, Zenon DEF PlayerRevived
<1>8. Crew(F, U, ApplyPlayer(m, p))
  BY <1>0, RowsKeepCrew
<1>9. QED
  BY <1>6, <1>7, <1>8

(* The roster of a fight that ended is not touched by its party's. *)
LEMMA KeepCrew ==
  ASSUME NEW m, NEW members, NEW F, NEW U, Staffed(F, U, m)
  PROVE  /\ Crew({}, Players, Keep(m, members))
         /\ IsEnded(m) => Crew(F, U, Keep(m, members))
<1> DEFINE r == [m EXCEPT !.players =
                   [p \in Players |-> IF p \in members \cup {Local} THEN @[p] ELSE "absent"]]
<1>1. /\ DOMAIN r = DOMAIN NewMeter
      /\ r.players = [p \in Players |-> IF p \in members \cup {Local} THEN m.players[p]
                                        ELSE "absent"]
  BY Zenon DEF Staffed, Crew, NewMeter
<1>2. Crew(F, U, m) /\ Crew({}, Players, m)
  BY CrewWeaker DEF Staffed
<1>3. Keep(m, members) = IF ~ InDungeon(m) \/ IsEnded(m) THEN m ELSE r
  BY Zenon DEF Keep
<1> HIDE DEF r
<1>4. r.players \in [Players -> Rows]
  BY <1>1, <1>2 DEF Crew, Rows
<1>5. Crew({}, Players, r)
  BY <1>1, <1>4 DEF Crew, Upright, RowsIn
<1>6. QED
  BY <1>2, <1>3, <1>5

---------------------------------------------------------------------------
(* Leaving a scene prunes those who stand by, or resets. *)
LEMMA ApplySceneCrew ==
  ASSUME NEW o, Fresh(o), NEW s, NEW F, NEW U, Staffed(F, U, o)
  PROVE  Manned(F, U, ApplyScene(o, s))
<1> DEFINE pruned == PruneStalePreloads(o)
           ended == IF IsActive(o)
                    THEN Latch(pruned, "scene_changed", o.last_event, o.last_event) ELSE pruned
           left == [ended EXCEPT !.finish = FALSE]
           erases == ~ IsActive(o) /\ ~ o.lc.hold
           clean == IF erases THEN Reset(left, o.last_event, "scene_changed") ELSE left
           unbossed == [ClearEnemies(clean) EXCEPT !.boss = NONE]
           disarmed == [unbossed EXCEPT !.lc = Disarm(@)]
           entered == ClearDungeon([ClearEnemies(clean) EXCEPT !.boss = NONE, !.lc = Disarm(@)])
           released == [left EXCEPT !.lc = ReleaseHold(@)]
<1>0. Crew(F, U, o) /\ From(o, o)
  BY DEF Staffed, Fresh
<1>1. Crew(F, U, left) /\ From(o, left)
  <2>1. Crew(F, U, pruned) /\ From(o, pruned)
    BY <1>0, PruneKeepsCrew, RowsFrom
  <2> HIDE DEF pruned
  <2>2. Crew(F, U, ended) /\ From(o, ended)
    BY <2>1, FightsKeepCrew, LatchFrom
  <2> HIDE DEF ended
  <2>3. QED
    BY <2>2, FightsKeepCrew, RowsFrom
<1> HIDE DEF left
<1>2. /\ ~ erases => Crew(F, U, clean) /\ From(o, clean)
      /\ erases => Crew({}, Players, clean) /\ From(clean, clean)
      /\ erases => clean.reason = "scene_changed"
  BY <1>1, ResetCrew, ResetHandsBack
<1> HIDE DEF clean, erases
<1>3. ASSUME NEW G, NEW V, NEW b, Crew(G, V, clean), From(b, clean)
      PROVE  Crew(G, V, [entered EXCEPT !.scene = s]) /\ From(b, [entered EXCEPT !.scene = s])
  <2>1. Crew(G, V, unbossed) /\ From(b, unbossed)
    <3>1. Crew(G, V, ClearEnemies(clean)) /\ From(b, ClearEnemies(clean))
      BY <1>3, FightsKeepCrew, RowsFrom
    <3>2. QED
      BY <3>1, FightsKeepCrew, RowsFrom
  <2> HIDE DEF unbossed
  <2>2. Crew(G, V, disarmed) /\ From(b, disarmed)
    BY <2>1, FightsKeepCrew, HoldFrom
  <2> HIDE DEF disarmed
  <2>3. Crew(G, V, ClearDungeon(disarmed)) /\ From(b, ClearDungeon(disarmed))
    BY <2>2, FightsKeepCrew, RowsFrom
  <2>4. entered = ClearDungeon(disarmed)
    BY Zenon DEF disarmed, unbossed
  <2> HIDE DEF entered
  <2>5. QED
    BY <2>3, <2>4, FightsKeepCrew, RowsFrom
<1>4. Manned(F, U, [entered EXCEPT !.scene = s])
  <2> DEFINE z == [entered EXCEPT !.scene = s]
  <2> HIDE DEF z, entered
  <2>1. ASSUME erases PROVE Manned(F, U, z)
    <3>1. Crew({}, Players, z) /\ From(clean, z)
      BY <1>2, <1>3, <2>1 DEF z
    <3>2. z.reason = "scene_changed"
      BY <1>2, <2>1, <3>1 DEF From
    <3>3. QED
      BY <3>1, <3>2 DEF Manned
  <2>2. ASSUME ~ erases PROVE Manned(F, U, z)
    BY <1>2, <1>3, <2>2 DEF Manned, z
  <2>3. QED
    BY <2>1, <2>2 DEF z
<1>5. Manned(F, U, [released EXCEPT !.scene = s])
  <2>1. Crew(F, U, released)
    BY <1>1, FightsKeepCrew
  <2> HIDE DEF released
  <2>2. QED
    BY <2>1, FightsKeepCrew DEF Manned
<1>6. Manned(F, U, [o EXCEPT !.scene = s])
  BY <1>0, FightsKeepCrew DEF Manned
<1> HIDE DEF entered
<1>7. QED
  BY <1>4, <1>5, <1>6, Zenon DEF ApplyScene, entered, clean, erases, left, ended, pruned

(* A server change prunes those who stand by.                              *)
LEMMA ApplyServerChangedCrew ==
  ASSUME NEW m, NEW t, NEW F, NEW U, Crew(F, U, m)
  PROVE  Crew(F, U, ApplyServerChanged(m, t))
<1> DEFINE ended == PruneStalePreloads(Latch(m, "server_changed", t, t))
           cleared == ClearEnemies(ended)
           released == [cleared EXCEPT !.lc = ReleaseHold(Disarm(@))]
<1>1. Crew(F, U, ended)
  BY FightsKeepCrew, PruneKeepsCrew
<1> HIDE DEF ended
<1>2. Crew(F, U, cleared)
  BY <1>1, FightsKeepCrew
<1> HIDE DEF cleared
<1>3. Crew(F, U, released)
  BY <1>2, FightsKeepCrew
<1> HIDE DEF released
<1>4. Crew(F, U, ClearDungeon(released))
  BY <1>3, FightsKeepCrew
<1>5. QED
  BY <1>4, Zenon DEF ApplyServerChanged, released, cleared, ended

(* A dungeon that starts over resets.                                      *)
LEMMA DungeonStartedManned ==
  ASSUME NEW o, NEW m, From(o, m), NEW F, NEW U, Crew(F, U, m), NEW t
  PROVE  Manned(F, U, Reset(m, t, "dungeon_started"))
<1>1. /\ Crew({}, Players, Reset(m, t, "dungeon_started"))
      /\ Reset(m, t, "dungeon_started").reason = "dungeon_started"
  BY ResetCrew, ResetHandsBack
<1>2. QED
  BY <1>1 DEF Manned

(* A dungeon state resets, or touches no row.                              *)
LEMMA ApplyDungeonStateCrew ==
  ASSUME NEW o, Fresh(o), NEW ds \in DungeonStates, NEW F, NEW U, Staffed(F, U, o)
  PROVE  Manned(F, U, ApplyDungeonState(o, ds))
<1>0. Crew(F, U, o) /\ From(o, o)
  BY DEF Staffed, Fresh
<1>1. Crew(F, U, ClearDungeon(o)) /\ From(o, ClearDungeon(o))
  BY <1>0, FightsKeepCrew, RowsFrom
<1>2. Manned(F, U, ApplyDungeonState(o, "null"))
  BY <1>1 DEF Manned, ApplyDungeonState
<1>3. Manned(F, U, ApplyDungeonState(o, "running"))
  <2>1. Crew(F, U, [o EXCEPT !.dungeon = "running"])
    BY <1>0, FightsKeepCrew
  <2>2. QED
    BY <2>1 DEF Manned, ApplyDungeonState
<1>4. Manned(F, U, ApplyDungeonState(o, "playing"))
  <2> DEFINE r == [ClearDungeon(o) EXCEPT !.dungeon = "running"]
  <2>1. Crew(F, U, r) /\ From(o, r)
    BY <1>1, FightsKeepCrew, RowsFrom
  <2>2. ApplyDungeonState(o, "playing") = Reset(r, o.last_event, "dungeon_started")
    BY DEF ApplyDungeonState
  <2> HIDE DEF r
  <2>3. QED
    BY <2>1, <2>2, DungeonStartedManned
<1>5. Manned(F, U, ApplyDungeonState(o, "terminal"))
  <2> DEFINE r == [o EXCEPT !.dungeon = "terminal", !.lc = Disarm(@)]
  <2>1. SameCrew(o, r)
    BY <1>0, Zenon DEF SameCrew, Crew, NewMeter
  <2>2. ApplyDungeonState(o, "terminal") = CompletionSignal(r)
    BY DEF ApplyDungeonState
  <2> HIDE DEF r
  <2>3. Crew(F, U, CompletionSignal(r))
    BY <1>0, <2>1, SameCrewKeeps, EndsKeepCrew
  <2>4. QED
    BY <2>2, <2>3 DEF Manned
<1>6. QED
  BY <1>2, <1>3, <1>4, <1>5, TablesAssumption

(* So does an objective.                                                   *)
LEMMA ApplyObjectiveCrew ==
  ASSUME NEW o, Fresh(o), NEW obj, NEW zero, NEW complete, NEW F, NEW U, Staffed(F, U, o)
  PROVE  /\ Manned(F, U, ApplyObjective(o, obj, zero, complete))
         /\ Manned(F, U, ApplyObjectiveRemoved(o, obj))
<1>0. Crew(F, U, o) /\ From(o, o)
  BY DEF Staffed, Fresh
<1>1. ASSUME NEW r, Aside(o, r), r.players = o.players
      PROVE  /\ Manned(F, U, Reset(r, o.last_event, "dungeon_started"))
             /\ Manned(F, U, EndFightOnHeldFinish(r, o.last_event))
  <2>1. From(o, r) /\ SameCrew(o, r)
    BY <1>0, <1>1 DEF From, Aside, RightlyArmed, SameCrew
  <2>2. Crew(F, U, r)
    BY <1>0, <2>1, SameCrewKeeps
  <2>3. Crew(F, U, EndFightOnHeldFinish(r, o.last_event))
    BY <2>2, EndsKeepCrew
  <2>4. QED
    BY <2>1, <2>2, <2>3, DungeonStartedManned DEF Manned
<1>2. Manned(F, U, ApplyObjectiveRemoved(o, obj))
  <2> DEFINE r == [o EXCEPT !.open = @ \ {obj}, !.done = @ \ {obj},
                            !.current = IF @ = obj THEN NONE ELSE @]
  <2>1. Aside(o, r) /\ r.players = o.players
    BY Zenon DEF Fresh, From, Aside, NewMeter
  <2> HIDE DEF r
  <2>2. Manned(F, U, EndFightOnHeldFinish(r, o.last_event))
    BY <1>1, <2>1
  <2>3. QED
    BY <2>2, Zenon DEF ApplyObjectiveRemoved, r
<1>3. Manned(F, U, ApplyObjective(o, obj, zero, complete))
  <2> DEFINE done == IF complete = "yes" THEN o.done \cup {obj}
                     ELSE IF complete = "no" THEN o.done \ {obj} ELSE o.done
             first == IF o.first = NONE THEN obj ELSE o.first
             kept == [o EXCEPT !.done = done, !.open = (@ \cup {obj}) \ done, !.first = first]
             turned == [kept EXCEPT !.current = obj]
             new == obj # o.current /\ complete = "no" /\ zero
             restarted == o.current # NONE /\ o.current # first /\ obj = first
  <2>0. ApplyObjective(o, obj, zero, complete) =
          IF new /\ restarted THEN Reset(turned, o.last_event, "dungeon_started")
          ELSE EndFightOnHeldFinish(IF new THEN turned ELSE kept, o.last_event)
    BY Zenon DEF ApplyObjective
  <2> HIDE DEF done, first, new, restarted
  <2>1. Aside(o, kept) /\ kept.players = o.players
    BY Zenon DEF Fresh, From, Aside, NewMeter
  <2>2. Aside(o, turned) /\ turned.players = o.players
    BY Zenon DEF Fresh, From, Aside, NewMeter
  <2> HIDE DEF kept, turned
  <2>3. QED
    BY <1>1, <2>0, <2>1, <2>2
<1>4. QED
  BY <1>2, <1>3

---------------------------------------------------------------------------
(* Who joins a fight that is over. *)

(* The rows are the same, or the fight is another one. *)
SameRows(m, r) == SameCrew(m, r) \/ r.reason # "none"

(* No row is added to those that have fought, in the same fight. *)
NoneJoins(m, r) == r.reason = "none" => Fighters(r) \subseteq Fighters(m)

(* The fight is another one, or still goes on, or who joins it stood by    *)
(* it, or it ended so late that at c its grace has not passed.             *)
Trails(m, r, c) ==
  r.reason = "none" /\ IsEnded(r) =>
    \/ Fighters(r) \subseteq Fighters(m) \cup RowsIn(m, {"preloaded"})
    \/ Since(c, r.lc.end) <= PostEndGrace

(* Who keeps the rows adds none. *)
LEMMA SameRowsJoin ==
  ASSUME NEW m, NEW r, SameRows(m, r) PROVE NoneJoins(m, r)
BY Zenon DEF SameRows, NoneJoins, SameCrew, Fighters, RowsIn

LEMMA NoneTrails ==
  ASSUME NEW m, NEW r, NEW c, NoneJoins(m, r) PROVE Trails(m, r, c)
BY DEF NoneJoins, Trails

(* What is the same as itself. *)
LEMMA FromSame ==
  ASSUME NEW o, NEW m, From(o, m) PROVE DOMAIN m = DOMAIN NewMeter /\ SameCrew(m, m)
BY DEF From, SameCrew

(* A hit on a fight that is over starts another one, or is of its grace;   *)
(* or it resumes it, and if it ends it again it does so at c.              *)
LEMMA ApplyDamageTrails ==
  ASSUME NEW o, NEW c, NEW n, Clocks(c, n), Ok(o, c, n), Fresh(o), IsEnded(o), NEW d
  PROVE  Trails(o, ApplyDamage(o, d, c), c)
<1> DEFINE pinned == Pin(o, c)
           resumes == ResumesHeldFight(pinned, d, c)
           held == IF resumes THEN [pinned EXCEPT !.lc = Resume(@)] ELSE pinned
           fresh == /\ IsEnded(held) /\ PlayerHit(d)
                    /\ ~ WithholdsNewFight(held, d, c)
                    /\ ~ WithholdsAfterWipe(held, d, c)
                    /\ ~ InPostEndGrace(held, d, c)
           open == IF fresh THEN Reset(held, c, "new_fight") ELSE held
           r == ApplyDamage(o, d, c)
<1>0. From(o, o)
  BY DEF Fresh
<1>1. /\ pinned.lc = o.lc /\ SameCrew(o, pinned) /\ From(o, pinned) /\ Ok(pinned, c, n)
      /\ IsEnded(pinned)
  BY <1>0, PinnedEnd, PinFrom, EndsSameCrew, FromSame DEF IsEnded
<1>2. r = IF ~ IsEnded(open) THEN Land(open, d, c)
          ELSE IF InPostEndGrace(open, d, c) /\ PlayerHit(d) THEN Accumulate(open, d.by)
          ELSE open
  BY Zenon DEF ApplyDamage
<1> HIDE DEF pinned, resumes, r
<1>3. CASE resumes
  <2>1. held.lc = Resume(pinned.lc)
    BY <1>1, <1>3, Zenon DEF From, NewMeter
  <2>2. Ok(held, c, n)
    BY <1>1, <1>3, HoldReleasedOk
  <2>3. held.lc.st = "active"
    BY <1>1, <2>1 DEF Resume, Running, IsEnded
  <2>4. ~ fresh
    BY <2>3 DEF IsEnded
  <2> HIDE DEF held
  <2>5. r = Land(held, d, c)
    BY <1>2, <2>3, <2>4 DEF IsEnded
  <2>6. OpenAt(r.lc, c)
    BY <2>2, <2>3, <2>5, LandOk DEF Ready, OpenAt
  <2>7. IsEnded(r) => Since(c, r.lc.end) <= PostEndGrace
    BY <2>6, WindowsAssumption DEF OpenAt, IsEnded, Since, Clocks
  <2>8. QED
    BY <2>7 DEF Trails, r
<1>4. CASE ~ resumes /\ fresh
  <2>1. open = Reset(pinned, c, "new_fight")
    BY <1>4
  <2> HIDE DEF open, held, fresh
  <2>2. From(open, open) /\ open.lc = Idle /\ open.reason = "new_fight"
    BY <1>1, <2>1, ResetHandsBack
  <2>3. r = Land(open, d, c)
    BY <1>2, <2>2 DEF IsEnded, Idle
  <2>4. r.reason = "new_fight"
    <3>1. open.lc.st = "idle"
      BY <2>2 DEF Idle
    <3>2. QED
      BY <2>2, <2>3, <3>1, LandFrom DEF Carries
  <2>5. QED
    BY <2>4 DEF Trails, r
<1>5. CASE ~ resumes /\ ~ fresh
  <2>1. open = pinned
    BY <1>5
  <2> HIDE DEF open, held, fresh
  <2>2. CASE InPostEndGrace(pinned, d, c) /\ PlayerHit(d)
    <3>1. r = Accumulate(pinned, d.by)
      BY <1>1, <1>2, <2>1, <2>2
    <3>2. r.lc = pinned.lc
      BY <1>1, <3>1, Zenon DEF Accumulate, From, NewMeter
    <3>3. Since(c, r.lc.end) <= PostEndGrace
      BY <2>2, <3>2 DEF InPostEndGrace
    <3>4. QED
      BY <3>3 DEF Trails, r
  <2>3. CASE ~ (InPostEndGrace(pinned, d, c) /\ PlayerHit(d))
    <3>1. r = pinned
      BY <1>1, <1>2, <2>1, <2>3
    <3>2. SameRows(o, r)
      BY <1>1, <3>1 DEF SameRows
    <3>3. QED
      BY <3>2, SameRowsJoin, NoneTrails DEF r
  <2>4. QED
    BY <2>2, <2>3
<1>6. QED
  BY <1>3, <1>4, <1>5

(* An HP packet moves no row, unless it erases the fight by a re-pull. *)
LEMMA ApplyEnemyHpJoins ==
  ASSUME NEW o, Fresh(o), NEW e, NEW id, NEW hp, NEW c
  PROVE  SameRows(o, ApplyEnemyHp(o, e, id, hp, c))
<1> DEFINE seen == Recompute(Observe(o, e, id, hp))
           killed == IF EndOnBossDeath /\ o.boss = e /\ seen.enemies[e].hp = Dead
                     THEN EndFightOnBossDeath(seen, e, c) ELSE seen
           ended == IF EndOnBossDeath /\ hp = Dead
                    THEN EndFightOnHeldFinish(killed, c) ELSE killed
<1>0. From(o, o) /\ DOMAIN o = DOMAIN NewMeter
  BY DEF Fresh, From
<1>1. From(o, Observe(o, e, id, hp)) /\ SameCrew(o, Observe(o, e, id, hp))
  BY <1>0, ObserveFrom DEF From, SameCrew
<1>2. SameCrew(o, seen) /\ From(o, seen)
  BY <1>0, <1>1, FightsSameCrew, RowsFrom
<1> HIDE DEF seen
<1>3. SameCrew(o, killed) /\ From(o, killed)
  BY <1>0, <1>2, EndsSameCrew, BossDeathFrom
<1> HIDE DEF killed
<1>4. SameCrew(o, ended) /\ From(o, ended)
  BY <1>0, <1>3, EndsSameCrew, HeldFinishFrom
<1> HIDE DEF ended
<1>5. SameRows(o, Rollback(ended, e, c))
  <2> DEFINE hurt == [Latch(ended, "wipe", c, c) EXCEPT !.lc = Hold(@)]
             wiped == IF Down(ended) = {} THEN ended ELSE hurt
             cool == ended.last_reset = NONE \/ Since(c, ended.last_reset) >= ResetCooldown
             reset == Reset(wiped, c, "boss_hp_rollback")
             left == [wiped EXCEPT !.enemies[e].dipped = FALSE]
  <2>1. Rollback(ended, e, c) = IF cool /\ EndedAt(wiped, c) = NONE THEN reset ELSE left
    BY Zenon DEF Rollback
  <2>2. SameCrew(o, wiped) /\ From(o, wiped)
    BY <1>0, <1>4, EndsSameCrew, WipeFrom
  <2> HIDE DEF wiped, cool
  <2>3. reset.reason = "boss_hp_rollback"
    BY <2>2, ResetHandsBack
  <2>4. SameCrew(o, left)
    BY <1>0, <2>2, FightsSameCrew
  <2> HIDE DEF reset, left
  <2>5. QED
    BY <2>1, <2>3, <2>4 DEF SameRows
<1>6. QED
  BY <1>4, <1>5, Zenon DEF ApplyEnemyHp, ended, killed, seen, SameRows

(* The other packets about one enemy move no row. *)
LEMMA EnemiesJoin ==
  ASSUME NEW m, DOMAIN m = DOMAIN NewMeter, NEW e, NEW t, NEW reason
  PROVE  SameRows(m, ApplyEnemyGone(m, e, reason)) /\ SameRows(m, EnemyDied(m, e, t))
<1> DEFINE seen == Recompute(MarkDead(m, e))
           ended == IF EndOnBossDeath /\ m.boss = e
                    THEN EndFightOnBossDeath(seen, e, t) ELSE seen
<1>0. SameCrew(m, m)
  BY DEF SameCrew
<1>1. SameCrew(m, seen)
  BY <1>0, FightsSameCrew
<1> HIDE DEF seen
<1>2. SameCrew(m, ended) /\ SameCrew(m, EndFightOnBossDeath(seen, e, m.last_event))
  BY <1>1, EndsSameCrew
<1> HIDE DEF ended
<1>3. SameCrew(m, EndFightOnHeldFinish(ended, t))
  BY <1>2, EndsSameCrew
<1>4. SameCrew(m, ApplyEnemyGone(m, e, reason))
  BY <1>0, <1>2, Zenon DEF ApplyEnemyGone, seen
<1>5. SameCrew(m, EnemyDied(m, e, t))
  BY <1>0, <1>2, <1>3, Zenon DEF EnemyDied, ended, seen
<1>6. QED
  BY <1>4, <1>5 DEF SameRows

(* Who dies into the fight stood by it, and one who comes to stand by, or  *)
(* stands up, has not joined it.                                           *)
LEMMA PlayersTrail ==
  ASSUME NEW m, NEW p \in Players, NEW t, Crew({}, Players, m), NEW c
  PROVE  /\ Trails(m, PlayerDied(m, p, t), c) /\ Trails(m, PlayerRevived(m, p), c)
         /\ Trails(m, ApplyPlayer(m, p), c)
<1> DEFINE row == m.players[p]
           known == Fighters(m) \cup RowsIn(m, {"preloaded"})
<1>0. DOMAIN m = DOMAIN NewMeter /\ m.players \in [Players -> Rows]
  BY DEF Crew
<1>1. ASSUME NEW next, next \in {"up", "down"} => row \in {"preloaded", "up", "down"}
      PROVE  Fighters([m EXCEPT !.players[p] = next]) \subseteq known
  <2> DEFINE r == [m EXCEPT !.players[p] = next]
  <2>1. r.players = [m.players EXCEPT ![p] = next]
    BY <1>0, Zenon DEF NewMeter
  <2> HIDE DEF r
  <2>2. QED
    BY <1>0, <1>1, <2>1 DEF Fighters, RowsIn, r
<1>2. \A r, q : SameCrew(r, q) => Fighters(q) = Fighters(r)
  BY Zenon DEF SameCrew, Fighters, RowsIn
<1>3. Fighters(m) \subseteq known
  OBVIOUS
<1>4. Fighters(PlayerDied(m, p, t)) \subseteq known
  <2>1. row \in {"preloaded", "up"} => Fighters(RecordDeath(m, p)) \subseteq known
    BY <1>1 DEF RecordDeath
  <2>2. DOMAIN RecordDeath(m, p) = DOMAIN NewMeter
    BY <1>0, Zenon DEF RecordDeath, NewMeter
  <2>3. Fighters(LatchWipeIfPartyDown(RecordDeath(m, p), t)) = Fighters(RecordDeath(m, p))
    BY <1>2, <2>2, EndsSameCrew DEF SameCrew
  <2> HIDE DEF known
  <2>4. QED
    BY <1>3, <2>1, <2>3 DEF PlayerDied
<1>5. Fighters(PlayerRevived(m, p)) \subseteq known
  <2>1. StandUp(m, p) = [m EXCEPT !.players[p] = IF row = "down" THEN "up" ELSE row]
    BY <1>0, Zenon DEF StandUp, NewMeter
  <2>2. Fighters(StandUp(m, p)) \subseteq known
    BY <1>1, <2>1
  <2>3. DOMAIN StandUp(m, p) = DOMAIN NewMeter
    BY <1>0, Zenon DEF StandUp, NewMeter
  <2>4. Fighters(ReleaseHoldIfRecovered(StandUp(m, p))) = Fighters(StandUp(m, p))
    BY <1>2, <2>3, EndsSameCrew DEF SameCrew
  <2> HIDE DEF known
  <2>5. QED
    BY <1>3, <2>2, <2>4 DEF PlayerRevived
<1>6. Fighters(ApplyPlayer(m, p)) \subseteq known
  BY <1>1, <1>3 DEF ApplyPlayer
<1>7. QED
  BY <1>4, <1>5, <1>6 DEF Trails

(* Those who only stand by are not of the fight they leave. *)
LEMMA PruneLeaves ==
  ASSUME NEW m, Crew({}, Players, m)
  PROVE  /\ DOMAIN PruneStalePreloads(m) = DOMAIN m
         /\ Fighters(PruneStalePreloads(m)) = Fighters(m)
         /\ RowsIn(PruneStalePreloads(m), {"preloaded"}) = {}
<1> DEFINE r == PruneStalePreloads(m)
<1>1. /\ DOMAIN r = DOMAIN m
      /\ r.players = [p \in Players |-> IF m.players[p] = "preloaded" THEN "absent"
                                        ELSE m.players[p]]
  BY Zenon DEF Crew, PruneStalePreloads, NewMeter
<1> HIDE DEF r
<1>2. \A p \in Players : /\ r.players[p] # "preloaded"
                         /\ r.players[p] \in {"up", "down"} <=> m.players[p] \in {"up", "down"}
  BY <1>1 DEF Crew, Rows
<1>3. QED
  BY <1>1, <1>2 DEF Fighters, RowsIn, r

(* Nobody joins by a change of scene. *)
LEMMA ApplySceneJoins ==
  ASSUME NEW o, Fresh(o), NEW s, Crew({}, Players, o)
  PROVE  NoneJoins(o, ApplyScene(o, s))
<1> DEFINE pruned == PruneStalePreloads(o)
           ended == IF IsActive(o)
                    THEN Latch(pruned, "scene_changed", o.last_event, o.last_event) ELSE pruned
           left == [ended EXCEPT !.finish = FALSE]
           erases == ~ IsActive(o) /\ ~ o.lc.hold
           clean == IF erases THEN Reset(left, o.last_event, "scene_changed") ELSE left
           unbossed == [ClearEnemies(clean) EXCEPT !.boss = NONE]
           disarmed == [unbossed EXCEPT !.lc = Disarm(@)]
           entered == ClearDungeon([ClearEnemies(clean) EXCEPT !.boss = NONE, !.lc = Disarm(@)])
           released == [left EXCEPT !.lc = ReleaseHold(@)]
<1>0. From(o, o) /\ SameCrew(o, o) /\ DOMAIN o = DOMAIN NewMeter
  BY DEF Fresh, From, SameCrew
<1>1. \A r, q : SameCrew(r, q) => Fighters(q) = Fighters(r)
  BY Zenon DEF SameCrew, Fighters, RowsIn
<1>2. SameCrew(pruned, left) /\ From(o, left) /\ Fighters(pruned) = Fighters(o)
  <2>1. From(o, pruned) /\ Fighters(pruned) = Fighters(o) /\ DOMAIN pruned = DOMAIN NewMeter
    BY <1>0, RowsFrom, PruneLeaves
  <2> HIDE DEF pruned
  <2>2. SameCrew(pruned, ended) /\ From(o, ended)
    BY <2>1, FromSame, FightsSameCrew, LatchFrom
  <2> HIDE DEF ended
  <2>3. QED
    BY <2>1, <2>2, FightsSameCrew, RowsFrom
<1> HIDE DEF pruned, left
<1>3. /\ ~ erases => clean = left
      /\ erases => From(clean, clean) /\ clean.reason = "scene_changed"
      /\ DOMAIN clean = DOMAIN NewMeter /\ SameCrew(clean, clean)
  <2>1. From(Reset(left, o.last_event, "scene_changed"), Reset(left, o.last_event, "scene_changed"))
    BY <1>2, ResetHandsBack
  <2>2. QED
    BY <1>2, <2>1, ResetHandsBack, FromSame
<1> HIDE DEF clean, erases
<1>4. SameCrew(clean, entered) /\ (From(clean, clean) => From(clean, entered))
  <2>1. SameCrew(clean, unbossed) /\ (From(clean, clean) => From(clean, unbossed))
    <3>1. /\ SameCrew(clean, ClearEnemies(clean))
          /\ From(clean, clean) => From(clean, ClearEnemies(clean))
      BY <1>3, FightsSameCrew, RowsFrom
    <3>2. QED
      BY <1>3, <3>1, FightsSameCrew, RowsFrom
  <2> HIDE DEF unbossed
  <2>2. SameCrew(clean, disarmed) /\ (From(clean, clean) => From(clean, disarmed))
    BY <1>3, <2>1, FightsSameCrew, HoldFrom
  <2> HIDE DEF disarmed
  <2>3. /\ SameCrew(clean, ClearDungeon(disarmed))
        /\ From(clean, clean) => From(clean, ClearDungeon(disarmed))
    BY <1>3, <2>2, FightsSameCrew, RowsFrom
  <2>4. entered = ClearDungeon(disarmed)
    BY Zenon DEF disarmed, unbossed
  <2>5. QED
    BY <2>3, <2>4
<1> HIDE DEF entered
<1>5. NoneJoins(o, [entered EXCEPT !.scene = s])
  <2> DEFINE z == [entered EXCEPT !.scene = s]
  <2>1. SameCrew(clean, z) /\ (From(clean, clean) => From(clean, z))
    BY <1>3, <1>4, FightsSameCrew, RowsFrom
  <2> HIDE DEF z
  <2>2. Fighters(z) = Fighters(clean)
    BY <1>1, <2>1
  <2>3. erases => z.reason = "scene_changed"
    BY <1>3, <2>1 DEF From
  <2>4. ~ erases => Fighters(clean) = Fighters(o)
    BY <1>1, <1>2, <1>3
  <2>5. QED
    BY <2>2, <2>3, <2>4 DEF NoneJoins, z
<1>6. NoneJoins(o, [released EXCEPT !.scene = s])
  <2>1. SameCrew(left, released) /\ DOMAIN left = DOMAIN NewMeter
    BY <1>2, FromSame, FightsSameCrew
  <2> HIDE DEF released
  <2>2. SameCrew(left, [released EXCEPT !.scene = s])
    BY <2>1, FightsSameCrew
  <2>3. Fighters([released EXCEPT !.scene = s]) = Fighters(o)
    BY <1>1, <1>2, <2>2
  <2>4. QED
    BY <2>3 DEF NoneJoins
<1>7. NoneJoins(o, [o EXCEPT !.scene = s])
  BY <1>0, <1>1, FightsSameCrew DEF NoneJoins
<1>8. QED
  BY <1>5, <1>6, <1>7, Zenon DEF ApplyScene, entered, clean, erases, left, ended, pruned, released

(* Nor by a change of server, after which nobody stands by and nothing is  *)
(* armed.                                                                  *)
LEMMA ApplyServerChangedJoins ==
  ASSUME NEW m, From(m, m), NEW t, Crew({}, Players, m)
  PROVE  /\ Fighters(ApplyServerChanged(m, t)) = Fighters(m)
         /\ RowsIn(ApplyServerChanged(m, t), {"preloaded"}) = {}
         /\ ApplyServerChanged(m, t).lc.armed = NONE
<1> DEFINE latched == Latch(m, "server_changed", t, t)
           ended == PruneStalePreloads(latched)
           cleared == ClearEnemies(ended)
           released == [cleared EXCEPT !.lc = ReleaseHold(Disarm(@))]
           r == ClearDungeon(released)
<1>0. \A q, z : SameCrew(q, z) => /\ Fighters(z) = Fighters(q)
                                  /\ RowsIn(z, {"preloaded"}) = RowsIn(q, {"preloaded"})
  BY Zenon DEF SameCrew, Fighters, RowsIn
<1>1. From(m, latched) /\ SameCrew(m, latched) /\ Crew({}, Players, latched)
  BY LatchFrom, FromSame, FightsSameCrew, FightsKeepCrew
<1> HIDE DEF latched
<1>2. /\ From(m, ended) /\ Fighters(ended) = Fighters(m) /\ RowsIn(ended, {"preloaded"}) = {}
  BY <1>0, <1>1, PruneLeaves, RowsFrom
<1> HIDE DEF ended
<1>3. From(m, cleared) /\ SameCrew(ended, cleared)
  BY <1>2, FromSame, FightsSameCrew, RowsFrom
<1> HIDE DEF cleared
<1>4. /\ DOMAIN released = DOMAIN NewMeter /\ released.lc = ReleaseHold(Disarm(cleared.lc))
      /\ released.players = cleared.players
  BY <1>3, Zenon DEF From, NewMeter
<1>5. ReleaseHold(Disarm(cleared.lc)).armed = NONE
  BY <1>3, Zenon DEF ReleaseHold, Disarm, From, Idle
<1> HIDE DEF released
<1>6. SameCrew(cleared, released)
  BY <1>3, <1>4 DEF SameCrew, From
<1>7. SameCrew(released, r) /\ r.lc = released.lc
  BY <1>4, Zenon DEF SameCrew, ClearDungeon, NewMeter
<1>8. r = ApplyServerChanged(m, t)
  BY Zenon DEF ApplyServerChanged, released, cleared, ended, latched
<1> HIDE DEF r
<1>9. QED
  BY <1>0, <1>2, <1>3, <1>4, <1>5, <1>6, <1>7, <1>8

(* An objective touches no row, unless it resets.                           *)
LEMMA ObjectivesJoin ==
  ASSUME NEW o, Fresh(o), NEW obj, NEW zero, NEW complete
  PROVE  /\ SameRows(o, ApplyObjective(o, obj, zero, complete))
         /\ SameRows(o, ApplyObjectiveRemoved(o, obj))
<1>0. From(o, o) /\ DOMAIN o = DOMAIN NewMeter /\ SameCrew(o, o)
  BY DEF Fresh, From, SameCrew
<1>1. ASSUME NEW r, Aside(o, r), r.players = o.players
      PROVE  /\ SameRows(o, Reset(r, o.last_event, "dungeon_started"))
             /\ SameRows(o, EndFightOnHeldFinish(r, o.last_event))
  <2>1. From(o, r) /\ SameCrew(o, r)
    BY <1>0, <1>1 DEF From, Aside, RightlyArmed, SameCrew
  <2>2. Reset(r, o.last_event, "dungeon_started").reason = "dungeon_started"
    BY <2>1, ResetHandsBack
  <2>3. SameCrew(o, EndFightOnHeldFinish(r, o.last_event))
    BY <1>0, <2>1, EndsSameCrew
  <2>4. QED
    BY <2>2, <2>3 DEF SameRows
<1>2. SameRows(o, ApplyObjectiveRemoved(o, obj))
  <2> DEFINE r == [o EXCEPT !.open = @ \ {obj}, !.done = @ \ {obj},
                            !.current = IF @ = obj THEN NONE ELSE @]
  <2>1. Aside(o, r) /\ r.players = o.players
    BY Zenon DEF Fresh, From, Aside, NewMeter
  <2> HIDE DEF r
  <2>2. SameRows(o, EndFightOnHeldFinish(r, o.last_event))
    BY <1>1, <2>1
  <2>3. QED
    BY <2>2, Zenon DEF ApplyObjectiveRemoved, r
<1>3. SameRows(o, ApplyObjective(o, obj, zero, complete))
  <2> DEFINE done == IF complete = "yes" THEN o.done \cup {obj}
                     ELSE IF complete = "no" THEN o.done \ {obj} ELSE o.done
             first == IF o.first = NONE THEN obj ELSE o.first
             kept == [o EXCEPT !.done = done, !.open = (@ \cup {obj}) \ done, !.first = first]
             turned == [kept EXCEPT !.current = obj]
             new == obj # o.current /\ complete = "no" /\ zero
             restarted == o.current # NONE /\ o.current # first /\ obj = first
  <2>0. ApplyObjective(o, obj, zero, complete) =
          IF new /\ restarted THEN Reset(turned, o.last_event, "dungeon_started")
          ELSE EndFightOnHeldFinish(IF new THEN turned ELSE kept, o.last_event)
    BY Zenon DEF ApplyObjective
  <2> HIDE DEF done, first, new, restarted
  <2>1. Aside(o, kept) /\ kept.players = o.players
    BY Zenon DEF Fresh, From, Aside, NewMeter
  <2>2. Aside(o, turned) /\ turned.players = o.players
    BY Zenon DEF Fresh, From, Aside, NewMeter
  <2> HIDE DEF kept, turned
  <2>3. QED
    BY <1>1, <2>0, <2>1, <2>2
<1>4. QED
  BY <1>2, <1>3

(* Nor does a dungeon state.                                               *)
LEMMA DungeonJoins ==
  ASSUME NEW o, Fresh(o), NEW ds \in DungeonStates
  PROVE  SameRows(o, ApplyDungeonState(o, ds)) /\ SameRows(o, CompletionSignal(o))
<1>0. From(o, o) /\ DOMAIN o = DOMAIN NewMeter /\ SameCrew(o, o)
  BY DEF Fresh, From, SameCrew
<1>1. SameRows(o, CompletionSignal(o))
  BY <1>0, EndsSameCrew DEF SameRows
<1>2. SameRows(o, ApplyDungeonState(o, "null")) /\ SameRows(o, ApplyDungeonState(o, "running"))
  BY <1>0, FightsSameCrew DEF SameRows, ApplyDungeonState
<1>3. SameRows(o, ApplyDungeonState(o, "playing"))
  <2> DEFINE r == [ClearDungeon(o) EXCEPT !.dungeon = "running"]
  <2>1. From(o, r)
    <3>1. From(o, ClearDungeon(o))
      BY <1>0, RowsFrom
    <3>2. QED
      BY <3>1, RowsFrom
  <2>2. ApplyDungeonState(o, "playing") = Reset(r, o.last_event, "dungeon_started")
    BY DEF ApplyDungeonState
  <2> HIDE DEF r
  <2>3. QED
    BY <2>1, <2>2, ResetHandsBack DEF SameRows
<1>4. SameRows(o, ApplyDungeonState(o, "terminal"))
  <2> DEFINE r == [o EXCEPT !.dungeon = "terminal", !.lc = Disarm(@)]
  <2>1. SameCrew(o, r)
    BY <1>0, Zenon DEF SameCrew, NewMeter
  <2>2. ApplyDungeonState(o, "terminal") = CompletionSignal(r)
    BY DEF ApplyDungeonState
  <2> HIDE DEF r
  <2>3. SameCrew(o, CompletionSignal(r))
    BY <1>0, <2>1, EndsSameCrew
  <2>4. QED
    BY <2>2, <2>3 DEF SameRows
<1>5. QED
  BY <1>1, <1>2, <1>3, <1>4, TablesAssumption

---------------------------------------------------------------------------
(* The step, with the rows. *)
RowsInv == StepInv /\ Crew({}, Players, meter)

(* A call of apply finds the rows of the step before it.                   *)
LEMMA CalledStaffed ==
  ASSUME RowsInv
  PROVE  /\ Staffed({}, Players, Called)
         /\ Staffed(Fighters(meter), Fighters(meter) \cup Upright(meter), Called)
         /\ Upright(meter) \subseteq Fighters(meter)
<1>1. Fresh(Called) /\ SameCrew(meter, Called) /\ Fighters(Called) = Fighters(meter)
  BY CalledFresh DEF RowsInv, SameCrew, Crew, Fresh, From
<1>2. Crew(Fighters(meter), Fighters(meter) \cup Upright(meter), meter)
  BY DEF RowsInv, Crew
<1>3. QED
  BY <1>1, <1>2, SameCrewKeeps DEF RowsInv, Staffed, Fighters, Upright, RowsIn

(* Every step leaves the rows of the fight it found, or of a new one; or   *)
(* it is a hit, within the grace of the end or one that starts a fight.    *)
LEMMA StepManned ==
  ASSUME RowsInv, [Next]_vars, NEW F, NEW U, Staffed(F, U, Called),
         (F = {} /\ U = Players) \/ IsEnded(meter)
  PROVE  \/ Manned(F, U, meter')
         \/ /\ Crew(F, Players, meter')
            /\ IsEnded(meter) => \/ Since(clock, meter.lc.end) <= PostEndGrace
                                 \/ OpenAt(meter'.lc, clock)
         \/ UNCHANGED vars
<1>0. /\ Ok(Called, clock, now) /\ Clocks(clock, now) /\ Fresh(Called)
      /\ Crew(F, U, Called) /\ Called.lc = meter.lc
  BY CalledOk, CalledFresh DEF RowsInv, StepInv, Staffed
<1>1. CASE Damage
  <2>1. PICK d : meter' = ApplyDamage(Called, d, clock)
    BY <1>1 DEF Damage, Becomes
  <2>2. QED
    BY <1>0, <2>1, ApplyDamageCrew DEF IsEnded
<1>2. CASE EnemyHp
  BY <1>0, <1>2, ApplyEnemyHpCrew DEF EnemyHp, Becomes
<1>3. CASE PlayerState \/ Revive \/ PlayerInfo
  BY <1>3, PlayersCrew DEF PlayerState, Revive, PlayerInfo, Becomes, Manned
<1>4. CASE EnemyGone \/ EnemyState
  BY <1>0, <1>4, EnemiesCrew DEF EnemyGone, EnemyState, Becomes, Manned
<1>5. CASE TeamRoster \/ TeamMemberLeft
  <2>1. PICK members : meter' = Keep(Called, members)
    BY <1>5 DEF TeamRoster, TeamMemberLeft, Becomes
  <2>2. /\ Crew({}, Players, Keep(Called, members))
        /\ IsEnded(Called) => Crew(F, U, Keep(Called, members))
    BY KeepCrew
  <2>3. QED
    BY <1>0, <2>1, <2>2 DEF Manned, IsEnded
<1>6. CASE Scene
  BY <1>0, <1>6, ApplySceneCrew DEF Scene, Becomes
<1>7. CASE ServerChanged
  BY <1>0, <1>7, ApplyServerChangedCrew DEF ServerChanged, Becomes, Manned
<1>8. CASE DungeonState
  <2>1. PICK ds \in DungeonStates : meter' = ApplyDungeonState(Called, ds)
    BY <1>8 DEF DungeonState, Becomes
  <2>2. Manned(F, U, ApplyDungeonState(Called, ds))
    BY <1>0, ApplyDungeonStateCrew
  <2>3. QED
    BY <2>1, <2>2
<1>9. CASE DungeonVar \/ Tick
  <2>1. Crew(F, U, CompletionSignal(Called)) /\ Crew(F, U, Pin(Called, now))
    BY <1>0, EndsKeepCrew
  <2>2. QED
    BY <1>9, <2>1 DEF DungeonVar, Tick, Becomes, Manned
<1>10. CASE DungeonObjective \/ DungeonObjectiveRemoved
  BY <1>0, <1>10, ApplyObjectiveCrew DEF DungeonObjective, DungeonObjectiveRemoved, Becomes
<1>11. CASE ManualReset
  <2> DEFINE z == Reset(Called, now, "manual")
  <2>1. z.reason = "manual" /\ Crew({}, Players, z)
    BY <1>0, ResetHandsBack, ResetCrew DEF Fresh
  <2> HIDE DEF z
  <2>2. [z EXCEPT !.saved = Nothing].reason = "manual" /\ SameCrew(z, [z EXCEPT !.saved = Nothing])
    BY <2>1, Zenon DEF SameCrew, Crew, NewMeter
  <2>3. Crew({}, Players, [z EXCEPT !.saved = Nothing])
    BY <2>1, <2>2, SameCrewKeeps
  <2>4. QED
    BY <1>11, <2>2, <2>3 DEF ManualReset, Becomes, z, Manned
<1>12. CASE Pass \/ Hear
  BY <1>0, <1>12 DEF Pass, Hear, Manned
<1>13. CASE UNCHANGED vars
  BY <1>13
<1>14. QED
  BY <1>1, <1>2, <1>3, <1>4, <1>5, <1>6, <1>7, <1>8, <1>9, <1>10, <1>11, <1>12, <1>13 DEF Next

(* The invariant with the rows is inductive.                               *)
LEMMA RowsInvKept == RowsInv /\ [Next]_vars => RowsInv'
<1> SUFFICES ASSUME RowsInv, [Next]_vars PROVE RowsInv'
  OBVIOUS
<1>1. StepInv'
  BY StepInvKept DEF RowsInv
<1>2. Crew({}, Players, meter')
  <2>1. Staffed({}, Players, Called)
    BY CalledStaffed
  <2>2. UNCHANGED vars => meter' = meter
    BY DEF vars
  <2>3. QED
    BY <2>1, <2>2, StepManned DEF Manned, RowsInv
<1>3. QED
  BY <1>1, <1>2 DEF RowsInv

(* It holds in the initial state.                                          *)
LEMMA RowsInvInit == Init => RowsInv
<1> SUFFICES ASSUME Init PROVE RowsInv
  OBVIOUS
<1>1. StepInv
  BY ClockInit DEF Init, StepInv, RightlyArmed, NewMeter, Idle
<1>2. DOMAIN meter = DOMAIN NewMeter /\ meter.players = [p \in Players |-> "absent"]
  BY DEF Init, NewMeter
<1>3. QED
  BY <1>1, <1>2 DEF RowsInv, Crew, Rows, Upright, RowsIn

(* It holds in every reachable state.                                      *)
LEMMA RowsInvAlways == Spec => []RowsInv
BY RowsInvInit, RowsInvKept, PTL DEF Spec

(* Once a fight has been over for its grace, nobody new rises into its     *)
(* rows: a late hit or state of a player starts a new fight or changes     *)
(* nothing (encounter.rs, apply_damage and its post-end grace).            *)
THEOREM EndedRowsAreFrozen == Spec => FrozenAfterGrace
<1> DEFINE A == IsEnded(meter) /\ meter'.lc.end = meter.lc.end /\ meter'.reason = "none" =>
        \A p \in Players :
          meter.players[p] \in {"absent", "preloaded"} /\ meter'.players[p] = "up"
            => Since(clock, meter.lc.end) <= PostEndGrace
<1>1. RowsInv /\ [Next]_vars => [A]_vars
  <2> SUFFICES ASSUME RowsInv, [Next]_vars, ~ UNCHANGED vars, IsEnded(meter),
                      meter'.lc.end = meter.lc.end, meter'.reason = "none",
                      NEW p \in Players, meter.players[p] \in {"absent", "preloaded"},
                      meter'.players[p] = "up",
                      ~ (Since(clock, meter.lc.end) <= PostEndGrace)
               PROVE  FALSE
    BY DEF A
  <2>1. p \notin Fighters(meter)
    BY DEF Fighters, RowsIn
  <2>2. ~ OpenAt(meter'.lc, clock)
    <3>1. ClockInv /\ ClockInv'
      BY ClockStep DEF RowsInv, StepInv
    <3>2. meter.lc.end \in Nat /\ meter.lc.end # NONE
      BY <3>1 DEF ClockInv, Ok, OkTimes, IsEnded, NONE
    <3>3. meter'.lc.st = "ended"
      BY <3>1, <3>2 DEF ClockInv, Ok, OkTimes, WellFormed
    <3>4. meter'.lc.end = clock => Since(clock, meter.lc.end) = 0
      BY <3>2 DEF Since
    <3>5. QED
      BY <3>3, <3>4, WindowsAssumption DEF OpenAt
  <2>3. Crew(Fighters(meter), Fighters(meter), meter')
    <3>1. Staffed(Fighters(meter), Fighters(meter), Called)
      <4>1. Fighters(meter) \cup Upright(meter) = Fighters(meter)
        BY CalledStaffed
      <4>2. QED
        BY <4>1, CalledStaffed
    <3>2. QED
      BY <2>2, <3>1, StepManned DEF Manned
  <2>4. QED
    BY <2>1, <2>3 DEF Crew, Upright, RowsIn
<1> HIDE DEF A
<1>2. Spec => [][A]_vars
  BY <1>1, RowsInvAlways, PTL DEF Spec
<1>3. QED
  BY <1>2 DEF FrozenAfterGrace, A

---------------------------------------------------------------------------
(* Ranking. *)

(* What of an enemy a meter may know. *)
Enemy(c) == [mon : Mons \cup {NONE}, hp : HpSeen \cup {NONE}, dipped : BOOLEAN,
             damaged : BOOLEAN, last : (0 .. c) \cup {NONE}]

(* A death order names each of the enemies in K at most once. *)
Ordered(D, K) ==
  /\ D \in Seq(K)
  /\ \A i, j \in DOMAIN D : D[i] = D[j] => i = j

(* What a meter knows of the enemies, and the order they died in.          *)
Listed(m, c) ==
  /\ IsFiniteSet(Known(m)) /\ Known(m) \subseteq Entities
  /\ \A e \in Known(m) : m.enemies[e] \in Enemy(c)
  /\ Ordered(m.deaths, Known(m))

(* The key rank_boss compares. *)
RankKey(m, e) == <<Bit(m.enemies[e].mon \in Boss), Bit(Alive(m, e)), DiedAt(m, e), MaxHp[e], e>>

(* The lexical order of five numbers.                                      *)
Before(a1, a2, a3, a4, a5, b1, b2, b3, b4, b5) ==
  \/ a1 < b1
  \/ a1 = b1 /\ a2 < b2
  \/ a1 = b1 /\ a2 = b2 /\ a3 < b3
  \/ a1 = b1 /\ a2 = b2 /\ a3 = b3 /\ a4 < b4
  \/ a1 = b1 /\ a2 = b2 /\ a3 = b3 /\ a4 = b4 /\ a5 < b5

(* Less compares keys of five in that order.                               *)
LEMMA LessIsLexical ==
  ASSUME NEW a1 \in Nat, NEW a2 \in Nat, NEW a3 \in Nat, NEW a4 \in Nat, NEW a5 \in Nat,
         NEW b1 \in Nat, NEW b2 \in Nat, NEW b3 \in Nat, NEW b4 \in Nat, NEW b5 \in Nat
  PROVE  Less(<<a1, a2, a3, a4, a5>>, <<b1, b2, b3, b4, b5>>)
           <=> Before(a1, a2, a3, a4, a5, b1, b2, b3, b4, b5)
<1> DEFINE a == <<a1, a2, a3, a4, a5>>
           b == <<b1, b2, b3, b4, b5>>
           At(i) == a[i] < b[i] /\ \A j \in 1 .. i - 1 : a[j] = b[j]
<1>1. DOMAIN a = 1 .. 5
  OBVIOUS
<1>2. /\ a[1] = a1 /\ a[2] = a2 /\ a[3] = a3 /\ a[4] = a4 /\ a[5] = a5
      /\ b[1] = b1 /\ b[2] = b2 /\ b[3] = b3 /\ b[4] = b4 /\ b[5] = b5
  OBVIOUS
<1> HIDE DEF a, b
<1>3. At(1) <=> a1 < b1
  BY <1>2
<1>4. At(2) <=> a2 < b2 /\ a1 = b1
  BY <1>2
<1>5. At(3) <=> a3 < b3 /\ a1 = b1 /\ a2 = b2
  BY <1>2
<1>6. At(4) <=> a4 < b4 /\ a1 = b1 /\ a2 = b2 /\ a3 = b3
  BY <1>2
<1>7. At(5) <=> a5 < b5 /\ a1 = b1 /\ a2 = b2 /\ a3 = b3 /\ a4 = b4
  BY <1>2
<1>8. Less(a, b) <=> \E i \in DOMAIN a : At(i)
  BY DEF Less
<1> HIDE DEF At
<1>9. Less(a, b) <=> At(1) \/ At(2) \/ At(3) \/ At(4) \/ At(5)
  <2>1. \A i \in 1 .. 5 : i = 1 \/ i = 2 \/ i = 3 \/ i = 4 \/ i = 5
    OBVIOUS
  <2>2. 1 \in 1 .. 5 /\ 2 \in 1 .. 5 /\ 3 \in 1 .. 5 /\ 4 \in 1 .. 5 /\ 5 \in 1 .. 5
    OBVIOUS
  <2>3. QED
    BY <1>1, <1>8, <2>1, <2>2
<1>10. QED
  BY <1>3, <1>4, <1>5, <1>6, <1>7, <1>9 DEF Before, a, b

(* The keys of two enemies are in order, one way or the other, and orders    *)
(* of keys go on.                                                           *)
LEMMA KeysInOrder ==
  ASSUME NEW m, NEW c, Listed(m, c)
  PROVE  /\ \A x, y \in Known(m) : x # y => \/ Less(RankKey(m, x), RankKey(m, y))
                                            \/ Less(RankKey(m, y), RankKey(m, x))
         /\ \A x, y, z \in Known(m) :
              /\ Less(RankKey(m, x), RankKey(m, y))
              /\ Less(RankKey(m, y), RankKey(m, z))
              => Less(RankKey(m, x), RankKey(m, z))
<1> DEFINE A1(e) == Bit(m.enemies[e].mon \in Boss)
           A2(e) == Bit(Alive(m, e))
           A3(e) == DiedAt(m, e)
<1>1. ASSUME NEW e \in Known(m)
      PROVE  /\ A1(e) \in Nat /\ A2(e) \in Nat /\ A3(e) \in Nat /\ MaxHp[e] \in Nat /\ e \in Nat
             /\ RankKey(m, e) = <<A1(e), A2(e), A3(e), MaxHp[e], e>>
  <2>1. A1(e) \in Nat /\ A2(e) \in Nat
    BY DEF Bit
  <2>2. e \in Entities /\ e \in Nat /\ MaxHp[e] \in Nat
    BY TablesAssumption DEF Listed
  <2>3. A3(e) \in Nat
    <3>1. m.deaths \in Seq(Known(m)) /\ DOMAIN m.deaths \subseteq Nat
      BY DEF Listed, Ordered
    <3>2. e \in Range(m.deaths) => \E i \in DOMAIN m.deaths : m.deaths[i] = e
      BY DEF Range
    <3>3. QED
      BY <3>1, <3>2 DEF DiedAt
  <2>4. QED
    BY <2>1, <2>2, <2>3 DEF RankKey
<1> HIDE DEF A1, A2, A3
<1> DEFINE B(x, y) == Before(A1(x), A2(x), A3(x), MaxHp[x], x, A1(y), A2(y), A3(y), MaxHp[y], y)
<1>2. ASSUME NEW x \in Known(m), NEW y \in Known(m)
      PROVE  Less(RankKey(m, x), RankKey(m, y)) <=> B(x, y)
  <2>1. /\ A1(x) \in Nat /\ A2(x) \in Nat /\ A3(x) \in Nat /\ MaxHp[x] \in Nat /\ x \in Nat
        /\ A1(y) \in Nat /\ A2(y) \in Nat /\ A3(y) \in Nat /\ MaxHp[y] \in Nat /\ y \in Nat
    BY <1>1
  <2>2. Less(<<A1(x), A2(x), A3(x), MaxHp[x], x>>, <<A1(y), A2(y), A3(y), MaxHp[y], y>>)
          <=> B(x, y)
    BY <2>1, LessIsLexical
  <2>3. /\ RankKey(m, x) = <<A1(x), A2(x), A3(x), MaxHp[x], x>>
        /\ RankKey(m, y) = <<A1(y), A2(y), A3(y), MaxHp[y], y>>
    BY <1>1
  <2> HIDE DEF B
  <2>4. QED
    BY <2>2, <2>3
<1>3. ASSUME NEW x \in Known(m), NEW y \in Known(m), x # y PROVE B(x, y) \/ B(y, x)
  BY <1>1, <1>3 DEF Before
<1>4. ASSUME NEW x \in Known(m), NEW y \in Known(m), NEW z \in Known(m), B(x, y), B(y, z)
      PROVE  B(x, z)
  BY <1>1, <1>4 DEF Before
<1> HIDE DEF B
<1>5. QED
  BY <1>2, <1>3, <1>4

(* Among any enemies one ranks above all others. *)
LEMMA OneIsTop ==
  ASSUME NEW m, NEW c, Listed(m, c), NEW S \in SUBSET Known(m), S # {}
  PROVE  \E x \in S : \A y \in S \ {x} : Less(RankKey(m, y), RankKey(m, x))
<1> DEFINE K == Known(m)
           Lower(y, x) == Less(RankKey(m, y), RankKey(m, x))
           Topped(D) == D # {} => \E x \in D : \A y \in D \ {x} : Lower(y, x)
           P == {D \in SUBSET K : Topped(D)}
<1>1. /\ \A x, y \in K : x # y => Lower(x, y) \/ Lower(y, x)
      /\ \A x, y, z \in K : Lower(x, y) /\ Lower(y, z) => Lower(x, z)
  BY KeysInOrder
<1>2. IsFiniteSet(K)
  BY DEF Listed
<1> HIDE DEF K, Lower
<1>3. {} \in P
  OBVIOUS
<1>4. ASSUME NEW D \in SUBSET K, D # {}, \A x \in D : D \ {x} \in P PROVE D \in P
  <2>1. PICK z \in D : TRUE
    BY <1>4
  <2>2. CASE D = {z}
    BY <2>1, <2>2
  <2>3. CASE D # {z}
    <3>1. D \ {z} # {} /\ Topped(D \ {z})
      BY <1>4, <2>1, <2>3
    <3>2. PICK x \in D \ {z} : \A y \in (D \ {z}) \ {x} : Lower(y, x)
      BY <3>1
    <3>3. CASE Lower(z, x)
      BY <3>2, <3>3
    <3>4. CASE Lower(x, z)
      <4>1. \A y \in D \ {z} : Lower(y, z)
        BY <1>1, <3>2, <3>4
      <4>2. QED
        BY <4>1
    <3>5. QED
      BY <1>1, <3>2, <3>3, <3>4
  <2>4. QED
    BY <2>2, <2>3
<1> HIDE DEF P
<1>5. \A D \in SUBSET K : D \in P
  BY <1>2, <1>3, <1>4, SetInduction
<1>6. QED
  BY <1>5 DEF P, K, Lower

(* rank_boss chooses one of the enemies it is given, or none.              *)
LEMMA RankBossIsKnown ==
  ASSUME NEW m, NEW c, Listed(m, c), NEW S \in SUBSET Known(m)
  PROVE  RankBoss(m, S) \in Known(m) \cup {NONE}
<1> DEFINE T == {e \in S : m.enemies[e].hp # NONE}
<1>1. RankBoss(m, S) = IF T = {} THEN NONE
                       ELSE CHOOSE x \in T : \A y \in T \ {x} : Less(RankKey(m, y), RankKey(m, x))
  BY DEF RankBoss, Largest, RankKey
<1>2. T # {} => \E x \in T : \A y \in T \ {x} : Less(RankKey(m, y), RankKey(m, x))
  BY OneIsTop
<1> HIDE DEF T
<1>3. CASE T = {}
  BY <1>1, <1>3
<1>4. CASE T # {}
  <2>1. RankBoss(m, S) \in T
    BY <1>1, <1>2, <1>4
  <2>2. QED
    BY <2>1 DEF T
<1>5. QED
  BY <1>3, <1>4

---------------------------------------------------------------------------
(* Two meters the ranking cannot tell apart. *)
SameEnemies(m, r) ==
  /\ DOMAIN r = DOMAIN NewMeter /\ Known(r) = Known(m) /\ r.deaths = m.deaths
  /\ \A e \in Known(m) :
       /\ r.enemies[e].mon = m.enemies[e].mon /\ r.enemies[e].hp = m.enemies[e].hp
       /\ r.enemies[e].damaged = m.enemies[e].damaged
       /\ r.enemies[e].last = m.enemies[e].last

(* It chooses the same of both.                                            *)
LEMMA RankBossSame ==
  ASSUME NEW m, NEW r, SameEnemies(m, r), NEW S \in SUBSET Known(m)
  PROVE  RankBoss(r, S) = RankBoss(m, S)
<1> DEFINE T == {e \in S : m.enemies[e].hp # NONE}
<1>1. {e \in S : r.enemies[e].hp # NONE} = T
  BY DEF SameEnemies
<1>2. ASSUME NEW e \in T PROVE RankKey(r, e) = RankKey(m, e)
  <2>1. Alive(r, e) = Alive(m, e) /\ DiedAt(r, e) = DiedAt(m, e)
    BY DEF SameEnemies, Alive, DiedAt
  <2>2. QED
    BY <2>1 DEF RankKey, SameEnemies
<1>3. RankBoss(m, S) = IF T = {} THEN NONE
                       ELSE CHOOSE x \in T : \A y \in T \ {x} : Less(RankKey(m, y), RankKey(m, x))
  BY DEF RankBoss, Largest, RankKey
<1>4. RankBoss(r, S) = IF {e \in S : r.enemies[e].hp # NONE} = {} THEN NONE
                       ELSE CHOOSE x \in {e \in S : r.enemies[e].hp # NONE} :
                              \A y \in {e \in S : r.enemies[e].hp # NONE} \ {x} :
                                Less(RankKey(r, y), RankKey(r, x))
  BY DEF RankBoss, Largest, RankKey
<1> HIDE DEF T
<1>5. RankBoss(r, S) = IF T = {} THEN NONE
                       ELSE CHOOSE x \in T : \A y \in T \ {x} : Less(RankKey(r, y), RankKey(r, x))
  BY <1>1, <1>4
<1>6. CASE T = {}
  BY <1>3, <1>5, <1>6
<1>7. CASE T # {}
  <2>1. RankBoss(m, S) = CHOOSE x \in T : \A y \in T \ {x} : Less(RankKey(m, y), RankKey(m, x))
    BY <1>3, <1>7
  <2>2. RankBoss(r, S) = CHOOSE x \in T : \A y \in T \ {x} : Less(RankKey(r, y), RankKey(r, x))
    BY <1>5, <1>7
  <2>3. QED
    BY <1>2, <2>1, <2>2
<1>8. QED
  BY <1>6, <1>7

---------------------------------------------------------------------------
(* The boss recompute_boss chooses. *)
Top(m) == RankBoss(m, {e \in Known(m) : m.enemies[e].damaged})
(* The live recognized boss engaged together with it.                      *)
Rival(m) ==
  RankBoss(m, {e \in Known(m) :
                 /\ Alive(m, e) /\ m.enemies[e].mon \in Boss
                 /\ Within(m.enemies[Top(m)].last, m.enemies[e].last, EngagementWindow)})
(* The one of the two it takes.                                            *)
Best(m) ==
  IF Top(m) # NONE /\ m.enemies[Top(m)].mon \notin Boss /\ Rival(m) # NONE
  THEN Rival(m) ELSE Top(m)

(* It is an enemy, or none.                                                *)
LEMMA BestIsKnown ==
  ASSUME NEW m, NEW c, Listed(m, c) PROVE Best(m) \in Known(m) \cup {NONE}
BY RankBossIsKnown DEF Best, Top, Rival

(* Two meters the ranking cannot tell apart have the same boss.            *)
LEMMA BestSame ==
  ASSUME NEW m, NEW c, Listed(m, c), NEW r, SameEnemies(m, r)
  PROVE  Best(r) = Best(m)
<1>1. Top(r) = Top(m)
  <2> DEFINE S == {e \in Known(m) : m.enemies[e].damaged}
  <2>1. {e \in Known(r) : r.enemies[e].damaged} = S
    BY DEF SameEnemies
  <2> HIDE DEF S
  <2>2. RankBoss(r, S) = RankBoss(m, S)
    <3>1. S \in SUBSET Known(m)
      BY DEF S
    <3>2. QED
      BY <3>1, RankBossSame
  <2>3. QED
    BY <2>1, <2>2 DEF Top, S
<1>2. Top(m) \in Known(m) \cup {NONE}
  BY RankBossIsKnown DEF Top
<1>3. CASE Top(m) = NONE
  BY <1>1, <1>3 DEF Best
<1>4. CASE Top(m) # NONE
  <2> DEFINE top == Top(m)
             S == {e \in Known(m) :
                     /\ Alive(m, e) /\ m.enemies[e].mon \in Boss
                     /\ Within(m.enemies[top].last, m.enemies[e].last, EngagementWindow)}
  <2>0. top \in Known(m)
    BY <1>2, <1>4
  <2> HIDE DEF top
  <2>1. \A e \in Known(m) : Alive(r, e) = Alive(m, e)
    BY DEF SameEnemies, Alive
  <2>2. {e \in Known(r) :
           /\ Alive(r, e) /\ r.enemies[e].mon \in Boss
           /\ Within(r.enemies[top].last, r.enemies[e].last, EngagementWindow)} = S
    BY <2>0, <2>1 DEF SameEnemies
  <2>3. RankBoss(r, S) = RankBoss(m, S)
    <3>1. S \in SUBSET Known(m)
      OBVIOUS
    <3> HIDE DEF S
    <3>2. QED
      BY <3>1, RankBossSame
  <2>4. Rival(m) = RankBoss(m, S)
    BY DEF Rival, top
  <2>5. Rival(r) = RankBoss(r, S)
    BY <1>1, <2>2 DEF Rival, top
  <2>6. r.enemies[top].mon = m.enemies[top].mon
    BY <2>0 DEF SameEnemies
  <2>7. QED
    BY <1>1, <2>3, <2>4, <2>5, <2>6 DEF Best, top
<1>5. QED
  BY <1>3, <1>4

---------------------------------------------------------------------------
(* The meter's types. *)
Lcs == Lifecycles(Nat, Mons)

(* The fields that are neither enemies, rows nor the fight.                *)
Placed(m) ==
  /\ m.boss \in Entities \cup {NONE}
  /\ m.scene \in Scenes \cup {NONE} /\ m.dungeon \in {"none", "running", "terminal"}
  /\ m.open \subseteq Objectives /\ m.done \subseteq Objectives
  /\ m.first \in Objectives \cup {NONE} /\ m.current \in Objectives \cup {NONE}
  /\ m.finish \in BOOLEAN /\ m.last_event \in Nat

(* All of the meter but the rows and the times.                            *)
Typed(m, c) ==
  /\ DOMAIN m = DOMAIN NewMeter /\ Listed(m, c) /\ m.lc \in Lcs /\ Placed(m)

(* The boss is the one the ranking chooses.                                *)
Ranked(m) == Known(m) # {} => Best(m) = m.boss

(* The types and the ranking together.                                     *)
Whole(m, c) == Typed(m, c) /\ Ranked(m)

(* A function that leaves the enemies and the boss alone. *)
Apart(m, r) ==
  /\ DOMAIN r = DOMAIN NewMeter /\ r.enemies = m.enemies /\ r.deaths = m.deaths
  /\ r.boss = m.boss

(* Such a function leaves the ranking as it was.                           *)
LEMMA ApartWhole ==
  ASSUME NEW m, NEW c, Whole(m, c), NEW r, Apart(m, r), r.lc \in Lcs, Placed(r)
  PROVE  Whole(r, c)
<1>1. SameEnemies(m, r)
  BY DEF Apart, SameEnemies, Known
<1>2. Listed(r, c)
  BY DEF Apart, Listed, Whole, Typed, Known
<1>3. Best(r) = Best(m)
  BY <1>1, BestSame DEF Whole, Typed
<1>4. QED
  BY <1>2, <1>3 DEF Whole, Typed, Ranked, Apart, Known

(* recompute_boss ranks. *)
LEMMA RecomputeWhole ==
  ASSUME NEW m, NEW c, Typed(m, c)
  PROVE  /\ Whole(Recompute(m), c) /\ Recompute(m).boss = Best(m)
         /\ Recompute(m).lc = m.lc /\ Recompute(m).enemies = m.enemies
         /\ Recompute(m).deaths = m.deaths /\ Recompute(m).last_event = m.last_event
<1> DEFINE r == Recompute(m)
<1>1. r = [m EXCEPT !.boss = Best(m)]
  BY DEF Recompute, Best, Top, Rival
<1>2. /\ DOMAIN r = DOMAIN NewMeter /\ r.boss = Best(m) /\ r.lc = m.lc /\ r.scene = m.scene
      /\ r.dungeon = m.dungeon /\ r.open = m.open /\ r.done = m.done /\ r.first = m.first
      /\ r.current = m.current /\ r.finish = m.finish /\ r.last_event = m.last_event
      /\ r.enemies = m.enemies /\ r.deaths = m.deaths
  BY <1>1, Zenon DEF Typed, NewMeter
<1> HIDE DEF r
<1>3. Listed(r, c) /\ SameEnemies(m, r)
  BY <1>2 DEF Listed, Typed, SameEnemies, Known
<1>4. Best(r) = Best(m) /\ Best(m) \in Entities \cup {NONE}
  BY <1>3, BestSame, BestIsKnown DEF Typed, Listed
<1>5. Placed(r)
  BY <1>2, <1>4 DEF Typed, Placed
<1>6. QED
  BY <1>2, <1>3, <1>4, <1>5 DEF Whole, Typed, Ranked, r

---------------------------------------------------------------------------
(* The transitions of the lifecycle keep its type. *)
LEMMA LifecyclesKept ==
  ASSUME NEW l \in Lcs, NEW start \in Nat, NEW end \in Nat \cup {NONE},
         NEW observed \in Nat \cup {NONE}, NEW cause \in Causes, NEW armed \in Mons \cup {NONE}
  PROVE  /\ Start(l, start) \in Lcs /\ End(l, end, observed, cause, armed) \in Lcs
         /\ Resume(l) \in Lcs /\ Hold(l) \in Lcs /\ ReleaseHold(l) \in Lcs
         /\ Arm(l, armed) \in Lcs /\ Disarm(l) \in Lcs
<1>1. Start(l, start) \in Lcs /\ Resume(l) \in Lcs
  BY DEF Lcs, Lifecycles, Start, Resume, Running
<1>2. End(l, end, observed, cause, armed) \in Lcs
  BY DEF Lcs, Lifecycles, End
<1>3. Hold(l) \in Lcs /\ ReleaseHold(l) \in Lcs
  BY DEF Lcs, Lifecycles, Hold, ReleaseHold
<1>4. Arm(l, armed) \in Lcs /\ Disarm(l) \in Lcs
  BY DEF Lcs, Lifecycles, Arm, Disarm
<1>5. QED
  BY <1>1, <1>2, <1>3, <1>4

(* No fight is a fight's type.                                             *)
LEMMA IdleTyped == Idle \in Lcs
BY DEF Idle, Lcs, Lifecycles

(* The monsters a meter names are monsters. *)
LEMMA NamesTyped ==
  ASSUME NEW m, NEW c, Typed(m, c), NEW e
  PROVE  MonAt(m, e) \in Mons \cup {NONE} /\ EngagedBossMon(m) \in Mons \cup {NONE}
BY DEF Typed, Listed, Enemy, MonAt, EngagedBossMon

---------------------------------------------------------------------------
(* The fight changes. *)
LEMMA SetLcWhole ==
  ASSUME NEW m, NEW c, Whole(m, c), NEW l \in Lcs
  PROVE  Whole([m EXCEPT !.lc = l], c)
<1> DEFINE r == [m EXCEPT !.lc = l]
<1>1. /\ DOMAIN r = DOMAIN NewMeter /\ r.enemies = m.enemies /\ r.deaths = m.deaths
      /\ r.boss = m.boss /\ r.lc = l /\ r.scene = m.scene /\ r.dungeon = m.dungeon
      /\ r.open = m.open /\ r.done = m.done /\ r.first = m.first
      /\ r.current = m.current /\ r.finish = m.finish /\ r.last_event = m.last_event
  BY Zenon DEF Whole, Typed, NewMeter
<1> HIDE DEF r
<1>2. r.lc \in Lcs /\ Placed(r) /\ Apart(m, r)
  BY <1>1 DEF Whole, Typed, Placed, Apart
<1>3. QED
  BY <1>2, ApartWhole DEF r

(* Rows change. *)
LEMMA SetPlayersWhole ==
  ASSUME NEW m, NEW c, Whole(m, c), NEW ps
  PROVE  Whole([m EXCEPT !.players = ps], c)
<1> DEFINE r == [m EXCEPT !.players = ps]
<1>1. /\ DOMAIN r = DOMAIN NewMeter /\ r.enemies = m.enemies /\ r.deaths = m.deaths
      /\ r.boss = m.boss /\ r.lc = m.lc /\ r.scene = m.scene /\ r.dungeon = m.dungeon
      /\ r.open = m.open /\ r.done = m.done /\ r.first = m.first
      /\ r.current = m.current /\ r.finish = m.finish /\ r.last_event = m.last_event
  BY Zenon DEF Whole, Typed, NewMeter
<1> HIDE DEF r
<1>2. r.lc \in Lcs /\ Placed(r) /\ Apart(m, r)
  BY <1>1 DEF Whole, Typed, Placed, Apart
<1>3. QED
  BY <1>2, ApartWhole DEF r

(* A completion is held, or no more. *)
LEMMA SetFinishWhole ==
  ASSUME NEW m, NEW c, Whole(m, c), NEW b \in BOOLEAN
  PROVE  Whole([m EXCEPT !.finish = b], c)
<1> DEFINE r == [m EXCEPT !.finish = b]
<1>1. /\ DOMAIN r = DOMAIN NewMeter /\ r.enemies = m.enemies /\ r.deaths = m.deaths
      /\ r.boss = m.boss /\ r.lc = m.lc /\ r.scene = m.scene /\ r.dungeon = m.dungeon
      /\ r.open = m.open /\ r.done = m.done /\ r.first = m.first
      /\ r.current = m.current /\ r.finish = b /\ r.last_event = m.last_event
  BY Zenon DEF Whole, Typed, NewMeter
<1> HIDE DEF r
<1>2. r.lc \in Lcs /\ Placed(r) /\ Apart(m, r)
  BY <1>1 DEF Whole, Typed, Placed, Apart
<1>3. QED
  BY <1>2, ApartWhole DEF r

(* The scene changes. *)
LEMMA SetSceneWhole ==
  ASSUME NEW m, NEW c, Whole(m, c), NEW s \in Scenes \cup {NONE}
  PROVE  Whole([m EXCEPT !.scene = s], c)
<1> DEFINE r == [m EXCEPT !.scene = s]
<1>1. /\ DOMAIN r = DOMAIN NewMeter /\ r.enemies = m.enemies /\ r.deaths = m.deaths
      /\ r.boss = m.boss /\ r.lc = m.lc /\ r.scene = s /\ r.dungeon = m.dungeon
      /\ r.open = m.open /\ r.done = m.done /\ r.first = m.first
      /\ r.current = m.current /\ r.finish = m.finish /\ r.last_event = m.last_event
  BY Zenon DEF Whole, Typed, NewMeter
<1> HIDE DEF r
<1>2. r.lc \in Lcs /\ Placed(r) /\ Apart(m, r)
  BY <1>1 DEF Whole, Typed, Placed, Apart
<1>3. QED
  BY <1>2, ApartWhole DEF r

(* The run's state changes. *)
LEMMA SetDungeonWhole ==
  ASSUME NEW m, NEW c, Whole(m, c), NEW d \in {"none", "running", "terminal"}
  PROVE  Whole([m EXCEPT !.dungeon = d], c)
<1> DEFINE r == [m EXCEPT !.dungeon = d]
<1>1. /\ DOMAIN r = DOMAIN NewMeter /\ r.enemies = m.enemies /\ r.deaths = m.deaths
      /\ r.boss = m.boss /\ r.lc = m.lc /\ r.scene = m.scene /\ r.dungeon = d
      /\ r.open = m.open /\ r.done = m.done /\ r.first = m.first
      /\ r.current = m.current /\ r.finish = m.finish /\ r.last_event = m.last_event
  BY Zenon DEF Whole, Typed, NewMeter
<1> HIDE DEF r
<1>2. r.lc \in Lcs /\ Placed(r) /\ Apart(m, r)
  BY <1>1 DEF Whole, Typed, Placed, Apart
<1>3. QED
  BY <1>2, ApartWhole DEF r

(* Forgetting the dungeon leaves the enemies alone.                        *)
LEMMA ClearDungeonWhole ==
  ASSUME NEW m, NEW c, Whole(m, c) PROVE Whole(ClearDungeon(m), c)
<1> DEFINE r == ClearDungeon(m)
<1>1. /\ DOMAIN r = DOMAIN NewMeter /\ r.enemies = m.enemies /\ r.deaths = m.deaths
      /\ r.boss = m.boss /\ r.lc = m.lc /\ r.scene = m.scene /\ r.dungeon = "none"
      /\ r.open = {} /\ r.done = {} /\ r.first = NONE /\ r.current = NONE
      /\ r.finish = FALSE /\ r.last_event = m.last_event
  BY Zenon DEF ClearDungeon, Whole, Typed, NewMeter
<1> HIDE DEF r
<1>2. r.lc \in Lcs /\ Placed(r) /\ Apart(m, r)
  BY <1>1 DEF Whole, Typed, Placed, Apart
<1>3. QED
  BY <1>2, ApartWhole DEF r

(* No enemies: no boss to rank. *)
LEMMA ClearEnemiesWhole ==
  ASSUME NEW m, NEW c, Typed(m, c), NEW b \in {m.boss, NONE}, NEW l \in Lcs
  PROVE  Whole(ClearEnemies(m), c) /\ Whole([ClearEnemies(m) EXCEPT !.boss = b, !.lc = l], c)
<1>0. ASSUME NEW r, DOMAIN r = DOMAIN NewMeter, r.enemies = <<>>, r.deaths = <<>>, r.lc \in Lcs,
             Placed(r)
      PROVE  Whole(r, c)
  <2>1. Known(r) = {} /\ IsFiniteSet({}) /\ <<>> \in Seq({})
    BY <1>0, FS_EmptySet DEF Known
  <2>2. Listed(r, c)
    BY <1>0, <2>1 DEF Listed, Ordered
  <2>3. QED
    BY <1>0, <2>1, <2>2 DEF Whole, Typed, Ranked
<1> DEFINE q == ClearEnemies(m)
           r == [q EXCEPT !.boss = b, !.lc = l]
<1>1. /\ DOMAIN q = DOMAIN NewMeter /\ q.enemies = <<>> /\ q.deaths = <<>>
      /\ q.boss = m.boss /\ q.lc = m.lc /\ q.scene = m.scene /\ q.dungeon = m.dungeon
      /\ q.open = m.open /\ q.done = m.done /\ q.first = m.first
      /\ q.current = m.current /\ q.finish = m.finish /\ q.last_event = m.last_event
  BY Zenon DEF ClearEnemies, Typed, NewMeter
<1> HIDE DEF q
<1>2. /\ DOMAIN r = DOMAIN NewMeter /\ r.enemies = q.enemies /\ r.deaths = q.deaths
      /\ r.boss = b /\ r.lc = l /\ r.scene = q.scene /\ r.dungeon = q.dungeon
      /\ r.open = q.open /\ r.done = q.done /\ r.first = q.first
      /\ r.current = q.current /\ r.finish = q.finish /\ r.last_event = q.last_event
  BY <1>1, Zenon DEF NewMeter
<1> HIDE DEF r
<1>3. Placed(q) /\ Placed(r)
  BY <1>1, <1>2 DEF Typed, Placed
<1>4. Whole(q, c)
  BY <1>0, <1>1, <1>3 DEF Typed
<1>5. Whole(r, c)
  BY <1>0, <1>1, <1>2, <1>3
<1>6. QED
  BY <1>4, <1>5 DEF q, r

(* latch_fight_end. *)
LEMMA LatchWhole ==
  ASSUME NEW m, NEW c, Whole(m, c), NEW cause \in Causes, NEW end \in Nat \cup {NONE},
         NEW observed \in Nat \cup {NONE}
  PROVE  /\ Whole(Latch(m, cause, end, observed), c)
         /\ Apart(m, Latch(m, cause, end, observed))
<1> DEFINE a == IF cause = "idle_timeout" THEN EngagedBossMon(m) ELSE NONE
           l == End(m.lc, end, observed, cause, a)
<1>1. Latch(m, cause, end, observed) = [m EXCEPT !.lc = l]
  BY Zenon DEF Latch, Whole, Typed, NewMeter
<1>2. a \in Mons \cup {NONE} /\ m.lc \in Lcs
  BY NamesTyped DEF Whole, Typed
<1> HIDE DEF a
<1>3. l \in Lcs
  <2>1. 0 \in Nat
    OBVIOUS
  <2>2. QED
    BY <1>2, <2>1, LifecyclesKept
<1> HIDE DEF l
<1>4. Apart(m, [m EXCEPT !.lc = l])
  BY Zenon DEF Apart, Whole, Typed, NewMeter
<1>5. QED
  BY <1>1, <1>3, <1>4, SetLcWhole

(* The idle end. *)
LEMMA PinWhole ==
  ASSUME NEW m, NEW c, Whole(m, c), NEW t \in Nat
  PROVE  Whole(Pin(m, t), c) /\ Apart(m, Pin(m, t))
<1>1. EndedAt(m, t) \in Nat \cup {NONE}
  BY DEF Whole, Typed, Placed, Lcs, Lifecycles, EndedAt
<1>2. Apart(m, m)
  BY DEF Apart, Whole, Typed
<1>3. \A end \in Nat \cup {NONE} : /\ Whole(Latch(m, "idle_timeout", end, t), c)
                                     /\ Apart(m, Latch(m, "idle_timeout", end, t))
  BY LatchWhole DEF Causes
<1>4. QED
  BY <1>1, <1>2, <1>3, Zenon DEF Pin

(* reset ranks what it leaves of the enemies. *)
LEMMA ResetWhole ==
  ASSUME NEW m, NEW c, Typed(m, c), NEW t, NEW reason PROVE Whole(Reset(m, t, reason), c)
<1> DEFINE E == [e \in DOMAIN m.enemies |->
                   [m.enemies[e] EXCEPT !.dipped = FALSE, !.damaged = FALSE]]
           r == [m EXCEPT
                   !.saved = IF IsEnded(m) THEN [lc |-> m.lc, rows |-> Fighters(m)] ELSE Nothing,
                   !.players = [p \in Players |-> "absent"],
                   !.enemies = [e \in DOMAIN @ |-> [@[e] EXCEPT !.dipped = FALSE,
                                                                !.damaged = FALSE]],
                   !.lc = Idle, !.finish = FALSE, !.last_reset = t, !.reason = reason]
<1>1. /\ DOMAIN r = DOMAIN NewMeter /\ r.enemies = E /\ r.deaths = m.deaths
      /\ r.boss = m.boss /\ r.lc = Idle /\ r.scene = m.scene /\ r.dungeon = m.dungeon
      /\ r.open = m.open /\ r.done = m.done /\ r.first = m.first
      /\ r.current = m.current /\ r.finish = FALSE /\ r.last_event = m.last_event
  BY Zenon DEF Typed, NewMeter
<1>2. Reset(m, t, reason) = Recompute(r)
  BY Zenon DEF Reset
<1> HIDE DEF r
<1>3. Known(r) = Known(m) /\ \A e \in Known(m) : E[e] \in Enemy(c)
  BY <1>1 DEF Known, Typed, Listed, Enemy
<1> HIDE DEF E
<1>4. Listed(r, c)
  BY <1>1, <1>3 DEF Listed, Typed
<1>5. Placed(r)
  BY <1>1 DEF Placed, Typed
<1>6. Typed(r, c)
  BY <1>1, <1>4, <1>5, IdleTyped DEF Typed
<1>7. QED
  BY <1>2, <1>6, RecomputeWhole

(* The rows, the holds and the ends. *)
LEMMA RowsWhole ==
  ASSUME NEW m, NEW c, Whole(m, c), NEW p
  PROVE  /\ Whole(PruneStalePreloads(m), c) /\ Whole(RecordDeath(m, p), c)
         /\ Whole(StandUp(m, p), c) /\ Whole(Accumulate(m, p), c)
         /\ Whole(ReleaseHoldIfRecovered(m), c)
<1>0. DOMAIN m = DOMAIN NewMeter
  BY DEF Whole, Typed
<1>1. \E ps : PruneStalePreloads(m) = [m EXCEPT !.players = ps]
  BY DEF PruneStalePreloads
<1>2. \E ps : RecordDeath(m, p) = [m EXCEPT !.players = ps]
  BY <1>0, Zenon DEF RecordDeath, NewMeter
<1>3. \E ps : StandUp(m, p) = [m EXCEPT !.players = ps]
  BY <1>0, Zenon DEF StandUp, NewMeter
<1>4. \E ps : Accumulate(m, p) = [m EXCEPT !.players = ps]
  BY <1>0, Zenon DEF Accumulate, NewMeter
<1>5. Whole(ReleaseHoldIfRecovered(m), c)
  <2>1. ReleaseHold(m.lc) \in Lcs
    BY LifecyclesKept DEF Whole, Typed, Causes
  <2>2. [m EXCEPT !.lc = ReleaseHold(@)] = [m EXCEPT !.lc = ReleaseHold(m.lc)]
    BY <1>0, Zenon
  <2>3. QED
    BY <2>1, <2>2, SetLcWhole DEF ReleaseHoldIfRecovered
<1>6. QED
  BY <1>1, <1>2, <1>3, <1>4, <1>5, SetPlayersWhole

---------------------------------------------------------------------------
(* So does arming for the next phase.                                      *)
LEMMA ArmedWhole ==
  ASSUME NEW m, NEW c, Whole(m, c), NEW mon \in Mons \cup {NONE}
  PROVE  /\ Whole([m EXCEPT !.lc = Arm(@, mon)], c) /\ Whole([m EXCEPT !.lc = Hold(@)], c)
         /\ Whole([m EXCEPT !.lc = Resume(@)], c) /\ Whole([m EXCEPT !.lc = Disarm(@)], c)
         /\ Whole([m EXCEPT !.lc = ReleaseHold(@)], c)
         /\ Whole([m EXCEPT !.lc = ReleaseHold(Disarm(@))], c)
<1>1. ASSUME NEW l \in Lcs
      PROVE  /\ Arm(l, mon) \in Lcs /\ Hold(l) \in Lcs /\ Resume(l) \in Lcs /\ Disarm(l) \in Lcs
             /\ ReleaseHold(l) \in Lcs
  <2>1. 0 \in Nat /\ "wipe" \in Causes
    BY DEF Causes
  <2>2. QED
    BY <2>1, LifecyclesKept
<1>2. m.lc \in Lcs
  BY DEF Whole, Typed
<1>3. ReleaseHold(Disarm(m.lc)) \in Lcs
  BY <1>1, <1>2
<1>4. \A l \in Lcs : Whole([m EXCEPT !.lc = l], c)
  BY SetLcWhole
<1>5. QED
  BY <1>1, <1>2, <1>3, <1>4

(* The ends a kill, a held completion and a wipe latch leave the enemies   *)
(* alone.                                                                  *)
LEMMA EndsWhole ==
  ASSUME NEW m, NEW c, Whole(m, c), NEW e, NEW t \in Nat
  PROVE  /\ Whole(EndFightOnBossDeath(m, e, t), c) /\ Whole(EndFightOnHeldFinish(m, t), c)
         /\ Whole(CompletionSignal(m), c) /\ Whole(LatchWipeIfPartyDown(m, t), c)
         /\ Whole([Latch(m, "wipe", t, t) EXCEPT !.lc = Hold(@)], c)
<1>1. MonAt(m, e) \in Mons \cup {NONE} /\ MonAt(m, m.boss) \in Mons \cup {NONE}
  BY NamesTyped DEF Whole
<1>2. m.last_event \in Nat /\ t \in Nat \cup {NONE} /\ m.last_event \in Nat \cup {NONE}
  BY DEF Whole, Typed, Placed
<1>3. /\ Whole(Latch(m, "boss_death", t, t), c) /\ Whole(Latch(m, "dungeon_ended", t, t), c)
      /\ Whole(Latch(m, "wipe", t, t), c)
      /\ Whole(Latch(m, "dungeon_ended", m.last_event, m.last_event), c)
  BY <1>2, LatchWhole DEF Causes
<1>4. Whole([Latch(m, "wipe", t, t) EXCEPT !.lc = Hold(@)], c)
  BY <1>1, <1>3, ArmedWhole
<1>5. /\ Whole([Latch(m, "boss_death", t, t) EXCEPT !.lc = Arm(@, MonAt(m, e))], c)
      /\ Whole([Latch(m, "dungeon_ended", t, t) EXCEPT !.lc = Arm(@, MonAt(m, m.boss))], c)
  BY <1>1, <1>3, ArmedWhole
<1>6. Whole([m EXCEPT !.finish = TRUE], c)
  BY SetFinishWhole
<1>7. Whole(EndFightOnBossDeath(m, e, t), c)
  BY <1>3, <1>5, Zenon DEF EndFightOnBossDeath
<1>8. Whole(EndFightOnHeldFinish(m, t), c)
  BY <1>3, <1>5, Zenon DEF EndFightOnHeldFinish
<1>9. Whole(CompletionSignal(m), c)
  BY <1>3, <1>6, Zenon DEF CompletionSignal
<1>10. Whole(LatchWipeIfPartyDown(m, t), c)
  BY <1>4, Zenon DEF LatchWipeIfPartyDown
<1>11. QED
  BY <1>4, <1>7, <1>8, <1>9, <1>10

---------------------------------------------------------------------------
(* The enemies. *)

(* An enemy is put on the board. *)
LEMMA PutEnemyTyped ==
  ASSUME NEW m, NEW c, Typed(m, c), NEW e \in Entities, NEW enemy \in Enemy(c)
  PROVE  /\ Typed(PutEnemy(m, e, enemy), c)
         /\ Known(PutEnemy(m, e, enemy)) = Known(m) \cup {e}
<1> DEFINE E == [x \in Known(m) \cup {e} |-> IF x = e THEN enemy ELSE m.enemies[x]]
           r == PutEnemy(m, e, enemy)
<1>1. /\ DOMAIN r = DOMAIN NewMeter /\ r.enemies = E /\ r.deaths = m.deaths /\ r.boss = m.boss
      /\ r.lc = m.lc /\ r.scene = m.scene /\ r.dungeon = m.dungeon /\ r.open = m.open
      /\ r.done = m.done /\ r.first = m.first /\ r.current = m.current
      /\ r.finish = m.finish /\ r.last_event = m.last_event
  BY Zenon DEF PutEnemy, Typed, NewMeter
<1> HIDE DEF r
<1>2. Known(r) = Known(m) \cup {e} /\ \A x \in Known(r) : r.enemies[x] \in Enemy(c)
  BY <1>1 DEF Known, Typed, Listed
<1> HIDE DEF E
<1>3. IsFiniteSet(Known(r))
  BY <1>2, FS_AddElement DEF Typed, Listed
<1>4. Ordered(r.deaths, Known(r))
  <2> DEFINE K == Known(m)
             L == Known(r)
             D == m.deaths
  <2>1. D \in Seq(K) /\ K \subseteq L
    BY <1>2 DEF Typed, Listed, Ordered
  <2> HIDE DEF K, L, D
  <2>2. D \in Seq(L)
    BY <2>1
  <2>3. QED
    BY <1>1, <2>2 DEF Typed, Listed, Ordered, D, L
<1>5. Placed(r)
  BY <1>1 DEF Typed, Placed
<1>6. QED
  BY <1>1, <1>2, <1>3, <1>4, <1>5 DEF Typed, Listed, r

(* The death order changes. *)
LEMMA SetDeathsTyped ==
  ASSUME NEW m, NEW c, Typed(m, c), NEW D, Ordered(D, Known(m))
  PROVE  /\ Typed([m EXCEPT !.deaths = D], c)
         /\ Known([m EXCEPT !.deaths = D]) = Known(m)
<1> DEFINE r == [m EXCEPT !.deaths = D]
<1>1. /\ DOMAIN r = DOMAIN NewMeter /\ r.enemies = m.enemies /\ r.deaths = D
      /\ r.boss = m.boss /\ r.lc = m.lc /\ r.scene = m.scene /\ r.dungeon = m.dungeon
      /\ r.open = m.open /\ r.done = m.done /\ r.first = m.first /\ r.current = m.current
      /\ r.finish = m.finish /\ r.last_event = m.last_event
  BY Zenon DEF Typed, NewMeter
<1> HIDE DEF r
<1>2. Listed(r, c) /\ Known(r) = Known(m)
  BY <1>1 DEF Listed, Typed, Known
<1>3. Placed(r)
  BY <1>1 DEF Typed, Placed
<1>4. QED
  BY <1>1, <1>2, <1>3 DEF Typed, r

(* A death is noted once, at the end of the order.                         *)
LEMMA MarkDeadTyped ==
  ASSUME NEW m, NEW c, Typed(m, c), NEW e
  PROVE  Typed(MarkDead(m, e), c) /\ Known(MarkDead(m, e)) = Known(m)
<1> DEFINE D == m.deaths
           K == Known(m)
<1>1. D \in Seq(K) /\ \A i, j \in DOMAIN D : D[i] = D[j] => i = j
  BY DEF Typed, Listed, Ordered
<1>2. CASE e \in K /\ e \notin Range(D)
  <2>1. \A i \in DOMAIN D : D[i] # e
    BY <1>2 DEF Range
  <2> HIDE DEF D, K
  <2>2. /\ Append(D, e) \in Seq(K) /\ DOMAIN Append(D, e) = 1 .. Len(D) + 1
        /\ Append(D, e)[Len(D) + 1] = e /\ \A i \in 1 .. Len(D) : Append(D, e)[i] = D[i]
        /\ DOMAIN D = 1 .. Len(D) /\ Len(D) \in Nat
    BY <1>1, <1>2
  <2>3. Ordered(Append(D, e), K)
    <3> DEFINE A == Append(D, e)
               n == Len(D)
    <3>1. /\ DOMAIN A = 1 .. n + 1 /\ A[n + 1] = e /\ n \in Nat
          /\ \A i \in 1 .. n : A[i] = D[i] /\ A[i] # e
      BY <2>1, <2>2
    <3>2. \A i, j \in 1 .. n : A[i] = A[j] => i = j
      BY <1>1, <2>2
    <3> HIDE DEF A, n
    <3>3. \A i \in 1 .. n + 1 : i \in 1 .. n \/ i = n + 1
      BY <3>1
    <3>4. \A i, j \in DOMAIN A : A[i] = A[j] => i = j
      BY <3>1, <3>2, <3>3
    <3>5. QED
      BY <2>2, <3>4 DEF Ordered, A
  <2>4. MarkDead(m, e) = [m EXCEPT !.deaths = Append(D, e)]
    BY <1>2, Zenon DEF MarkDead, D, K
  <2>5. QED
    BY <2>3, <2>4, SetDeathsTyped DEF K
<1>3. CASE ~ (e \in K /\ e \notin Range(D))
  BY <1>3 DEF MarkDead
<1>4. QED
  BY <1>2, <1>3

(* A death taken back leaves the others in order.                          *)
LEMMA UnrankedOrdered ==
  ASSUME NEW m, NEW c, Typed(m, c), NEW e
  PROVE  Ordered(Unranked(m, e), Known(m))
<1> DEFINE D == m.deaths
           K == Known(m)
           i == DiedAt(m, e)
<1>1. D \in Seq(K) /\ (\A x, y \in DOMAIN D : D[x] = D[y] => x = y)
  BY DEF Typed, Listed, Ordered
<1>2. CASE e \in Range(D)
  <2>1. \E x \in DOMAIN D : D[x] = e
    BY <1>2 DEF Range
  <2>2. i \in DOMAIN D
    BY <1>2, <2>1 DEF DiedAt
  <2>3. Unranked(m, e) = RemoveAt(D, i)
    BY <1>2 DEF Unranked
  <2> HIDE DEF D, K, i
  <2> DEFINE A == SubSeq(D, 1, i - 1)
             B == SubSeq(D, i + 1, Len(D))
             n == Len(D)
             R == A \o B
  <2>4. n \in Nat /\ DOMAIN D = 1 .. n /\ i \in 1 .. n /\ i \in Nat
    BY <1>1, <2>2
  <2>5. A \in Seq(K) /\ Len(A) = i - 1 /\ (\A x \in 1 .. i - 1 : A[x] = D[x])
    BY <1>1, <2>4
  <2>6. B \in Seq(K) /\ Len(B) = n - i /\ (\A x \in 1 .. n - i : B[x] = D[x + i])
    <3>1. i + 1 \in Int /\ n \in Int /\ \A x \in i + 1 .. n : D[x] \in K
      BY <1>1, <2>4
    <3>2. /\ B \in Seq(K) /\ Len(B) = IF i + 1 <= n THEN n - (i + 1) + 1 ELSE 0
          /\ \A x \in 1 .. n - (i + 1) + 1 : B[x] = D[(i + 1) + x - 1]
      BY <3>1, SubSeqProperties
    <3> HIDE DEF B, n
    <3>3. n - (i + 1) + 1 = n - i /\ (~ (i + 1 <= n) => n - i = 0)
      BY <2>4
    <3>4. \A x \in 1 .. n - i : (i + 1) + x - 1 = x + i
      BY <2>4
    <3>5. QED
      BY <3>2, <3>3, <3>4
  <2> HIDE DEF A, B, n
  <2>7. R \in Seq(K) /\ DOMAIN R = 1 .. n - 1
    BY <2>4, <2>5, <2>6
  <2>8. /\ \A x \in 1 .. n - 1 : x < i => R[x] = D[x]
        /\ \A x \in 1 .. n - 1 : x >= i => R[x] = D[x + 1]
    <3>1. \A x \in 1 .. (i - 1) + (n - i) : R[x] = IF x <= i - 1 THEN A[x] ELSE B[x - (i - 1)]
      BY <2>5, <2>6, ConcatProperties
    <3>2. (i - 1) + (n - i) = n - 1
      BY <2>4
    <3> HIDE DEF R
    <3>3. ASSUME NEW x \in 1 .. n - 1, x < i PROVE R[x] = D[x]
      BY <2>4, <2>5, <3>1, <3>2, <3>3
    <3>4. ASSUME NEW x \in 1 .. n - 1, x >= i PROVE R[x] = D[x + 1]
      <4>1. x - (i - 1) \in 1 .. n - i /\ (x - (i - 1)) + i = x + 1 /\ ~ (x <= i - 1)
        BY <2>4, <3>4
      <4>2. QED
        BY <2>6, <3>1, <3>2, <4>1
    <3>5. QED
      BY <3>3, <3>4
  <2> HIDE DEF R
  <2>9. ASSUME NEW x \in 1 .. n - 1, NEW y \in 1 .. n - 1, R[x] = R[y] PROVE x = y
    BY <1>1, <2>4, <2>8, <2>9
  <2>10. Ordered(R, K)
    BY <2>7, <2>9 DEF Ordered
  <2>11. QED
    BY <2>3, <2>10 DEF RemoveAt, R, A, B, K, n
<1>3. CASE e \notin Range(D)
  BY <1>3 DEF Unranked, Typed, Listed
<1>4. QED
  BY <1>2, <1>3

---------------------------------------------------------------------------
(* A hit on an enemy. *)
LEMMA StrikeWhole ==
  ASSUME NEW m, NEW c \in Nat, Whole(m, c), NEW d, d.to \in Entities
  PROVE  Whole(Strike(m, d, c), c)
<1> DEFINE e == d.to
           old == IF e \in Known(m) THEN m.enemies[e] ELSE Unknown
           enemy == [old EXCEPT !.damaged = TRUE, !.last = IF c > @ THEN c ELSE @]
           hit == PutEnemy(m, e, enemy)
           marked == IF d.dead THEN MarkDead(hit, e) ELSE hit
           seen == Recompute(marked)
           ended == IF m.boss = e THEN EndFightOnBossDeath(seen, e, c) ELSE seen
<1>1. Strike(m, d, c) = IF EndOnBossDeath /\ d.dead THEN EndFightOnHeldFinish(ended, c)
                        ELSE seen
  BY Zenon DEF Strike
<1>2. enemy \in Enemy(c)
  <2>1. old \in Enemy(c)
    BY DEF Whole, Typed, Listed, Unknown, Enemy, NONE
  <2> HIDE DEF old
  <2> DEFINE last == IF c > old.last THEN c ELSE old.last
  <2>2. last \in (0 .. c) \cup {NONE}
    <3>1. old.last \in (0 .. c) \cup {NONE}
      BY <2>1 DEF Enemy
    <3>2. QED
      BY <3>1 DEF NONE
  <2>3. enemy = [old EXCEPT !.damaged = TRUE, !.last = last]
    OBVIOUS
  <2> HIDE DEF last, enemy
  <2>4. QED
    BY <2>1, <2>2, <2>3 DEF Enemy
<1> HIDE DEF enemy
<1>3. Typed(hit, c)
  BY <1>2, PutEnemyTyped DEF Whole
<1> HIDE DEF hit
<1>4. Typed(marked, c)
  BY <1>3, MarkDeadTyped
<1> HIDE DEF marked
<1>5. Whole(seen, c)
  BY <1>4, RecomputeWhole
<1> HIDE DEF seen
<1>6. Whole(ended, c)
  BY <1>5, EndsWhole
<1> HIDE DEF ended
<1>7. Whole(EndFightOnHeldFinish(ended, c), c)
  BY <1>6, EndsWhole
<1>8. QED
  BY <1>1, <1>5, <1>7

(* A hit opens the fight and stamps it. *)
LEMMA CreditWhole ==
  ASSUME NEW m, NEW c \in Nat, Whole(m, c), NEW d
  PROVE  Whole(Credit(m, d, c), c)
<1> DEFINE last == IF c > m.last_event THEN c ELSE m.last_event
           l == Start(m.lc, c)
           r == [m EXCEPT !.last_event = IF c > @ THEN c ELSE @, !.lc = Start(@, c)]
           live == Accumulate(r, d.by)
<1>0. Credit(m, d, c) =
        IF m.lc.st = "idle" /\ EndOnBossDeath /\ d.dead /\ d.to \in Entities /\ m.boss = d.to
        THEN EndFightOnBossDeath(live, d.to, c) ELSE live
  BY Zenon DEF Credit
<1>1. /\ DOMAIN r = DOMAIN NewMeter /\ r.enemies = m.enemies /\ r.deaths = m.deaths
      /\ r.boss = m.boss /\ r.lc = l /\ r.scene = m.scene /\ r.dungeon = m.dungeon
      /\ r.open = m.open /\ r.done = m.done /\ r.first = m.first /\ r.current = m.current
      /\ r.finish = m.finish /\ r.last_event = last
  BY Zenon DEF Whole, Typed, NewMeter
<1>2. l \in Lcs
  <2>1. 0 \in Nat /\ "wipe" \in Causes
    BY DEF Causes
  <2>2. QED
    BY <2>1, LifecyclesKept DEF Whole, Typed
<1>3. last \in Nat
  BY DEF Whole, Typed, Placed
<1> HIDE DEF r, l, last
<1>4. Placed(r) /\ Apart(m, r)
  BY <1>1, <1>3 DEF Whole, Typed, Placed, Apart
<1>5. Whole(live, c)
  <2>1. Whole(r, c)
    BY <1>1, <1>2, <1>4, ApartWhole
  <2>2. QED
    BY <2>1, RowsWhole
<1> HIDE DEF live
<1>6. QED
  BY <1>0, <1>5, EndsWhole

(* All a hit does once its fight runs: it ranks anew, or leaves the        *)
(* enemies alone.                                                          *)
LEMMA LandWhole ==
  ASSUME NEW m, NEW c \in Nat, Whole(m, c), NEW d
  PROVE  Whole(Land(m, d, c), c)
<1> DEFINE acting == IF d.by \in Players THEN StandUp(m, d.by) ELSE m
           fell == IF d.dead /\ d.to \in Players
                   THEN LatchWipeIfPartyDown(RecordDeath(acting, d.to), c) ELSE acting
           struck == IF d.to \in Entities /\ ~ d.heal THEN Strike(fell, d, c) ELSE fell
<1>0. Land(m, d, c) = IF PlayerHit(d) THEN Credit(struck, d, c) ELSE struck
  BY Zenon DEF Land
<1>1. Whole(acting, c)
  BY RowsWhole
<1> HIDE DEF acting
<1>2. Whole(RecordDeath(acting, d.to), c)
  BY <1>1, RowsWhole
<1>3. Whole(fell, c)
  BY <1>1, <1>2, EndsWhole
<1> HIDE DEF fell
<1>4. Whole(struck, c)
  BY <1>3, StrikeWhole
<1> HIDE DEF struck
<1>5. QED
  BY <1>0, <1>4, CreditWhole

(* A hit, whatever it does to the fight it finds.                          *)
LEMMA ApplyDamageWhole ==
  ASSUME NEW m, NEW c \in Nat, Whole(m, c), NEW d
  PROVE  Whole(ApplyDamage(m, d, c), c)
<1> DEFINE pinned == Pin(m, c)
           resumed == [pinned EXCEPT !.lc = Resume(@)]
           held == IF ResumesHeldFight(pinned, d, c) THEN resumed ELSE pinned
           erased == Reset(held, c, "new_fight")
           open == IF /\ IsEnded(held) /\ PlayerHit(d)
                      /\ ~ WithholdsNewFight(held, d, c)
                      /\ ~ WithholdsAfterWipe(held, d, c)
                      /\ ~ InPostEndGrace(held, d, c)
                   THEN erased ELSE held
<1>0. ApplyDamage(m, d, c) =
        IF ~ IsEnded(open) THEN Land(open, d, c)
        ELSE IF InPostEndGrace(open, d, c) /\ PlayerHit(d) THEN Accumulate(open, d.by)
        ELSE open
  BY Zenon DEF ApplyDamage
<1>1. Whole(pinned, c)
  BY PinWhole
<1> HIDE DEF pinned
<1>2. Whole(resumed, c)
  <2>1. NONE \in Mons \cup {NONE}
    OBVIOUS
  <2>2. QED
    BY <1>1, <2>1, ArmedWhole
<1> HIDE DEF resumed
<1>3. Whole(held, c)
  BY <1>1, <1>2
<1> HIDE DEF held
<1>4. Whole(erased, c)
  BY <1>3, ResetWhole DEF Whole
<1> HIDE DEF erased
<1>5. Whole(open, c)
  BY <1>3, <1>4
<1> HIDE DEF open
<1>6. Whole(Land(open, d, c), c) /\ Whole(Accumulate(open, d.by), c)
  BY <1>5, LandWhole, RowsWhole
<1>7. QED
  BY <1>0, <1>5, <1>6

---------------------------------------------------------------------------
(* A packet about an enemy. *)
LEMMA ObserveTyped ==
  ASSUME NEW m, NEW c \in Nat, Typed(m, c), NEW e \in Entities, NEW id \in Mons \cup {NONE},
         NEW hp \in HpSeen \cup {NONE}
  PROVE  Typed(Observe(m, e, id, hp), c)
<1> DEFINE old == IF e \in Known(m) THEN m.enemies[e] ELSE Unknown
           other == id # NONE /\ old.mon \notin {NONE, id}
           named == IF other THEN [Unknown EXCEPT !.mon = id]
                    ELSE [old EXCEPT !.mon = IF id = NONE THEN @ ELSE id]
           level == IF hp = NONE THEN named.hp ELSE hp
           risen == other \/ (hp \notin {NONE, Dead} /\ ~ named.damaged)
           enemy == [named EXCEPT !.hp = level, !.dipped = @ \/ level \in {Dead, Low}]
           read == PutEnemy(m, e, enemy)
           cleared == [read EXCEPT !.deaths = Unranked(read, e)]
           kept == IF risen THEN cleared ELSE read
<1>0. Observe(m, e, id, hp) = IF hp = Dead THEN MarkDead(kept, e) ELSE kept
  BY Zenon DEF Observe
<1>1. enemy \in Enemy(c)
  <2>1. old \in Enemy(c) /\ Unknown \in Enemy(c)
    BY DEF Typed, Listed, Unknown, Enemy
  <2> HIDE DEF old
  <2>2. named \in Enemy(c)
    BY <2>1 DEF Enemy
  <2> HIDE DEF named, other
  <2>3. level \in HpSeen \cup {NONE}
    BY <2>2 DEF Enemy
  <2> HIDE DEF level
  <2> DEFINE dip == named.dipped \/ level \in {Dead, Low}
  <2>4. dip \in BOOLEAN
    OBVIOUS
  <2>5. enemy = [named EXCEPT !.hp = level, !.dipped = dip]
    OBVIOUS
  <2> HIDE DEF dip, enemy
  <2>6. QED
    BY <2>2, <2>3, <2>4, <2>5 DEF Enemy
<1> HIDE DEF enemy, other, named, level, risen
<1>2. Typed(read, c)
  BY <1>1, PutEnemyTyped
<1> HIDE DEF read
<1>3. Typed(cleared, c)
  BY <1>2, UnrankedOrdered, SetDeathsTyped
<1> HIDE DEF cleared
<1>4. Typed(kept, c)
  BY <1>2, <1>3
<1> HIDE DEF kept
<1>5. Typed(MarkDead(kept, e), c)
  BY <1>4, MarkDeadTyped
<1>6. QED
  BY <1>0, <1>4, <1>5

(* The dip of an enemy's HP does not rank it. *)
LEMMA UndippedWhole ==
  ASSUME NEW m, NEW c, Whole(m, c), NEW e
  PROVE  Whole([m EXCEPT !.enemies[e].dipped = FALSE], c)
<1> DEFINE E == [m.enemies EXCEPT ![e].dipped = FALSE]
           r == [m EXCEPT !.enemies[e].dipped = FALSE]
<1>1. /\ DOMAIN r = DOMAIN NewMeter /\ r.enemies = E /\ r.deaths = m.deaths
      /\ r.boss = m.boss /\ r.lc = m.lc /\ r.scene = m.scene /\ r.dungeon = m.dungeon
      /\ r.open = m.open /\ r.done = m.done /\ r.first = m.first /\ r.current = m.current
      /\ r.finish = m.finish /\ r.last_event = m.last_event
  BY Zenon DEF Whole, Typed, NewMeter
<1> HIDE DEF r
<1>2. /\ DOMAIN E = Known(m)
      /\ \A x \in Known(m) : /\ E[x] \in Enemy(c) /\ E[x].mon = m.enemies[x].mon
                             /\ E[x].hp = m.enemies[x].hp
                             /\ E[x].damaged = m.enemies[x].damaged
                             /\ E[x].last = m.enemies[x].last
  BY DEF Known, Whole, Typed, Listed, Enemy
<1> HIDE DEF E
<1>3. SameEnemies(m, r) /\ Listed(r, c) /\ Known(r) = Known(m)
  BY <1>1, <1>2 DEF SameEnemies, Known, Whole, Typed, Listed
<1>4. Best(r) = Best(m)
  BY <1>3, BestSame DEF Whole, Typed
<1>5. Placed(r)
  BY <1>1 DEF Placed, Whole, Typed
<1>6. QED
  BY <1>1, <1>3, <1>4, <1>5 DEF Whole, Typed, Ranked, r

(* A boss whose HP came back erases the fight, or only loses its dip,      *)
(* which the ranking does not look at.                                     *)
LEMMA RollbackWhole ==
  ASSUME NEW m, NEW c \in Nat, Whole(m, c), NEW e
  PROVE  Whole(Rollback(m, e, c), c)
<1> DEFINE wiped == IF Down(m) = {} THEN m ELSE [Latch(m, "wipe", c, c) EXCEPT !.lc = Hold(@)]
           cool == m.last_reset = NONE \/ Since(c, m.last_reset) >= ResetCooldown
<1>1. Whole(wiped, c)
  BY EndsWhole
<1>2. Rollback(m, e, c) = IF cool /\ EndedAt(wiped, c) = NONE
                          THEN Reset(wiped, c, "boss_hp_rollback")
                          ELSE [wiped EXCEPT !.enemies[e].dipped = FALSE]
  BY Zenon DEF Rollback
<1> HIDE DEF wiped, cool
<1>3. Whole(Reset(wiped, c, "boss_hp_rollback"), c)
  BY <1>1, ResetWhole DEF Whole
<1>4. Whole([wiped EXCEPT !.enemies[e].dipped = FALSE], c)
  BY <1>1, UndippedWhole
<1>5. QED
  BY <1>2, <1>3, <1>4

(* An HP packet ranks anew; taking back the dip of the others changes      *)
(* nothing the ranking looks at.                                           *)
LEMMA ApplyEnemyHpWhole ==
  ASSUME NEW m, NEW c \in Nat, Whole(m, c), NEW e \in Entities, NEW id \in Mons \cup {NONE},
         NEW hp \in HpSeen \cup {NONE}
  PROVE  Whole(ApplyEnemyHp(m, e, id, hp, c), c)
<1> DEFINE seen == Recompute(Observe(m, e, id, hp))
           killed == IF EndOnBossDeath /\ m.boss = e /\ seen.enemies[e].hp = Dead
                     THEN EndFightOnBossDeath(seen, e, c) ELSE seen
           ended == IF EndOnBossDeath /\ hp = Dead THEN EndFightOnHeldFinish(killed, c)
                    ELSE killed
           refilled == /\ ended.boss = e /\ MonAt(ended, e) \in Boss
                       /\ ended.enemies[e].dipped /\ ended.enemies[e].hp = Full
<1>0. ApplyEnemyHp(m, e, id, hp, c) = IF refilled THEN Rollback(ended, e, c) ELSE ended
  BY Zenon DEF ApplyEnemyHp
<1>1. Whole(seen, c)
  BY ObserveTyped, RecomputeWhole DEF Whole
<1> HIDE DEF seen
<1>2. Whole(killed, c)
  BY <1>1, EndsWhole
<1> HIDE DEF killed
<1>3. Whole(ended, c)
  BY <1>2, EndsWhole
<1> HIDE DEF ended, refilled
<1>4. Whole(Rollback(ended, e, c), c)
  BY <1>3, RollbackWhole
<1>5. QED
  BY <1>0, <1>3, <1>4

(* An enemy or a player dies, or stands up. *)
LEMMA DeathsWhole ==
  ASSUME NEW m, NEW c \in Nat, Whole(m, c), NEW e, NEW reason, NEW p
  PROVE  /\ Whole(ApplyEnemyGone(m, e, reason), c) /\ Whole(EnemyDied(m, e, c), c)
         /\ Whole(PlayerDied(m, p, c), c) /\ Whole(PlayerRevived(m, p), c)
<1> DEFINE seen == Recompute(MarkDead(m, e))
           ended == IF EndOnBossDeath /\ m.boss = e THEN EndFightOnBossDeath(seen, e, c)
                    ELSE seen
<1>1. Whole(seen, c)
  BY MarkDeadTyped, RecomputeWhole DEF Whole
<1>2. /\ ApplyEnemyGone(m, e, reason) \in {EndFightOnBossDeath(seen, e, m.last_event), m}
      /\ EnemyDied(m, e, c) \in {m, ended, EndFightOnHeldFinish(ended, c)}
  BY DEF ApplyEnemyGone, EnemyDied
<1> HIDE DEF seen
<1>3. Whole(EndFightOnBossDeath(seen, e, m.last_event), c)
  <2>1. m.last_event \in Nat
    BY DEF Whole, Typed, Placed
  <2>2. QED
    BY <1>1, <2>1, EndsWhole
<1>4. Whole(ended, c)
  BY <1>1, EndsWhole
<1> HIDE DEF ended
<1>5. Whole(EndFightOnHeldFinish(ended, c), c)
  BY <1>4, EndsWhole
<1>6. Whole(PlayerDied(m, p, c), c)
  <2>1. Whole(LatchWipeIfPartyDown(RecordDeath(m, p), c), c)
    BY RowsWhole, EndsWhole
  <2>2. QED
    BY <2>1 DEF PlayerDied
<1>7. Whole(PlayerRevived(m, p), c)
  <2>1. Whole(ReleaseHoldIfRecovered(StandUp(m, p)), c)
    BY RowsWhole
  <2>2. QED
    BY <2>1 DEF PlayerRevived
<1>8. QED
  BY <1>2, <1>3, <1>4, <1>5, <1>6, <1>7

(* The roster. *)
LEMMA RosterWhole ==
  ASSUME NEW m, NEW c, Whole(m, c), NEW p, NEW members
  PROVE  Whole(Keep(m, members), c) /\ Whole(ApplyPlayer(m, p), c)
<1>1. \E ps : Keep(m, members) \in {m, [m EXCEPT !.players = ps]}
  BY DEF Keep
<1>2. \E ps : ApplyPlayer(m, p) \in {m, [m EXCEPT !.players = ps]}
  <2>1. [m EXCEPT !.players[p] = "preloaded"]
          = [m EXCEPT !.players = [m.players EXCEPT ![p] = "preloaded"]]
    BY Zenon DEF Whole, Typed, NewMeter
  <2>2. QED
    BY <2>1 DEF ApplyPlayer
<1>3. QED
  BY <1>1, <1>2, SetPlayersWhole

---------------------------------------------------------------------------
(* A scene change. *)
LEMMA ApplySceneWhole ==
  ASSUME NEW m, NEW c \in Nat, Whole(m, c), NEW s \in Scenes
  PROVE  Whole(ApplyScene(m, s), c)
<1> DEFINE away == m.scene # NONE /\ m.scene # s
           pruned == PruneStalePreloads(m)
           latched == IF IsActive(m) THEN Latch(pruned, "scene_changed", m.last_event, m.last_event)
                      ELSE pruned
           left == [latched EXCEPT !.finish = FALSE]
           erased == Reset(left, m.last_event, "scene_changed")
           clean == IF ~ IsActive(m) /\ ~ m.lc.hold THEN erased ELSE left
           empty == [ClearEnemies(clean) EXCEPT !.boss = NONE, !.lc = Disarm(@)]
           released == [left EXCEPT !.lc = ReleaseHold(@)]
           gone == IF s \in Dungeon THEN ClearDungeon(empty) ELSE released
           last == IF away THEN gone ELSE m
<1>0. ApplyScene(m, s) = [last EXCEPT !.scene = s]
  BY Zenon DEF ApplyScene
<1>1. Whole(pruned, c)
  BY RowsWhole
<1> HIDE DEF pruned
<1>2. Whole(latched, c)
  <2>1. m.last_event \in Nat \cup {NONE}
    BY DEF Whole, Typed, Placed
  <2>2. QED
    BY <1>1, <2>1, LatchWhole DEF Causes
<1> HIDE DEF latched
<1>3. Whole(left, c)
  BY <1>2, SetFinishWhole
<1> HIDE DEF left
<1>4. Whole(erased, c)
  BY <1>3, ResetWhole DEF Whole
<1> HIDE DEF erased
<1>5. Whole(clean, c)
  BY <1>3, <1>4
<1> HIDE DEF clean
<1>6. Whole(empty, c)
  <2>1. ClearEnemies(clean).lc = clean.lc
    BY <1>5, Zenon DEF ClearEnemies, Whole, Typed, NewMeter
  <2>2. Disarm(clean.lc) \in Lcs
    <3>1. 0 \in Nat /\ "wipe" \in Causes
      BY DEF Causes
    <3>2. QED
      BY <1>5, <3>1, LifecyclesKept DEF Whole, Typed
  <2>3. empty = [ClearEnemies(clean) EXCEPT !.boss = NONE, !.lc = Disarm(clean.lc)]
    BY <2>1
  <2>4. Typed(clean, c) /\ NONE \in {clean.boss, NONE}
    BY <1>5 DEF Whole
  <2> HIDE DEF empty
  <2>5. QED
    BY <2>2, <2>3, <2>4, ClearEnemiesWhole
<1> HIDE DEF empty
<1>7. Whole(released, c)
  <2>1. NONE \in Mons \cup {NONE}
    OBVIOUS
  <2>2. QED
    BY <1>3, <2>1, ArmedWhole
<1> HIDE DEF released
<1>8. Whole(gone, c)
  BY <1>6, <1>7, ClearDungeonWhole
<1> HIDE DEF gone
<1>9. Whole(last, c)
  BY <1>8
<1> HIDE DEF last
<1>10. QED
  BY <1>0, <1>9, SetSceneWhole

(* A server change forgets the enemies.                                    *)
LEMMA ApplyServerChangedWhole ==
  ASSUME NEW m, NEW c, Whole(m, c), NEW t \in Nat
  PROVE  Whole(ApplyServerChanged(m, t), c)
<1> DEFINE latched == Latch(m, "server_changed", t, t)
           ended == PruneStalePreloads(latched)
           empty == ClearEnemies(ended)
           freed == [empty EXCEPT !.lc = ReleaseHold(Disarm(@))]
<1>0. ApplyServerChanged(m, t) = ClearDungeon(freed)
  BY Zenon DEF ApplyServerChanged
<1>1. Whole(latched, c)
  BY LatchWhole DEF Causes
<1> HIDE DEF latched
<1>2. Whole(ended, c)
  BY <1>1, RowsWhole
<1> HIDE DEF ended
<1>3. Whole(empty, c)
  <2>1. Typed(ended, c) /\ ended.boss \in {ended.boss, NONE} /\ ended.lc \in Lcs
    BY <1>2 DEF Whole, Typed
  <2>2. QED
    BY <2>1, ClearEnemiesWhole
<1> HIDE DEF empty
<1>4. Whole(freed, c)
  <2>1. NONE \in Mons \cup {NONE}
    OBVIOUS
  <2>2. QED
    BY <1>3, <2>1, ArmedWhole
<1> HIDE DEF freed
<1>5. QED
  BY <1>0, <1>4, ClearDungeonWhole

(* A dungeon state leaves the enemies alone, or resets.                    *)
LEMMA ApplyDungeonStateWhole ==
  ASSUME NEW m, NEW c \in Nat, Whole(m, c), NEW ds \in DungeonStates
  PROVE  Whole(ApplyDungeonState(m, ds), c)
<1>0. ds \in {"null", "running", "playing", "terminal"}
  BY TablesAssumption
<1>1. CASE ds = "null"
  BY <1>1, ClearDungeonWhole DEF ApplyDungeonState
<1>2. CASE ds = "running"
  BY <1>2, SetDungeonWhole DEF ApplyDungeonState
<1>3. CASE ds = "playing"
  <2>1. Whole([ClearDungeon(m) EXCEPT !.dungeon = "running"], c)
    BY ClearDungeonWhole, SetDungeonWhole
  <2>2. Whole(Reset([ClearDungeon(m) EXCEPT !.dungeon = "running"], m.last_event,
                    "dungeon_started"), c)
    BY <2>1, ResetWhole DEF Whole
  <2>3. QED
    BY <1>3, <2>2 DEF ApplyDungeonState
<1>4. CASE ds = "terminal"
  <2> DEFINE over == [m EXCEPT !.dungeon = "terminal"]
             z == [over EXCEPT !.lc = Disarm(@)]
  <2>1. Whole(over, c)
    BY SetDungeonWhole
  <2>2. [m EXCEPT !.dungeon = "terminal", !.lc = Disarm(@)] = z
    BY Zenon DEF Whole, Typed, NewMeter
  <2> HIDE DEF over
  <2>3. Whole(z, c)
    <3>1. NONE \in Mons \cup {NONE}
      OBVIOUS
    <3>2. QED
      BY <2>1, <3>1, ArmedWhole
  <2> HIDE DEF z
  <2>4. Whole(CompletionSignal(z), c)
    <3>1. 0 \in Nat
      OBVIOUS
    <3>2. QED
      BY <2>3, <3>1, EndsWhole
  <2>5. QED
    BY <1>4, <2>2, <2>4 DEF ApplyDungeonState
<1>5. QED
  BY <1>0, <1>1, <1>2, <1>3, <1>4

(* Objectives come and go beside the board. *)
LEMMA ObjectivesWhole ==
  ASSUME NEW m, NEW c, Whole(m, c), NEW r, DOMAIN r = DOMAIN NewMeter,
         r.enemies = m.enemies, r.deaths = m.deaths, r.boss = m.boss, r.lc = m.lc,
         r.scene = m.scene, r.dungeon = m.dungeon, r.finish = m.finish,
         r.last_event = m.last_event,
         r.open \subseteq Objectives, r.done \subseteq Objectives,
         r.first \in Objectives \cup {NONE}, r.current \in Objectives \cup {NONE}
  PROVE  Whole(r, c)
<1>1. Apart(m, r) /\ r.lc \in Lcs /\ Placed(r)
  BY DEF Apart, Whole, Typed, Placed
<1>2. QED
  BY <1>1, ApartWhole

(* So does an objective.                                                   *)
LEMMA ApplyObjectiveWhole ==
  ASSUME NEW m, NEW c \in Nat, Whole(m, c), NEW obj \in Objectives, NEW zero, NEW complete
  PROVE  /\ Whole(ApplyObjective(m, obj, zero, complete), c)
         /\ Whole(ApplyObjectiveRemoved(m, obj), c)
<1> DEFINE done == IF complete = "yes" THEN m.done \cup {obj}
                   ELSE IF complete = "no" THEN m.done \ {obj} ELSE m.done
           first == IF m.first = NONE THEN obj ELSE m.first
           kept == [m EXCEPT !.done = done, !.open = (@ \cup {obj}) \ done, !.first = first]
           new == obj # m.current /\ complete = "no" /\ zero
           restarted == m.current # NONE /\ m.current # first /\ obj = first
           turned == [kept EXCEPT !.current = obj]
           gone == [m EXCEPT !.open = @ \ {obj}, !.done = @ \ {obj},
                             !.current = IF @ = obj THEN NONE ELSE @]
           left == IF m.current = obj THEN NONE ELSE m.current
<1>0. /\ ApplyObjective(m, obj, zero, complete) =
           IF new /\ restarted THEN Reset(turned, m.last_event, "dungeon_started")
           ELSE EndFightOnHeldFinish(IF new THEN turned ELSE kept, m.last_event)
      /\ ApplyObjectiveRemoved(m, obj) = EndFightOnHeldFinish(gone, m.last_event)
  BY Zenon DEF ApplyObjective, ApplyObjectiveRemoved
<1>1. /\ done \subseteq Objectives /\ first \in Objectives \cup {NONE}
      /\ left \in Objectives \cup {NONE} /\ m.open \subseteq Objectives
      /\ m.done \subseteq Objectives /\ m.first \in Objectives \cup {NONE}
      /\ m.current \in Objectives \cup {NONE} /\ m.last_event \in Nat
  BY DEF Whole, Typed, Placed
<1>2. /\ DOMAIN kept = DOMAIN NewMeter /\ kept.enemies = m.enemies /\ kept.deaths = m.deaths
      /\ kept.boss = m.boss /\ kept.lc = m.lc /\ kept.scene = m.scene
      /\ kept.dungeon = m.dungeon /\ kept.finish = m.finish
      /\ kept.last_event = m.last_event /\ kept.open = (m.open \cup {obj}) \ done
      /\ kept.done = done /\ kept.first = first /\ kept.current = m.current
  BY Zenon DEF Whole, Typed, NewMeter
<1>3. /\ DOMAIN gone = DOMAIN NewMeter /\ gone.enemies = m.enemies /\ gone.deaths = m.deaths
      /\ gone.boss = m.boss /\ gone.lc = m.lc /\ gone.scene = m.scene
      /\ gone.dungeon = m.dungeon /\ gone.finish = m.finish
      /\ gone.last_event = m.last_event /\ gone.open = m.open \ {obj}
      /\ gone.done = m.done \ {obj} /\ gone.first = m.first /\ gone.current = left
  BY Zenon DEF Whole, Typed, NewMeter
<1> HIDE DEF done, first, left, kept, gone, new, restarted
<1>4. /\ DOMAIN turned = DOMAIN NewMeter /\ turned.enemies = kept.enemies
      /\ turned.deaths = kept.deaths /\ turned.boss = kept.boss /\ turned.lc = kept.lc
      /\ turned.scene = kept.scene /\ turned.dungeon = kept.dungeon
      /\ turned.finish = kept.finish /\ turned.last_event = kept.last_event
      /\ turned.open = kept.open /\ turned.done = kept.done /\ turned.first = kept.first
      /\ turned.current = obj
  BY <1>2, Zenon DEF NewMeter
<1> HIDE DEF turned
<1>5. Whole(kept, c) /\ Whole(gone, c)
  BY <1>1, <1>2, <1>3, ObjectivesWhole
<1>6. Whole(turned, c)
  BY <1>1, <1>2, <1>4, <1>5, ObjectivesWhole
<1>7. Whole(Reset(turned, m.last_event, "dungeon_started"), c)
  BY <1>6, ResetWhole DEF Whole
<1>8. /\ Whole(EndFightOnHeldFinish(turned, m.last_event), c)
      /\ Whole(EndFightOnHeldFinish(kept, m.last_event), c)
      /\ Whole(EndFightOnHeldFinish(gone, m.last_event), c)
  BY <1>1, <1>5, <1>6, EndsWhole
<1>9. QED
  BY <1>0, <1>7, <1>8

---------------------------------------------------------------------------
(* The step. *)
BoardInv == RowsInv /\ Whole(meter, clock) /\ now <= Horizon

(* What is known stays known as the clock goes on.                         *)
LEMMA LaterWhole ==
  ASSUME NEW m, NEW c \in Nat, Whole(m, c), NEW n \in Nat, c <= n
  PROVE  Whole(m, n)
<1>1. \A x \in 0 .. c : x \in 0 .. n
  OBVIOUS
<1>2. Enemy(c) \subseteq Enemy(n)
  BY <1>1 DEF Enemy
<1>3. QED
  BY <1>2 DEF Whole, Typed, Listed

(* A call of apply finds the board of the step before it.                  *)
LEMMA CalledWhole ==
  ASSUME NEW c, Whole(meter, c) PROVE Whole(Called, c)
<1> DEFINE r == Called
<1>1. /\ DOMAIN r = DOMAIN NewMeter /\ r.enemies = meter.enemies /\ r.deaths = meter.deaths
      /\ r.boss = meter.boss /\ r.lc = meter.lc /\ r.scene = meter.scene
      /\ r.dungeon = meter.dungeon /\ r.finish = meter.finish
      /\ r.last_event = meter.last_event /\ r.open = meter.open /\ r.done = meter.done
      /\ r.first = meter.first /\ r.current = meter.current
  BY Zenon DEF Called, Whole, Typed, NewMeter
<1> HIDE DEF r
<1>2. Whole(r, c)
  BY <1>1, ObjectivesWhole DEF Whole, Typed, Placed
<1>3. QED
  BY <1>2 DEF r

(* Every step keeps the types and the ranking.                             *)
LEMMA StepWhole ==
  ASSUME Clocks(clock, now), Whole(meter, clock), meter.last_event \in Nat, Next
  PROVE  Whole(meter', clock')
<1>0. Whole(Called, clock) /\ clock \in Nat /\ now \in Nat /\ clock <= now
  BY CalledWhole DEF Clocks
<1>1. CASE Damage
  BY <1>0, <1>1, ApplyDamageWhole DEF Damage, Becomes
<1>2. CASE EnemyHp
  <2>1. \A e \in Entities : MonOf[e] \subseteq Mons \cup {NONE}
    BY TablesAssumption
  <2>2. QED
    BY <1>0, <1>2, <2>1, ApplyEnemyHpWhole DEF EnemyHp, Becomes
<1>3. CASE EnemyGone \/ EnemyState \/ PlayerState \/ Revive
  BY <1>0, <1>3, DeathsWhole DEF EnemyGone, EnemyState, PlayerState, Revive, Becomes
<1>4. CASE PlayerInfo \/ TeamRoster \/ TeamMemberLeft
  BY <1>0, <1>4, RosterWhole DEF PlayerInfo, TeamRoster, TeamMemberLeft, Becomes
<1>5. CASE Scene
  BY <1>0, <1>5, ApplySceneWhole DEF Scene, Becomes
<1>6. CASE ServerChanged
  <2>1. \A t \in meter.last_event .. now : t \in Nat
    OBVIOUS
  <2>2. QED
    BY <1>0, <1>6, <2>1, ApplyServerChangedWhole DEF ServerChanged, Becomes
<1>7. CASE DungeonState
  BY <1>0, <1>7, ApplyDungeonStateWhole DEF DungeonState, Becomes
<1>8. CASE DungeonVar
  BY <1>0, <1>8, EndsWhole DEF DungeonVar, Becomes
<1>9. CASE DungeonObjective \/ DungeonObjectiveRemoved
  BY <1>0, <1>9, ApplyObjectiveWhole DEF DungeonObjective, DungeonObjectiveRemoved, Becomes
<1>10. CASE Tick
  BY <1>0, <1>10, PinWhole DEF Tick, Becomes
<1>11. CASE ManualReset
  <2> DEFINE z == Reset(Called, now, "manual")
             r == [z EXCEPT !.saved = Nothing]
  <2>1. Whole(z, clock)
    BY <1>0, ResetWhole DEF Whole
  <2> HIDE DEF z
  <2>2. /\ DOMAIN r = DOMAIN NewMeter /\ r.enemies = z.enemies /\ r.deaths = z.deaths
        /\ r.boss = z.boss /\ r.lc = z.lc /\ r.scene = z.scene
        /\ r.dungeon = z.dungeon /\ r.finish = z.finish
        /\ r.last_event = z.last_event /\ r.open = z.open /\ r.done = z.done
        /\ r.first = z.first /\ r.current = z.current
    BY <2>1, Zenon DEF Whole, Typed, NewMeter
  <2> HIDE DEF r
  <2>3. Whole(r, clock)
    BY <2>1, <2>2, ObjectivesWhole DEF Whole, Typed, Placed
  <2>4. QED
    BY <1>11, <2>3 DEF ManualReset, Becomes, z, r
<1>12. CASE Pass \/ Hear
  <2>1. meter' = Called /\ clock' \in Nat /\ clock <= clock'
    BY <1>0, <1>12, WindowsAssumption DEF Pass, Hear
  <2>2. Whole(Called, clock')
    BY <1>0, <2>1, LaterWhole
  <2>3. QED
    BY <2>1, <2>2
<1>13. QED
  BY <1>1, <1>2, <1>3, <1>4, <1>5, <1>6, <1>7, <1>8, <1>9, <1>10, <1>11, <1>12 DEF Next

(* The invariant of the board is inductive.                                *)
LEMMA BoardInvKept == BoardInv /\ [Next]_vars => BoardInv'
<1> SUFFICES ASSUME BoardInv, [Next]_vars PROVE BoardInv'
  OBVIOUS
<1>1. RowsInv'
  BY RowsInvKept DEF BoardInv
<1>2. Clocks(clock, now) /\ Whole(meter, clock) /\ meter.last_event \in Nat
  BY DEF BoardInv, RowsInv, StepInv, ClockInv, Whole, Typed, Placed
<1>3. CASE UNCHANGED vars
  BY <1>3 DEF BoardInv, RowsInv, StepInv, ClockInv, vars
<1>4. CASE Next
  <2>1. Whole(meter', clock')
    BY <1>2, <1>4, StepWhole
  <2>2. now' = now \/ Pass
    BY <1>4 DEF Next, Damage, EnemyHp, EnemyGone, EnemyState, PlayerState, Revive, PlayerInfo,
                TeamRoster, TeamMemberLeft, Scene, ServerChanged, DungeonState, DungeonVar,
                DungeonObjective, DungeonObjectiveRemoved, Tick, ManualReset, Hear, Becomes
  <2>3. now' <= Horizon
    <3>1. Pass => now < Horizon /\ now' = now + 1
      BY DEF Pass
    <3>2. QED
      BY <1>2, <2>2, <3>1, WindowsAssumption DEF BoardInv, Clocks
  <2>4. QED
    BY <1>1, <2>1, <2>3 DEF BoardInv
<1>5. QED
  BY <1>3, <1>4

(* It holds in every reachable state.                                      *)
LEMMA BoardInvAlways == Spec => []BoardInv
<1>1. Init => BoardInv
  <2> SUFFICES ASSUME Init PROVE BoardInv
    OBVIOUS
  <2>1. RowsInv
    BY RowsInvInit
  <2>2. /\ DOMAIN meter = DOMAIN NewMeter /\ meter.enemies = <<>> /\ meter.deaths = <<>>
        /\ meter.lc = Idle /\ meter.boss = NONE /\ meter.scene = NONE
        /\ meter.dungeon = "none" /\ meter.open = {} /\ meter.done = {} /\ meter.first = NONE
        /\ meter.current = NONE /\ meter.finish = FALSE /\ meter.last_event = 0
    BY DEF Init, NewMeter
  <2>3. Placed(meter)
    <3>1. meter.finish \in BOOLEAN
      BY <2>2, Zenon
    <3>2. meter.last_event \in Nat
      BY <2>2
    <3>3. meter.boss \in Entities \cup {NONE} /\ meter.scene \in Scenes \cup {NONE}
      BY <2>2, Zenon
    <3>4. meter.dungeon \in {"none", "running", "terminal"}
      BY <2>2, Zenon
    <3>5. meter.first \in Objectives \cup {NONE} /\ meter.current \in Objectives \cup {NONE}
      BY <2>2, Zenon
    <3>6. meter.open \subseteq Objectives /\ meter.done \subseteq Objectives
      BY <2>2, Zenon
    <3>7. QED
      BY <3>1, <3>2, <3>3, <3>4, <3>5, <3>6, Zenon DEF Placed
  <2>4. Known(meter) = {} /\ IsFiniteSet({}) /\ <<>> \in Seq({})
    BY <2>2, FS_EmptySet DEF Known
  <2>5. Listed(meter, clock)
    BY <2>2, <2>4 DEF Listed, Ordered
  <2>6. now <= Horizon
    BY WindowsAssumption DEF Init
  <2>7. QED
    BY <2>1, <2>2, <2>3, <2>4, <2>5, <2>6, IdleTyped DEF BoardInv, Whole, Typed, Ranked
<1>2. QED
  BY <1>1, BoardInvKept, PTL DEF Spec

(* The boss on the board is always the one recompute_boss would choose     *)
(* now: no handler that changes an enemy, the death order or what is known *)
(* of them leaves a stale boss behind (encounter.rs, recompute_boss and    *)
(* rank_boss, called by the handlers one by one).                          *)
THEOREM BossIsAlwaysCurrent == Spec => []BossIsCurrent
<1>1. BoardInv => BossIsCurrent
  <2> SUFFICES ASSUME BoardInv PROVE BossIsCurrent
    OBVIOUS
  <2>1. Typed(meter, clock) /\ Ranked(meter)
    BY DEF BoardInv, Whole
  <2>2. Recompute(meter).boss = Best(meter)
    BY <2>1, RecomputeWhole
  <2>3. QED
    BY <2>1, <2>2 DEF Ranked, BossIsCurrent
<1>2. QED
  BY <1>1, BoardInvAlways, PTL

(* The meter keeps its types: the fight's times are times of the clocks,   *)
(* the enemies known are entities with HP a packet gave, the death order   *)
(* names no enemy twice and only known ones, every row is of a player      *)
(* (encounter.rs, the fields of Encounter).                                *)
THEOREM MeterIsTyped == Spec => []TypeOK
<1>1. BoardInv => TypeOK
  <2> SUFFICES ASSUME BoardInv PROVE TypeOK
    OBVIOUS
  <2>1. /\ Clocks(clock, now) /\ now <= Horizon /\ Ok(meter, clock, now)
        /\ Typed(meter, clock) /\ Crew({}, Players, meter)
    BY DEF BoardInv, RowsInv, StepInv, ClockInv, Whole
  <2>2. clock \in Times /\ now \in Times /\ clock <= now
    BY <2>1, WindowsAssumption DEF Clocks, Times
  <2>3. 0 .. clock \subseteq Times
    BY <2>1, <2>2, WindowsAssumption DEF Times, Clocks
  <2>4. meter.lc \in Lifecycles(Times, Mons)
    <3> DEFINE l == meter.lc
    <3>1. /\ l \in Lifecycles(Nat, Mons)
          /\ l.start \in Nat \cup {NONE} /\ l.end \in Nat \cup {NONE}
          /\ l.observed \in Nat \cup {NONE} /\ l.st \in {"idle", "active", "ended"}
      BY <2>1 DEF Typed, Lcs, Lifecycles
    <3>2. OkTimes(l, meter.last_event, clock, now)
      BY <2>1 DEF Ok
    <3> HIDE DEF l
    <3>3. l.st = "idle" => l.start = NONE
      BY <3>2 DEF OkTimes, WellFormed
    <3>4. l.st # "ended" => l.end = NONE /\ l.observed = NONE
      BY <3>2 DEF OkTimes, WellFormed
    <3>5. l.st # "idle" => l.start <= meter.last_event /\ meter.last_event \in Nat
      BY <3>2 DEF OkTimes
    <3>6. meter.last_event <= clock
      BY <3>2 DEF OkTimes
    <3>7. l.st = "ended" => l.end <= l.observed /\ l.observed <= now
      BY <3>2 DEF OkTimes, WellFormed
    <3>8. l.start \in Times \cup {NONE}
      BY <2>1, <2>2, <3>1, <3>3, <3>5, <3>6, WindowsAssumption DEF Times, Clocks, NONE
    <3>9. l.end \in Times \cup {NONE} /\ l.observed \in Times \cup {NONE}
      BY <2>1, <2>2, <3>1, <3>4, <3>7, WindowsAssumption DEF Times, Clocks, NONE
    <3>10. l \in Lifecycles(Times, Mons)
      BY <3>1, <3>8, <3>9 DEF Lifecycles
    <3>11. QED
      BY <3>10 DEF l
  <2>5. /\ Known(meter) \subseteq Entities
        /\ \A e \in Known(meter) :
             meter.enemies[e] \in [mon : Mons \cup {NONE}, hp : HpSeen \cup {NONE},
                                   dipped : BOOLEAN, damaged : BOOLEAN,
                                   last : Times \cup {NONE}]
    <3>1. Enemy(clock) \subseteq [mon : Mons \cup {NONE}, hp : HpSeen \cup {NONE},
                                  dipped : BOOLEAN, damaged : BOOLEAN,
                                  last : Times \cup {NONE}]
      BY <2>3 DEF Enemy
    <3>2. QED
      BY <2>1, <3>1 DEF Typed, Listed
  <2>6. /\ Range(meter.deaths) \subseteq Known(meter)
        /\ \A i, j \in DOMAIN meter.deaths : meter.deaths[i] = meter.deaths[j] => i = j
    BY <2>1 DEF Typed, Listed, Ordered, Range
  <2>7. meter.players \in [Players -> Rows]
    BY <2>1 DEF Crew
  <2>8. /\ meter.boss \in Entities \cup {NONE} /\ meter.scene \in Scenes \cup {NONE}
        /\ meter.dungeon \in {"none", "running", "terminal"}
        /\ meter.open \subseteq Objectives /\ meter.done \subseteq Objectives
        /\ {meter.first, meter.current} \subseteq Objectives \cup {NONE}
        /\ meter.finish \in BOOLEAN
    BY <2>1 DEF Typed, Placed
  <2>9. QED
    BY <2>2, <2>4, <2>5, <2>6, <2>7, <2>8 DEF TypeOK
<1>2. QED
  BY <1>1, BoardInvAlways, PTL

=============================================================================
