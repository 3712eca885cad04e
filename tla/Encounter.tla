----------------------------- MODULE Encounter -----------------------------
(***************************************************************************)
(* The encounter tracker of the meter crate (encounter.rs, with reset.rs   *)
(* and phase.rs): it folds the decoded protocol events into the enemies,   *)
(* the roster, the dungeon's own state and the fight lifecycle, and it     *)
(* decides when a fight starts, ends, is held on screen, resumes or is     *)
(* erased.                                                                 *)
(*                                                                         *)
(* Meter is one record; every method of the code that changes it is an     *)
(* operator from a meter to a meter, and every protocol event an action    *)
(* that applies the whole handler.  Time stamps: an event carries clock,   *)
(* the capture time of the packet being decoded; tick runs on now, which   *)
(* the capture clock trails by at most MaxLag.                             *)
(*                                                                         *)
(* Left out: the numbers of the rows, names, buffs and casts, the dungeon  *)
(* signal's source, the cap on preloaded rows, and logging.  An enemy's    *)
(* maximum HP is known with its first HP; HP is one of three levels.       *)
(***************************************************************************)
EXTENDS FightLifecycle, SequencesExt

CONSTANTS
  Entities,         \* enemies, numbered: the number is the tie-break on uid
  MaxHp,            \* their maximum HP
  Mons,             \* monster ids
  MonOf,            \* what a packet may say of an entity's id, NONE for nothing
  Boss,             \* the ids the boss table recognizes
  PhaseGroups,      \* the curated groups of ids that are one fight
  Players, Local,   \* the roster's possible members, and the user
  Scenes, Dungeon, BossSelect,
  Objectives,       \* the dungeon's objective ids
  IdleTimeout, EngagementWindow, PhaseResumeWindow, PostEndGrace, WipeHoldRelease,
  ResetCooldown,    \* windows, in ticks
  EndOnBossDeath,   \* the user's setting
  HpSeen,           \* what a packet may say of its HP, NONE for nothing
  DungeonStates,    \* the dungeon states the server reports
  MaxLag,           \* how far the capture clock may trail the pipeline's
  Horizon           \* bound on time

ASSUME WindowsAssumption ==
  /\ {IdleTimeout, EngagementWindow, PhaseResumeWindow, PostEndGrace} \subseteq Nat
  /\ {WipeHoldRelease, ResetCooldown, MaxLag, Horizon} \subseteq Nat
  /\ EndOnBossDeath \in BOOLEAN

ASSUME TablesAssumption ==
  /\ Entities \subseteq Nat /\ MaxHp \in [Entities -> Nat]
  /\ MonOf \in [Entities -> SUBSET (Mons \cup {NONE})] /\ NONE \notin Mons
  /\ Boss \subseteq Mons /\ PhaseGroups \subseteq SUBSET Boss
  /\ Dungeon \subseteq Scenes /\ BossSelect \subseteq Scenes
  /\ HpSeen \subseteq {NONE, 0, 1, 2}
  /\ DungeonStates \subseteq {"null", "running", "playing", "terminal"}

Dead == 0       \* HP at zero
Low  == 1       \* at most DESPAWN_DEATH_MAX_HP_PCT, below the rollback bound
Full == 2       \* above the rollback bound

VARIABLES
  meter,    \* the meter, with what apply last returned
  clock,    \* capture time of the packet being decoded
  now       \* the pipeline's time

vars == <<meter, clock, now>>

Rows == {"absent", "preloaded", "up", "down"}
Unknown == [mon |-> NONE, hp |-> NONE, dipped |-> FALSE, damaged |-> FALSE, last |-> NONE]

(* What a reset hands back of the ended fight it erases (EndedFight). *)
Nothing == [lc |-> Idle, rows |-> {}]

NewMeter ==
  [lc |-> Idle, enemies |-> <<>>, deaths |-> <<>>, boss |-> NONE,
   players |-> [p \in Players |-> "absent"], scene |-> NONE, dungeon |-> "none",
   first |-> NONE, current |-> NONE, open |-> {}, done |-> {}, finish |-> FALSE,
   last_event |-> 0, last_reset |-> NONE, reason |-> "none", saved |-> Nothing]

---------------------------------------------------------------------------
(* Readings of the meter. *)

Since(t, from) == IF t > from THEN t - from ELSE 0
Within(t, last, window) == last # NONE /\ Since(t, last) <= window

HasPhaseGroup(id) == \E g \in PhaseGroups : id \in g
SamePhaseGroup(a, b) == a # b /\ \E g \in PhaseGroups : {a, b} \subseteq g

Known(m) == DOMAIN m.enemies
MonAt(m, e) == IF e \in Known(m) THEN m.enemies[e].mon ELSE NONE
Alive(m, e) == e \notin Range(m.deaths) /\ m.enemies[e].hp # Dead
LivingBoss(m, e) == m.enemies[e].damaged /\ Alive(m, e) /\ m.enemies[e].mon \in Boss
EngagedBoss(m, e, t) == LivingBoss(m, e) /\ Within(t, m.enemies[e].last, EngagementWindow)
EngagedBossStillUp(m, t) == \E e \in Known(m) : EngagedBoss(m, e, t)

InDungeon(m) == m.scene \in Dungeon
Terminal(m) == m.dungeon = "terminal"
RunInProgress(m) == InDungeon(m) /\ m.dungeon = "running"
IsActive(m) == m.lc.st = "active"
IsEnded(m) == m.lc.st = "ended"

(* fight_ended_at: the latched end, or the idle end nothing latched yet. *)
EndedAt(m, t) ==
  IF IsEnded(m) THEN m.lc.end
  ELSE IF /\ IsActive(m)
          /\ IdleTimeout > 0 /\ Since(t, m.last_event) >= IdleTimeout
          /\ ~ EngagedBossStillUp(m, t)
          /\ ~ RunInProgress(m)
       THEN m.last_event ELSE NONE

RowsIn(m, states) == {p \in Players : m.players[p] \in states}
Fighters(m) == RowsIn(m, {"up", "down"})
Roster(m) == RowsIn(m, {"preloaded", "up", "down"})
Down(m) == RowsIn(m, {"down"})

PartyIsWiped(m) == IsActive(m) /\ Roster(m) # {} /\ Down(m) = Roster(m)
RosterMostlyDown(m) ==
  Roster(m) # {} /\ 5 * Cardinality(Down(m)) >= 4 * Cardinality(Roster(m))

WipeHoldReleased(m, t) == IsEnded(m) /\ Since(t, m.lc.end) >= WipeHoldRelease

(* The largest of a set of sequences of naturals, all of one length. *)
Less(a, b) == \E i \in DOMAIN a : a[i] < b[i] /\ \A j \in 1 .. i - 1 : a[j] = b[j]
Largest(S, Key(_)) ==
  IF S = {} THEN NONE ELSE CHOOSE x \in S : \A y \in S \ {x} : Less(Key(y), Key(x))
Bit(b) == IF b THEN 1 ELSE 0

DiedAt(m, e) == IF e \in Range(m.deaths)
                THEN CHOOSE i \in DOMAIN m.deaths : m.deaths[i] = e ELSE 0

(* rank_boss, over the candidates whose HP has been seen. *)
RankBoss(m, candidates) ==
  Largest({e \in candidates : m.enemies[e].hp # NONE},
          LAMBDA e : <<Bit(m.enemies[e].mon \in Boss), Bit(Alive(m, e)), DiedAt(m, e),
                       MaxHp[e], e>>)

EngagedBossMon(m) ==
  LET e == Largest({x \in Known(m) : LivingBoss(m, x)},
                   LAMBDA x : <<Bit(HasPhaseGroup(m.enemies[x].mon)), m.enemies[x].last + 1,
                                0 - x>>)
  IN MonAt(m, e)

FoughtTargetAlive(m) ==
  \/ m.boss \in Known(m) /\ Alive(m, m.boss)
  \/ \E e \in Known(m) : m.enemies[e].damaged /\ Alive(m, e) /\ m.enemies[e].hp # NONE
FoughtTargetKilled(m) == \E e \in Known(m) : m.enemies[e].damaged /\ ~ Alive(m, e)

ObjectiveStillRunning(m) ==
  m.scene \notin BossSelect /\ m.dungeon = "running" /\ m.current \in m.open

FinishResolvable(m) ==
  ~ FoughtTargetAlive(m) /\ FoughtTargetKilled(m) /\ ~ ObjectiveStillRunning(m)

OtherLivingBoss(m, dying, t) ==
  \E e \in Known(m) \ {dying} :
    LivingBoss(m, e) /\ (m.scene \in BossSelect => EngagedBoss(m, e, t))

---------------------------------------------------------------------------
(* The steps the handlers are built from. *)

Recompute(m) ==
  LET top == RankBoss(m, {e \in Known(m) : m.enemies[e].damaged})
      rival == RankBoss(m, {e \in Known(m) :
                              /\ Alive(m, e) /\ m.enemies[e].mon \in Boss
                              /\ Within(m.enemies[top].last, m.enemies[e].last,
                                        EngagementWindow)})
  IN [m EXCEPT !.boss = IF top # NONE /\ m.enemies[top].mon \notin Boss /\ rival # NONE
                        THEN rival ELSE top]

\* Mutant: a second death packet ranks the corpse again.
MarkDeadTwice(m, e) == IF e \in Known(m) THEN [m EXCEPT !.deaths = Append(@, e)] ELSE m

MarkDead(m, e) ==
  IF e \in Known(m) /\ e \notin Range(m.deaths)
  THEN [m EXCEPT !.deaths = Append(@, e)] ELSE m

(* An enemy that turns out to live, or to be another, has no rank. *)
Unranked(m, e) ==
  IF e \in Range(m.deaths) THEN RemoveAt(m.deaths, DiedAt(m, e)) ELSE m.deaths

PutEnemy(m, e, enemy) ==
  [m EXCEPT !.enemies = [x \in Known(m) \cup {e} |-> IF x = e THEN enemy ELSE @[x]]]

ClearEnemies(m) == [m EXCEPT !.enemies = <<>>, !.deaths = <<>>]

(* latch_fight_end: only an idle end arms phase resumption by itself. *)
Latch(m, cause, end, observed) ==
  [m EXCEPT !.lc = End(@, end, observed, cause,
                       IF cause = "idle_timeout" THEN EngagedBossMon(m) ELSE NONE)]

Pin(m, t) ==
  LET end == EndedAt(m, t) IN IF end = NONE THEN m ELSE Latch(m, "idle_timeout", end, t)

(* reset, with the ended fight it hands back through apply_preserving. *)
Reset(m, t, reason) ==
  Recompute([m EXCEPT
    !.saved = IF IsEnded(m) THEN [lc |-> m.lc, rows |-> Fighters(m)] ELSE Nothing,
    !.players = [p \in Players |-> "absent"],
    !.enemies = [e \in DOMAIN @ |-> [@[e] EXCEPT !.dipped = FALSE, !.damaged = FALSE]],
    !.lc = Idle, !.finish = FALSE, !.last_reset = t, !.reason = reason])

PruneStalePreloads(m) ==
  [m EXCEPT !.players = [p \in Players |-> IF @[p] = "preloaded" THEN "absent" ELSE @[p]]]

ClearDungeon(m) ==
  [m EXCEPT !.dungeon = "none", !.open = {}, !.done = {}, !.first = NONE,
            !.current = NONE, !.finish = FALSE]

\* Mutant: a run that has ended leaves its boss armed for another phase.
EndOnDeathAlwaysArms(m, e, t) ==
  IF /\ MonAt(m, e) \in Boss /\ IsActive(m)
     /\ ~ OtherLivingBoss(m, e, t) /\ ~ ObjectiveStillRunning(m)
  THEN LET ended == Latch(m, "boss_death", t, t)
       IN [ended EXCEPT !.lc = Arm(@, MonAt(m, e))]
  ELSE m

\* Mutant: a death reported late arms a fight that is over.
EndOnDeathArmsLate(m, e, t) ==
  IF MonAt(m, e) \in Boss /\ ~ OtherLivingBoss(m, e, t) /\ ~ ObjectiveStillRunning(m)
  THEN LET ended == Latch(m, "boss_death", t, t)
       IN IF Terminal(m) THEN ended ELSE [ended EXCEPT !.lc = Arm(@, MonAt(m, e))]
  ELSE m

EndFightOnBossDeath(m, e, t) ==
  IF /\ MonAt(m, e) \in Boss /\ IsActive(m)
     /\ ~ OtherLivingBoss(m, e, t) /\ ~ ObjectiveStillRunning(m)
  THEN LET ended == Latch(m, "boss_death", t, t)
       IN IF Terminal(m) THEN ended ELSE [ended EXCEPT !.lc = Arm(@, MonAt(m, e))]
  ELSE m

EndFightOnHeldFinish(m, t) ==
  IF m.finish /\ IsActive(m) /\ FinishResolvable(m)
  THEN LET ended == Latch(m, "dungeon_ended", t, t)
       IN IF MonAt(m, m.boss) = NONE \/ Terminal(m) THEN ended
          ELSE [ended EXCEPT !.lc = Arm(@, MonAt(m, m.boss))]
  ELSE m

CompletionSignal(m) ==
  IF ~ IsActive(m) THEN m
  ELSE IF FinishResolvable(m) THEN Latch(m, "dungeon_ended", m.last_event, m.last_event)
  ELSE [m EXCEPT !.finish = TRUE]

LatchWipeIfPartyDown(m, t) ==
  IF PartyIsWiped(m) /\ InDungeon(m) /\ EngagedBossStillUp(m, t)
  THEN [Latch(m, "wipe", t, t) EXCEPT !.lc = Hold(@)]
  ELSE m

RecordDeath(m, p) == [m EXCEPT !.players[p] = "down"]

ReleaseHoldIfRecovered(m) ==
  IF m.lc.hold /\ ~ RosterMostlyDown(m) THEN [m EXCEPT !.lc = ReleaseHold(@)] ELSE m

StandUp(m, p) == [m EXCEPT !.players[p] = IF @ = "down" THEN "up" ELSE @]

---------------------------------------------------------------------------
(* apply_damage(d), d = [by, to, heal, dead], by = NONE for no player. *)

PlayerHit(d) == d.by \in Players /\ ~ d.heal
TargetMon(m, d) == MonAt(m, d.to)

\* Mutant: the phase-resume window never runs out.
ArmedForever(m, d, t) ==
  IF IsEnded(m) /\ HasPhaseGroup(m.lc.armed) /\ PlayerHit(d) THEN m.lc.armed ELSE NONE

(* The armed boss id while the hit d falls in the phase-resume window. *)
ArmedPhaseHold(m, d, t) ==
  IF /\ PhaseResumeWindow > 0 /\ IsEnded(m) /\ HasPhaseGroup(m.lc.armed)
     /\ PlayerHit(d) /\ Since(t, m.lc.observed) <= PhaseResumeWindow
  THEN m.lc.armed ELSE NONE

ResumesHeldFight(m, d, t) ==
  ArmedPhaseHold(m, d, t) # NONE /\ SamePhaseGroup(ArmedPhaseHold(m, d, t), TargetMon(m, d))

WithholdsNewFight(m, d, t) ==
  /\ Known(m) # {} /\ ArmedPhaseHold(m, d, t) # NONE
  /\ ~ (TargetMon(m, d) \in Boss \ {m.lc.armed})

\* Mutant: the wipe hold does not see the boss being pulled again.
WithholdsRepull(m, d, t) == m.lc.hold /\ ~ WipeHoldReleased(m, t)

WithholdsAfterWipe(m, d, t) ==
  m.lc.hold /\ ~ WipeHoldReleased(m, t) /\ TargetMon(m, d) \notin Boss

\* Mutant: the grace period does not run out for a known target.
GraceForever(m, d, t) ==
  IsEnded(m) /\ (PlayerHit(d) => d.to \in Known(m) /\ m.enemies[d.to].damaged)

InPostEndGrace(m, d, t) ==
  /\ IsEnded(m) /\ Since(t, m.lc.end) <= PostEndGrace
  /\ PlayerHit(d) => d.to \in Known(m) /\ m.enemies[d.to].damaged

Accumulate(m, p) ==
  [m EXCEPT !.players[p] = IF @ \in {"absent", "preloaded"} THEN "up" ELSE @]

Strike(m, d, t) ==
  LET e == d.to
      old == IF e \in Known(m) THEN m.enemies[e] ELSE Unknown
      hit == PutEnemy(m, e, [old EXCEPT !.damaged = TRUE, !.last = IF t > @ THEN t ELSE @])
      seen == Recompute(IF d.dead THEN MarkDead(hit, e) ELSE hit)
      ended == IF m.boss = e THEN EndFightOnBossDeath(seen, e, t) ELSE seen
  IN IF EndOnBossDeath /\ d.dead THEN EndFightOnHeldFinish(ended, t) ELSE seen

\* Mutant: the hit that opens a fight does not stamp it.
CreditUnstamped(m, d, t) ==
  Accumulate([m EXCEPT !.last_event = IF m.lc.st = "idle" THEN @ ELSE t, !.lc = Start(@, t)],
             d.by)

Credit(m, d, t) ==
  LET live == Accumulate([m EXCEPT !.last_event = IF t > @ THEN t ELSE @,
                                   !.lc = Start(@, t)], d.by)
  IN IF m.lc.st = "idle" /\ EndOnBossDeath /\ d.dead /\ d.to \in Entities /\ m.boss = d.to
     THEN EndFightOnBossDeath(live, d.to, t) ELSE live

Land(m, d, t) ==
  LET acting == IF d.by \in Players THEN StandUp(m, d.by) ELSE m
      fell == IF d.dead /\ d.to \in Players
              THEN LatchWipeIfPartyDown(RecordDeath(acting, d.to), t) ELSE acting
      struck == IF d.to \in Entities /\ ~ d.heal THEN Strike(fell, d, t) ELSE fell
  IN IF PlayerHit(d) THEN Credit(struck, d, t) ELSE struck

ApplyDamage(m, d, t) ==
  LET pinned == Pin(m, t)
      held == IF ResumesHeldFight(pinned, d, t)
              THEN [pinned EXCEPT !.lc = Resume(@)] ELSE pinned
      open == IF /\ IsEnded(held) /\ PlayerHit(d)
                 /\ ~ WithholdsNewFight(held, d, t)
                 /\ ~ WithholdsAfterWipe(held, d, t)
                 /\ ~ InPostEndGrace(held, d, t)
              THEN Reset(held, t, "new_fight") ELSE held
  IN IF ~ IsEnded(open) THEN Land(open, d, t)
     ELSE IF InPostEndGrace(open, d, t) /\ PlayerHit(d) THEN Accumulate(open, d.by)
     ELSE open

---------------------------------------------------------------------------
(* apply_enemy_hp: id and hp are NONE when the packet does not carry them. *)

Observe(m, e, id, hp) ==
  LET old == IF e \in Known(m) THEN m.enemies[e] ELSE Unknown
      other == id # NONE /\ old.mon \notin {NONE, id}
      named == IF other THEN [Unknown EXCEPT !.mon = id]
               ELSE [old EXCEPT !.mon = IF id = NONE THEN @ ELSE id]
      level == IF hp = NONE THEN named.hp ELSE hp
      risen == other \/ (hp \notin {NONE, Dead} /\ ~ named.damaged)
      read == PutEnemy(m, e, [named EXCEPT !.hp = level, !.dipped = @ \/ level \in {Dead, Low}])
      kept == IF risen THEN [read EXCEPT !.deaths = Unranked(read, e)] ELSE read
  IN IF hp = Dead THEN MarkDead(kept, e) ELSE kept

\* Mutant: a rollback erases the fight it interrupts even when it was a wipe.
RollbackResets(m, e, t) ==
  IF m.last_reset = NONE \/ Since(t, m.last_reset) >= ResetCooldown
  THEN Reset(m, t, "boss_hp_rollback")
  ELSE [m EXCEPT !.enemies[e].dipped = FALSE]

(* The boss's bar refilled: a wipe if anyone is down, else a re-pull. *)
Rollback(m, e, t) ==
  LET wiped == IF Down(m) = {} THEN m ELSE [Latch(m, "wipe", t, t) EXCEPT !.lc = Hold(@)]
      cool == m.last_reset = NONE \/ Since(t, m.last_reset) >= ResetCooldown
  IN IF cool /\ EndedAt(wiped, t) = NONE THEN Reset(wiped, t, "boss_hp_rollback")
     ELSE [wiped EXCEPT !.enemies[e].dipped = FALSE]

ApplyEnemyHp(m, e, id, hp, t) ==
  LET seen == Recompute(Observe(m, e, id, hp))
      killed == IF EndOnBossDeath /\ m.boss = e /\ seen.enemies[e].hp = Dead
                THEN EndFightOnBossDeath(seen, e, t) ELSE seen
      ended == IF EndOnBossDeath /\ hp = Dead THEN EndFightOnHeldFinish(killed, t) ELSE killed
      refilled == /\ ended.boss = e /\ MonAt(ended, e) \in Boss
                  /\ ended.enemies[e].dipped /\ ended.enemies[e].hp = Full
  IN IF refilled THEN Rollback(ended, e, t) ELSE ended

(* apply_enemy_gone: reason is "dead", another reason, or not given. *)
ApplyEnemyGone(m, e, reason) ==
  IF /\ EndOnBossDeath /\ IsActive(m) /\ m.boss = e /\ e \in Known(m)
     /\ EngagedBoss(m, e, m.last_event)
     /\ reason = "dead" \/ (reason = "unsaid" /\ m.enemies[e].hp \in {Dead, Low})
  THEN EndFightOnBossDeath(Recompute(MarkDead(m, e)), e, m.last_event)
  ELSE m

\* Mutant: the boss is not ranked again after a death.
EnemyDiedUnranked(m, e, t) ==
  IF EndOnBossDeath /\ m.boss = e THEN EndFightOnBossDeath(MarkDead(m, e), e, t)
  ELSE MarkDead(m, e)

(* apply_entity_state *)
EnemyDied(m, e, t) ==
  IF e \notin Known(m) THEN m
  ELSE LET seen == Recompute(MarkDead(m, e))
           ended == IF EndOnBossDeath /\ m.boss = e
                    THEN EndFightOnBossDeath(seen, e, t) ELSE seen
       IN IF EndOnBossDeath THEN EndFightOnHeldFinish(ended, t) ELSE ended

PlayerDied(m, p, t) ==
  IF m.players[p] \in {"preloaded", "up"}
  THEN LatchWipeIfPartyDown(RecordDeath(m, p), t) ELSE m

(* apply_revive, and apply_entity_state for a player who is not dead *)
PlayerRevived(m, p) ==
  IF m.players[p] = "absent" THEN m ELSE ReleaseHoldIfRecovered(StandUp(m, p))

(* apply_team_roster and apply_team_member_left *)
Keep(m, members) ==
  IF ~ InDungeon(m) \/ IsEnded(m) THEN m
  ELSE [m EXCEPT !.players =
          [p \in Players |-> IF p \in members \cup {Local} THEN @[p] ELSE "absent"]]

(* apply_player: a named member seen inside an instance gets a row. *)
ApplyPlayer(m, p) ==
  IF InDungeon(m) /\ m.players[p] = "absent" THEN [m EXCEPT !.players[p] = "preloaded"] ELSE m

---------------------------------------------------------------------------
(* The scene, the server and the dungeon. *)

\* Mutant: entering a dungeon erases the fight it cut short.
ApplySceneEager(m, s) ==
  LET away == m.scene # NONE /\ m.scene # s
      left == [PruneStalePreloads(m) EXCEPT !.finish = FALSE]
      clean == IF away /\ s \in Dungeon /\ ~ m.lc.hold
               THEN ClearDungeon(ClearEnemies(Reset(left, m.last_event, "scene_changed")))
               ELSE m
  IN [clean EXCEPT !.scene = s]

ApplyScene(m, s) ==
  LET away == m.scene # NONE /\ m.scene # s
      pruned == PruneStalePreloads(m)
      left == [IF IsActive(m) THEN Latch(pruned, "scene_changed", m.last_event, m.last_event)
                              ELSE pruned EXCEPT !.finish = FALSE]
      clean == IF ~ IsActive(m) /\ ~ m.lc.hold
               THEN Reset(left, m.last_event, "scene_changed") ELSE left
      entered == ClearDungeon([ClearEnemies(clean) EXCEPT !.boss = NONE, !.lc = Disarm(@)])
      gone == IF s \in Dungeon THEN entered ELSE [left EXCEPT !.lc = ReleaseHold(@)]
  IN [(IF away THEN gone ELSE m) EXCEPT !.scene = s]

ApplyServerChanged(m, t) ==
  LET ended == PruneStalePreloads(Latch(m, "server_changed", t, t))
  IN ClearDungeon([ClearEnemies(ended) EXCEPT !.lc = ReleaseHold(Disarm(@))])

ApplyDungeonState(m, ds) ==
  CASE ds = "null" -> ClearDungeon(m)
    [] ds = "running" -> [m EXCEPT !.dungeon = "running"]
    [] ds = "playing" -> Reset([ClearDungeon(m) EXCEPT !.dungeon = "running"],
                               m.last_event, "dungeon_started")
    [] ds = "terminal" -> CompletionSignal([m EXCEPT !.dungeon = "terminal", !.lc = Disarm(@)])

(* apply_dungeon_objective: complete is "yes", "no" or not in the packet; *)
(* zero says that it carries a count of zero.                             *)
ApplyObjective(m, o, zero, complete) ==
  LET done == IF complete = "yes" THEN m.done \cup {o}
              ELSE IF complete = "no" THEN m.done \ {o} ELSE m.done
      first == IF m.first = NONE THEN o ELSE m.first
      kept == [m EXCEPT !.done = done, !.open = (@ \cup {o}) \ done, !.first = first]
      new == o # m.current /\ complete = "no" /\ zero
      restarted == m.current # NONE /\ m.current # first /\ o = first
      turned == [kept EXCEPT !.current = o]
  IN IF new /\ restarted THEN Reset(turned, m.last_event, "dungeon_started")
     ELSE EndFightOnHeldFinish(IF new THEN turned ELSE kept, m.last_event)

ApplyObjectiveRemoved(m, o) ==
  EndFightOnHeldFinish([m EXCEPT !.open = @ \ {o}, !.done = @ \ {o},
                                 !.current = IF @ = o THEN NONE ELSE @], m.last_event)

---------------------------------------------------------------------------
(* One action per event.  apply returns what it erased, and why. *)

Called == [meter EXCEPT !.reason = "none", !.saved = Nothing]
Becomes(m) == meter' = m /\ UNCHANGED <<clock, now>>

Damages == [by : Players \cup {NONE}, to : Entities \cup Players, heal : BOOLEAN,
            dead : BOOLEAN]

Damage == \E d \in Damages :
            /\ d.heal => d.by # NONE /\ d.to \in Players /\ ~ d.dead
            /\ Becomes(ApplyDamage(Called, d, clock))
EnemyHp == \E e \in Entities : \E id \in MonOf[e], hp \in HpSeen :
             Becomes(ApplyEnemyHp(Called, e, id, hp, clock))
EnemyGone == \E e \in Entities, reason \in {"dead", "other", "unsaid"} :
               Becomes(ApplyEnemyGone(Called, e, reason))
EnemyState == \E e \in Entities : Becomes(EnemyDied(Called, e, clock))
PlayerState == \E p \in Players : Becomes(PlayerDied(Called, p, clock))
Revive == \E p \in Players : Becomes(PlayerRevived(Called, p))
PlayerInfo == \E p \in Players : Becomes(ApplyPlayer(Called, p))
TeamRoster == \E members \in SUBSET Players : Becomes(Keep(Called, members))
TeamMemberLeft == \E p \in Players : Becomes(Keep(Called, Players \ {p}))
Scene == \E s \in Scenes : Becomes(ApplyScene(Called, s))
(* The pipeline stamped it when the connection was adopted (see Pipeline). *)
ServerChanged == \E t \in meter.last_event .. now : Becomes(ApplyServerChanged(Called, t))
DungeonState == \E ds \in DungeonStates : Becomes(ApplyDungeonState(Called, ds))
DungeonVar == DungeonStates # {} /\ Becomes(CompletionSignal(Called))
DungeonObjective == \E o \in Objectives, zero \in BOOLEAN, complete \in {"yes", "no", "unsaid"} :
                      Becomes(ApplyObjective(Called, o, zero, complete))
DungeonObjectiveRemoved == \E o \in Objectives : Becomes(ApplyObjectiveRemoved(Called, o))

(* What the pipeline does by itself: it polls the idle timeout, and passes *)
(* on the user's reset, which does not go through apply.                   *)
Tick == Becomes(Pin(Called, now))
ManualReset == Becomes([Reset(Called, now, "manual") EXCEPT !.saved = Nothing])

Pass == /\ now < Horizon
        /\ now' = now + 1
        /\ clock' = IF clock + MaxLag < now' THEN now' - MaxLag ELSE clock
        /\ meter' = Called
Hear == clock < now /\ clock' = clock + 1 /\ meter' = Called /\ UNCHANGED now

Init == meter = NewMeter /\ clock = 0 /\ now = 0

Next ==
  \/ Damage \/ EnemyHp \/ EnemyGone \/ EnemyState
  \/ PlayerState \/ Revive \/ PlayerInfo \/ TeamRoster \/ TeamMemberLeft
  \/ Scene \/ ServerChanged \/ DungeonState \/ DungeonVar
  \/ DungeonObjective \/ DungeonObjectiveRemoved
  \/ Tick \/ ManualReset \/ Pass \/ Hear

Spec == Init /\ [][Next]_vars

---------------------------------------------------------------------------
Times == 0 .. Horizon

(* The shape of the meter. *)
TypeOK ==
  /\ meter.lc \in Lifecycles(Times, Mons)
  /\ Known(meter) \subseteq Entities
  /\ \A e \in Known(meter) :
       meter.enemies[e] \in [mon : Mons \cup {NONE}, hp : HpSeen \cup {NONE}, dipped : BOOLEAN,
                             damaged : BOOLEAN, last : Times \cup {NONE}]
  /\ Range(meter.deaths) \subseteq Known(meter)
  /\ \A i, j \in DOMAIN meter.deaths : meter.deaths[i] = meter.deaths[j] => i = j
  /\ meter.boss \in Entities \cup {NONE}
  /\ meter.players \in [Players -> Rows]
  /\ meter.scene \in Scenes \cup {NONE}
  /\ meter.dungeon \in {"none", "running", "terminal"}
  /\ meter.open \subseteq Objectives /\ meter.done \subseteq Objectives
  /\ {meter.first, meter.current} \subseteq Objectives \cup {NONE}
  /\ meter.finish \in BOOLEAN
  /\ clock \in Times /\ now \in Times /\ clock <= now

(* The times a fight is displayed and recorded with are never in disorder, *)
(* although they come from four clocks (a packet, the last hit, the idle   *)
(* poll, a scene change): it started no later than its last hit, which no  *)
(* packet is older than; it ended no earlier than that, so no hit it counts *)
(* came after its end; and its end is not in the pipeline's future, nor,   *)
(* but for a change of server, ahead of the packets.                       *)
ClocksInOrder ==
  /\ WellFormed(meter.lc)
  /\ meter.last_event <= clock /\ clock <= now
  /\ meter.lc.st # "idle" => meter.lc.start <= meter.last_event
  /\ IsEnded(meter) => /\ meter.last_event <= meter.lc.end /\ meter.lc.observed <= now
                       /\ meter.lc.end <= clock \/ meter.lc.cause = "server_changed"

(* recompute_boss is never forgotten: whichever handler touched the enemy  *)
(* map, the tracked boss is the one a fresh ranking would choose.  (After  *)
(* a server change it dangles, until the first enemy is seen again.)       *)
BossIsCurrent == Known(meter) # {} => Recompute(meter).boss = meter.boss

(* A run the dungeon reported over has no next phase: a fight ended by a   *)
(* kill does not stay armed, so history does not wait for a resumption and *)
(* the next hit is not folded into it, whichever signal came first.        *)
TerminalRunIsNotResumed ==
  Terminal(meter) /\ meter.lc.cause \in {"boss_death", "dungeon_ended"}
    => meter.lc.armed = NONE

Hit(p, e) == [by |-> p, to |-> e, heal |-> FALSE, dead |-> FALSE]
CountsFrom(t, e) == \A p \in Players : IsActive(ApplyDamage(meter, Hit(p, e), t))

(* A pull is never swallowed: whatever the ended fight is held for, once   *)
(* the grace period is over a hit on a recognized boss other than the one  *)
(* that armed the hold is part of a running fight.                         *)
PullIsCounted ==
  IsEnded(meter) /\ Since(clock, meter.lc.end) > PostEndGrace =>
    \A e \in Known(meter) :
      MonAt(meter, e) \in Boss \ {meter.lc.armed} => CountsFrom(clock, e)

(* No hold is forever: when the grace, phase-resume and wipe windows have  *)
(* all passed, any player's hit on any enemy is part of a running fight.   *)
AllWindowsPast(t) ==
  /\ Since(t, meter.lc.end) > PostEndGrace
  /\ Since(t, meter.lc.end) >= WipeHoldRelease
  /\ Since(t, meter.lc.observed) > PhaseResumeWindow
NoHoldIsForever ==
  IsEnded(meter) /\ AllWindowsPast(clock) => \A e \in Entities : CountsFrom(clock, e)

(* Only the user, a re-pull with nobody down, or the dungeon itself erases *)
(* a fight that is still running.  Any other fight an event erases, even   *)
(* one that ended inside that very event, is handed back for the history.  *)
FightsEraseSafely ==
  [][ meter'.reason # "none" /\ meter.lc.st # "idle" =>
        \/ meter'.reason = "manual"
        \/ IsActive(meter) /\ meter'.reason = "dungeon_started"
        \/ IsActive(meter) /\ meter'.reason = "boss_hp_rollback" /\ Down(meter) = {}
        \/ meter'.saved.lc.st = "ended" /\ meter'.saved.lc.start = meter.lc.start ]_vars

(* An end is final: a latched end keeps its time and its cause until the   *)
(* fight is erased, unless a phase of the boss that armed it goes on; and   *)
(* the fight that goes on is the same one, with its start kept.            *)
EndIsFinal ==
  [][ IsEnded(meter) /\ meter'.reason = "none" =>
        /\ meter'.lc.start = meter.lc.start
        /\ \/ IsEnded(meter') /\ \A f \in {"end", "observed", "cause"} :
                                    meter'.lc[f] = meter.lc[f]
           \/ HasPhaseGroup(meter.lc.armed) ]_vars

(* The fighters of an ended fight are frozen but for the grace period: no  *)
(* player who was not in it comes to be counted as up, which takes a hit,  *)
(* except by hits already in flight.                                       *)
FrozenAfterGrace ==
  [][ IsEnded(meter) /\ meter'.lc.end = meter.lc.end /\ meter'.reason = "none" =>
        \A p \in Players :
          meter.players[p] \in {"absent", "preloaded"} /\ meter'.players[p] = "up"
            => Since(clock, meter.lc.end) <= PostEndGrace ]_vars

(* The fights the pipeline sees: a fight, and what the last call handed back. *)
AsFight(lc) == [st |-> lc.st, start |-> lc.start, end |-> lc.end, cause |-> lc.cause,
                open |-> HasPhaseGroup(lc.armed)]
Contract == INSTANCE Fights WITH
  fight <- AsFight(meter.lc), handed <- AsFight(meter.saved.lc), reason <- meter.reason

(* To the pipeline the meter is a sequence of fights, one after the other: *)
(* each begins with a packet's own time, ends in time order, is never      *)
(* joined to another by a resumption, does not open again once over for    *)
(* good, and leaves the board handed back and not overlapping the next.    *)
ImplementsFights == Contract!Spec

(* The comments say a wipe hold is only ever taken right after a wipe was   *)
(* latched, and so never reaches a running fight.                          *)
RunningFightIsNotHeld == IsActive(meter) => ~ meter.lc.hold

=============================================================================
