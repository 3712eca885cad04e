SPECIFICATION Spec
CONSTANTS
  o1 = o1
  o2 = o2
  p1 = p1
  p2 = p2
  user = user
  town = town
  dungeon = dungeon
  raid = raid
  phase1 = phase1
  phase2 = phase2
  boss = boss
  mob = mob
  Mons = {phase1, phase2, boss, mob}
  Boss = {phase1, phase2, boss}
  PhaseGroups <- TwoPhases
  MaxHp <- Hp2
  Dungeon = {}
  BossSelect = {}
  IdleTimeout = 1
  EngagementWindow = 1
  PhaseResumeWindow = 1
  PostEndGrace = 0
  WipeHoldRelease = 1
  ResetCooldown = 1
  EndOnBossDeath = TRUE
  HpSeen <- SomeHp
  Entities = {1}
  MonOf <- OneMon
  Players = {p1}
  Local = user
  Scenes = {}
  Objectives = {o1, o2}
  DungeonStates = {"playing", "terminal"}
  MaxLag = 0
  Horizon = 1
INVARIANT TerminalRunIsNotResumed
PROPERTY FightsEraseSafely
