SPECIFICATION PipelineSpec
CONSTANTS
  p1 = p1
  p2 = p2
  user = user
  town = town
  dungeon = dungeon
  phase1 = phase1
  phase2 = phase2
  boss = boss
  Mons = {phase1, phase2, boss}
  Boss = {phase1, phase2, boss}
  PhaseGroups <- TwoPhases
  MaxHp <- Hp2
  Dungeon = {dungeon}
  BossSelect = {}
  IdleTimeout = 1
  EngagementWindow = 1
  PhaseResumeWindow = 1
  PostEndGrace = 0
  WipeHoldRelease = 1
  ResetCooldown = 1
  EndOnBossDeath = TRUE
  HpSeen <- FullHp
  Entities = {1}
  MonOf <- TurnsMon
  Players = {p1}
  Local = user
  Scenes = {town, dungeon}
  Objectives = {}
  DungeonStates = {}
  MaxLag = 0
  Horizon = 1
  ServerChangeGrace = 1
  MaxFights = 2
INVARIANTS PendingIsOfTheBoard OneRowPerFight ClocksInOrder
PROPERTY NoFightIsLost
CHECK_DEADLOCK FALSE
