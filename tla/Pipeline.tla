------------------------------ MODULE Pipeline ------------------------------
(***************************************************************************)
(* The pipeline thread of the app crate (pipeline.rs): it owns the meter,  *)
(* feeds it the decoded events, polls it, and records each fight that ends *)
(* in the history, once, with everything that counts for it.  A record is  *)
(* held back while trailing hits may still be folded into the fight, or    *)
(* the boss's next phase may resume it; a server change is held back until *)
(* the adopted connection proves that it decodes.                          *)
(*                                                                         *)
(* The meter is the one of Encounter.  Of a record the model keeps the     *)
(* fight it is of, its rows, when the fight ended and (for the properties) *)
(* why; titles, scenes and numbers are left out.  No record is built of a   *)
(* fight that has no rows left.                                            *)
(***************************************************************************)
EXTENDS Encounter

CONSTANTS
  ServerChangeGrace,  \* how long an adoption may stay unconfirmed
  MaxFights           \* bound on the fights of a session

ASSUME PipelineAssumption == ServerChangeGrace \in Nat /\ MaxFights \in Nat \ {0}

VARIABLES
  fight,      \* diagnostic_fight_id: the number of the fight on the board
  recorded,   \* fight_end_recorded
  pending,    \* pending_fight_end: a record, or NoRecord
  held,       \* held_fight_start_ms, or NONE
  change,     \* pending_server_change, or NONE
  history,    \* the records sent, by fight, oldest first
  over        \* the thread has exited

pvars == <<meter, clock, now, fight, recorded, pending, held, change, history, over>>

NoRecord == [fight |-> 0, rows |-> {}, end |-> NONE, cause |-> "none"]
Record(f, rows, lc) ==
  IF rows = {} THEN NoRecord ELSE [fight |-> f, rows |-> rows, end |-> lc.end, cause |-> lc.cause]

(* The meter, with what apply last returned taken. *)
Uncalled(m) == [m EXCEPT !.reason = "none", !.saved = Nothing]

(* The pipeline's fields, as the record its methods rewrite. *)
Fields == [meter |-> meter, fight |-> fight, recorded |-> recorded, pending |-> pending,
           held |-> held, change |-> change, history |-> history]

---------------------------------------------------------------------------
(* Recording the end of a fight. *)

Flush(s) ==
  IF s.pending = NoRecord THEN s
  ELSE [s EXCEPT !.history[s.pending.fight] = Append(@, s.pending), !.pending = NoRecord]

Captured(s) == Record(s.fight, Fighters(s.meter), s.meter.lc)

(* preserve_reset_fight: no record is built of a fight that has no rows. *)
Preserve(s, record) == IF record = NoRecord THEN s ELSE [s EXCEPT !.pending = record]

Refresh(s) ==
  IF s.pending # NoRecord /\ IsEnded(s.meter) THEN Preserve(s, Captured(s)) ELSE s

\* Mutant: a fight that resumed is not told from one that is gone.
SettleAlways(s) == Flush([s EXCEPT !.held = NONE])

(* The end was left early: the held fight either resumed or is gone. *)
Settle(s) ==
  LET left == [s EXCEPT !.held = NONE]
  IN IF s.held # NONE /\ s.meter.lc.start = s.held
     THEN [left EXCEPT !.pending = NoRecord] ELSE Flush(left)

PhaseResumePending(m) == m.lc.cause = "boss_death" /\ HasPhaseGroup(m.lc.armed)

\* Mutant: the record goes out on the window's last tick.
RecordOnLastTick(s, t) ==
  LET m == s.meter IN
  IF EndedAt(m, t) = NONE THEN [Settle(s) EXCEPT !.recorded = FALSE]
  ELSE IF s.recorded \/ ~ IsEnded(m) THEN s
  ELSE IF Since(t, m.lc.end) < PostEndGrace \/ PhaseResumePending(m)
  THEN IF s.held = NONE THEN [s EXCEPT !.held = m.lc.start, !.pending = Captured(s)] ELSE s
  ELSE Flush([s EXCEPT !.pending = Captured(s), !.recorded = TRUE, !.held = NONE])

(* record_fight_end: an idle end that no tick has latched yet is left alone. *)
RecordFightEnd(s, t) ==
  LET m == s.meter IN
  IF EndedAt(m, t) = NONE THEN [Settle(s) EXCEPT !.recorded = FALSE]
  ELSE IF s.recorded \/ ~ IsEnded(m) THEN s
  ELSE IF Since(t, m.lc.end) <= PostEndGrace \/ PhaseResumePending(m)
  THEN IF s.held = NONE THEN [s EXCEPT !.held = m.lc.start, !.pending = Captured(s)] ELSE s
  ELSE LET final == IF s.pending # NoRecord THEN Refresh(s)
                    ELSE [s EXCEPT !.pending = Captured(s)]
       IN Flush([final EXCEPT !.recorded = TRUE, !.held = NONE])

---------------------------------------------------------------------------
(* Applying an event.  after is the meter apply leaves. *)

Starts(before, after) == after.lc.st # "idle" /\ (before.lc.st = "idle" \/ after.reason # "none")

\* Mutant: the fight an event resets is not taken back from the meter.
ApplyMappedForgetful(s, after, t) ==
  RecordFightEnd([s EXCEPT !.meter = after, !.fight = IF Starts(s.meter, after) THEN @ + 1 ELSE @],
                 t)

ApplyMapped(s, after, t) ==
  LET applied == [s EXCEPT !.meter = after]
      kept == IF ~ s.recorded /\ after.saved # Nothing
              THEN Flush(Preserve(applied, Record(s.fight, after.saved.rows, after.saved.lc)))
              ELSE applied
      reset == IF after.reason = "none" THEN kept
               ELSE [kept EXCEPT !.held = NONE, !.recorded = FALSE]
  IN RecordFightEnd([reset EXCEPT !.fight = IF Starts(s.meter, after) THEN @ + 1 ELSE @], t)

(* The parked server change ends the fight at the moment of the adoption. *)
FlushServerChange(s, t) ==
  IF s.change = NONE THEN s
  ELSE ApplyMapped([s EXCEPT !.change = NONE],
                   ApplyServerChanged(s.meter, s.change), t)

(* An adoption that finds another one unconfirmed cancels both. *)
ArmServerChange(s, t) ==
  RecordFightEnd([s EXCEPT !.change = IF @ = NONE THEN t ELSE NONE], t)

(* tick and then record_fight_end, as publish calls them. *)
Publish(s, t) ==
  LET due == s.change # NONE /\ Since(t, s.change) >= ServerChangeGrace
      landed == IF due THEN FlushServerChange(s, t) ELSE s
  IN RecordFightEnd([landed EXCEPT !.meter = Pin(@, t)], t)

\* Mutant: the reset leaves the record it interrupts behind.
ResetByUserForgets(s, t) ==
  [s EXCEPT !.held = NONE, !.recorded = FALSE, !.meter = Reset(@, t, "manual")]

\* Mutant: the record goes out as it was when it was first held back.
ResetByUserStale(s, t) ==
  [Flush(s) EXCEPT !.held = NONE, !.recorded = FALSE, !.meter = Reset(@, t, "manual")]

ResetByUser(s, t) ==
  LET saved == Flush(Refresh(s))
  IN [saved EXCEPT !.held = NONE, !.recorded = FALSE,
                   !.meter = Reset(@, t, "manual")]

FinalizeForShutdown(s, t) ==
  LET last == RecordFightEnd(Refresh(FlushServerChange(s, t)), t)
  IN IF last.pending = NoRecord THEN last
     ELSE Flush([last EXCEPT !.recorded = TRUE, !.held = NONE])

---------------------------------------------------------------------------
SetTo(s) ==
  /\ s.fight <= MaxFights
  /\ meter' = Uncalled(s.meter)
  /\ fight' = s.fight
  /\ recorded' = s.recorded
  /\ pending' = s.pending
  /\ held' = s.held
  /\ change' = s.change
  /\ history' = s.history

(* The meters an event other than a scene may leave. *)
Outcomes(m) ==
  UNION {
    {ApplyDamage(m, d, clock) :
       d \in {x \in Damages : x.heal => x.by # NONE /\ x.to \in Players /\ ~ x.dead}},
    UNION {{ApplyEnemyHp(m, e, id, hp, clock) : id \in MonOf[e], hp \in HpSeen} : e \in Entities},
    {ApplyEnemyGone(m, e, reason) : e \in Entities, reason \in {"dead", "other", "unsaid"}},
    {EnemyDied(m, e, clock) : e \in Entities},
    {PlayerDied(m, p, clock) : p \in Players}, {PlayerRevived(m, p) : p \in Players},
    {ApplyPlayer(m, p) : p \in Players}, {Keep(m, members) : members \in SUBSET Players},
    {ApplyDungeonState(m, ds) : ds \in DungeonStates},
    {CompletionSignal(m) : ds \in DungeonStates},
    {ApplyObjective(m, o, zero, complete) :
       o \in Objectives, zero \in BOOLEAN, complete \in {"yes", "no", "unsaid"}},
    {ApplyObjectiveRemoved(m, o) : o \in Objectives} }

\* Mutant: a decoded event does not confirm the parked server change.
StepUnconfirmed ==
  /\ ~ over
  /\ \E after \in Outcomes(meter) : SetTo(ApplyMapped(Fields, after, now))
  /\ UNCHANGED <<clock, now, over>>

(* step: whatever the decoder yields confirms the parked server change. *)
Step ==
  /\ ~ over
  /\ \E s \in {FlushServerChange(Fields, now)} :
       \E after \in Outcomes(s.meter) : SetTo(ApplyMapped(s, after, now))
  /\ UNCHANGED <<clock, now, over>>

(* A scene that replaces a known one first refreshes the pending record. *)
StepScene ==
  /\ ~ over
  /\ \E s \in {FlushServerChange(Fields, now)}, scene \in Scenes :
       LET leaving == s.meter.scene \notin {NONE, scene}
       IN SetTo(ApplyMapped(IF leaving THEN Refresh(s) ELSE s,
                            ApplyScene(s.meter, scene), now))
  /\ UNCHANGED <<clock, now, over>>

StepServerChanged == ~ over /\ SetTo(ArmServerChange(Fields, now)) /\ UNCHANGED <<clock, now, over>>
PublishTick == ~ over /\ SetTo(Publish(Fields, now)) /\ UNCHANGED <<clock, now, over>>
UserReset == ~ over /\ SetTo(ResetByUser(Fields, now)) /\ UNCHANGED <<clock, now, over>>

(* Quit, or the command channel closed: the pipeline finalizes, publishes *)
(* once more and exits.                                                   *)
Quit ==
  /\ ~ over /\ over' = TRUE
  /\ SetTo(Publish(FinalizeForShutdown(Fields, now), now))
  /\ UNCHANGED <<clock, now>>

TimePasses ==
  /\ ~ over /\ (Pass \/ Hear)
  /\ UNCHANGED <<fight, recorded, pending, held, change, history, over>>

PipelineInit ==
  /\ Init
  /\ fight = 0 /\ recorded = FALSE /\ pending = NoRecord /\ held = NONE /\ change = NONE
  /\ history = [f \in 1 .. MaxFights |-> <<>>]
  /\ over = FALSE

PipelineNext ==
  Step \/ StepScene \/ StepServerChanged \/ PublishTick \/ UserReset \/ Quit \/ TimePasses

PipelineSpec == PipelineInit /\ [][PipelineNext]_pvars

---------------------------------------------------------------------------
(* The record held back is the one of the fight on the board, which is over *)
(* and has not been recorded: no event, poll, reset or resumption leaves a  *)
(* stale record behind for a later fight to send.                           *)
PendingIsOfTheBoard ==
  pending # NoRecord =>
    IsEnded(meter) /\ ~ recorded /\ held = meter.lc.start /\ pending.fight = fight

(* A fight is recorded once.  The one exception is a fight that ended with  *)
(* a boss armed, but not by its death: the history does not wait for that    *)
(* one to resume, and if it does resume, its row is followed by another.     *)
OneRowPerFight ==
  \A f \in DOMAIN history : \A i \in 1 .. Len(history[f]) - 1 :
    history[f][i].cause \in {"idle_timeout", "dungeon_ended"}

(* The row of the fight on the board has everyone the board shows: it was   *)
(* built after the last trailing hit was folded in.                         *)
RowIsComplete ==
  recorded /\ IsEnded(meter) /\ Fighters(meter) # {} =>
    history[fight] # <<>> /\ Last(history[fight]).rows = Fighters(meter)

(* The row of the fight on the board keeps everyone the board shows: once  *)
(* recorded, nobody joins the fight but by what record_fight_end does not  *)
(* wait for.  It closes the grace on the pipeline's clock, so that a hit   *)
(* that waited in the queue, and is stamped within the grace, comes late;  *)
(* it does not ask for bystanders, who may still die into the fight; nor   *)
(* for a boss left armed by another end than its death, so that a next     *)
(* phase may take that end back and end the fight anew within one event,   *)
(* and the row is of the end before.  And it files nothing of a fight that *)
(* nobody was left in.                                                     *)
RowStaysComplete ==
  [][ RowIsComplete /\ ~ RowIsComplete' =>
        \/ clock < now /\ Since(clock, meter'.lc.end) <= PostEndGrace
        \/ /\ IsEnded(meter)
           /\ Fighters(meter') \ Fighters(meter) \subseteq RowsIn(meter, {"preloaded"})
        \/ IF history'[fight'] = <<>> THEN Fighters(meter) = {}
           ELSE Last(history'[fight']).end # meter'.lc.end ]_pvars

(* No row that is filed misses a fighter of the board: a fight is filed,    *)
(* whether its end is due, an event takes it off the board, or a reset or   *)
(* the exit interrupts it, with everyone the board showed before or, if it  *)
(* stays there, shows after, never as it stood when its record was first    *)
(* held back.                                                               *)
RowsAreWhole ==
  [][ \A f \in DOMAIN history : history'[f] # history[f] =>
        \/ f = fight /\ Fighters(meter) \subseteq Last(history'[f]).rows
        \/ /\ f = fight' /\ IsEnded(meter')
           /\ Fighters(meter') \subseteq Last(history'[f]).rows ]_pvars

(* The fight on the board has rows and is not recorded; once its end is     *)
(* held back, so is a record.                                              *)
Owed == Fighters(meter) # {} /\ ~ recorded /\ (held # NONE => pending # NoRecord)

(* No fight that ended is lost.  A fight with rows is owed a row until it   *)
(* has one, whatever ends, holds or resumes it; and when a reset, the exit *)
(* or another fight takes an ended one off the board it has its row, even  *)
(* if the event that starts the next one is also what finds the end (an    *)
(* idle one, or that of a parked server change) of the last.  The one      *)
(* exception is a fight from which everybody had left when it ended: no    *)
(* record of it is held back, and a late row does not change that.         *)
NoFightIsLost ==
  [][ /\ Fighters(meter') # {} /\ meter'.lc.st # "idle" /\ (Owed \/ fight' # fight)
           => Owed' \/ history'[fight'] # <<>>
      /\ Owed /\ \/ IsEnded(meter) /\ meter'.lc.st = "idle"
                 \/ IsEnded(meter') /\ over'
                 \/ fight' # fight /\ meter.lc.st # "idle"
           => history'[fight] # <<>> ]_pvars

=============================================================================
