-------------------------- MODULE Pipeline_proofs --------------------------
(***************************************************************************)
(* What is proved of the pipeline's bookkeeping of fights, whatever the    *)
(* meter does under it: a record held back is always of the fight on the   *)
(* board, a fight is filed in the history once, unless it went on after an *)
(* end that may be taken back, no fight that ended is lost, and what is    *)
(* filed of it misses nobody.                                              *)
(*                                                                         *)
(* Of the meter the proof uses only what the proofs of Encounter say of    *)
(* every handler, put together in Applied: the fight is the same one, or   *)
(* was erased and handed back (Went), its times are in order (Ok), and a   *)
(* fight that is over keeps its rows (Manned).  The inductive invariant    *)
(* PipelineInv ties the fields of the pipeline to the meter: a record is   *)
(* held back only of an ended fight not recorded yet, and as long as a     *)
(* fight may still get a row (AwaitsRow) every row it has is one it could  *)
(* go on after (Unsettled).  One premise is about the outside: a packet is *)
(* decoded before its fight could time out (LagIsShort), or a hit would    *)
(* start a fight that is already idle.                                     *)
(*                                                                         *)
(* That no fight is lost is a matter of debts.  A fight with rows that is  *)
(* not recorded is owed a row (Debt); a handler that keeps the fight keeps *)
(* the debt or files the row (Quiet), and one that takes the fight off the *)
(* board pays what is owed first (Pays).  LedgerInv adds to the invariant  *)
(* that an end is never left unnoticed (Seen), for it is then that a       *)
(* reset or the exit finds a record to file.  The exit files an idle end   *)
(* it is the first to find because the grace is shorter than the timeout   *)
(* (GraceIsShort).                                                         *)
(*                                                                         *)
(* The rows come next.  Every method files the rows of the board, before   *)
(* or after it (Wholly); and a recorded fight keeps the rows it was filed  *)
(* with (Complete), whoever joins it being overtaken by the record         *)
(* (Overtaken): its row is of an end whose grace has passed on the         *)
(* pipeline's clock (Aged), so that a hit of that grace is one that        *)
(* waited.  Last the clocks: Timely is what every method keeps of the      *)
(* times, whatever it does with the records, and so needs no premise.      *)
(***************************************************************************)
EXTENDS Pipeline, EncounterBoard_proofs

(* The meter between two calls: nothing erased, its times in order, a row  *)
(* for everyone.                                                           *)
Calm(m, c, n) == Fresh(m) /\ Ok(m, c, n) /\ Crew({}, Players, m)

(* What apply makes of it. *)
Applied(m, r, c, n) ==
  /\ Went(m, r, c) /\ Ok(r, c, n) /\ Crew({}, Players, r)
  /\ (IsEnded(m) \/ IsEnded(r)) /\ r.reason = "none" => Fighters(m) \subseteq Fighters(r)

(* What the lemmas on a handler give together.                             *)
LEMMA AppliedIf ==
  ASSUME NEW m, NEW r, NEW c, NEW n, Went(m, r, c), Ok(r, c, n),
         \/ Manned(Fighters(m), Players, r) \/ Crew(Fighters(m), Players, r)
  PROVE  Applied(m, r, c, n)
BY CrewWeaker DEF Manned, Crew, Applied

(* A calm meter is what those lemmas ask for.                              *)
LEMMA CalmStaffed ==
  ASSUME NEW m, NEW c, NEW n, Calm(m, c, n)
  PROVE  /\ Staffed(Fighters(m), Players, m) /\ Fresh(m) /\ Ok(m, c, n) /\ From(m, m)
         /\ Crew(Fighters(m), Players, m)
BY DEF Calm, Staffed, Crew, Fresh, Fighters, RowsIn

(* The party leaves the fight as it is. *)
LEMMA KeepSameFight ==
  ASSUME NEW m, NEW o, From(o, m), NEW members PROVE Keep(m, members).lc = m.lc
BY Zenon DEF Keep, From, NewMeter

(* Every event but a change of scene or server.                            *)
LEMMA OutcomesApplied ==
  ASSUME NEW m, NEW n, Clocks(clock, n), Calm(m, clock, n), NEW r \in Outcomes(m)
  PROVE  Applied(m, r, clock, n)
<1>0. /\ Staffed(Fighters(m), Players, m) /\ Fresh(m) /\ Ok(m, clock, n) /\ From(m, m)
      /\ Crew(Fighters(m), Players, m)
  BY CalmStaffed
<1>1. ASSUME NEW d \in Damages, r = ApplyDamage(m, d, clock) PROVE Applied(m, r, clock, n)
  <2>1. Went(m, r, clock) /\ Ok(r, clock, n)
    BY <1>0, <1>1, ApplyDamageWent, ApplyDamageOk
  <2>2. Manned(Fighters(m), Players, r) \/ Crew(Fighters(m), Players, r)
    BY <1>0, <1>1, ApplyDamageCrew
  <2>3. QED
    BY <2>1, <2>2, AppliedIf
<1>2. ASSUME NEW e, NEW id, NEW hp, r = ApplyEnemyHp(m, e, id, hp, clock)
      PROVE  Applied(m, r, clock, n)
  <2>1. Went(m, r, clock) /\ Ok(r, clock, n)
    BY <1>0, <1>2, ApplyEnemyHpWent, ApplyEnemyHpOk
  <2>2. Manned(Fighters(m), Players, r)
    BY <1>0, <1>2, ApplyEnemyHpCrew
  <2>3. QED
    BY <2>1, <2>2, AppliedIf
<1>3. ASSUME NEW e, NEW reason,
             r = ApplyEnemyGone(m, e, reason) \/ r = EnemyDied(m, e, clock)
      PROVE  Applied(m, r, clock, n)
  <2>1. Went(m, r, clock)
    BY <1>0, <1>3, DeathsFrom, FromWent
  <2>2. Ok(r, clock, n)
    BY <1>0, <1>3, ApplyEnemyGoneOk, EnemyDiedOk
  <2>3. Crew(Fighters(m), Players, r)
    BY <1>0, <1>3, EnemiesCrew
  <2>4. QED
    BY <2>1, <2>2, <2>3, AppliedIf
<1>4. ASSUME NEW p \in Players,
             \/ r = PlayerDied(m, p, clock) \/ r = PlayerRevived(m, p) \/ r = ApplyPlayer(m, p)
      PROVE  Applied(m, r, clock, n)
  <2>1. Went(m, r, clock)
    BY <1>0, <1>4, DeathsFrom, RowsFrom, FromWent
  <2>2. Ok(r, clock, n)
    BY <1>0, <1>4, PlayerStateOk, RowsOk
  <2>3. Crew(Fighters(m), Players, r)
    BY <1>0, <1>4, PlayersCrew
  <2>4. QED
    BY <2>1, <2>2, <2>3, AppliedIf
<1>5. ASSUME NEW members, r = Keep(m, members) PROVE Applied(m, r, clock, n)
  <2>1. Went(m, r, clock) /\ Ok(r, clock, n)
    BY <1>0, <1>5, RowsFrom, FromWent, RowsOk
  <2>2. Crew({}, Players, r) /\ (IsEnded(m) => Crew(Fighters(m), Players, r))
    BY <1>0, <1>5, KeepCrew
  <2>3. r.lc = m.lc
    BY <1>0, <1>5, KeepSameFight
  <2>4. QED
    BY <2>1, <2>2, <2>3 DEF Applied, Crew, IsEnded
<1>6. ASSUME NEW ds \in DungeonStates, r = ApplyDungeonState(m, ds) \/ r = CompletionSignal(m)
      PROVE  Applied(m, r, clock, n)
  <2>1. CASE r = ApplyDungeonState(m, ds)
    <3>1. Went(m, r, clock) /\ Ok(r, clock, n) /\ Manned(Fighters(m), Players, r)
      BY <1>0, <2>1, ApplyDungeonStateWent, ApplyDungeonStateOk, ApplyDungeonStateCrew
    <3>2. QED
      BY <3>1, AppliedIf
  <2>2. CASE r = CompletionSignal(m)
    <3>1. Went(m, r, clock) /\ Ok(r, clock, n) /\ Crew(Fighters(m), Players, r)
      BY <1>0, <2>2, CompletionFrom, FromWent, CompletionSignalOk, EndsKeepCrew
    <3>2. QED
      BY <3>1, AppliedIf
  <2>3. QED
    BY <1>6, <2>1, <2>2
<1>7. ASSUME NEW obj, NEW zero, NEW complete,
             \/ r = ApplyObjective(m, obj, zero, complete) \/ r = ApplyObjectiveRemoved(m, obj)
      PROVE  Applied(m, r, clock, n)
  <2>1. Went(m, r, clock) /\ Ok(r, clock, n) /\ Manned(Fighters(m), Players, r)
    BY <1>0, <1>7, ApplyObjectiveWent, ApplyObjectiveOk, ApplyObjectiveCrew
  <2>2. QED
    BY <2>1, AppliedIf
<1>8. QED
  BY <1>1, <1>2, <1>3, <1>4, <1>5, <1>6, <1>7 DEF Outcomes

(* A change of scene.                                                      *)
LEMMA SceneApplied ==
  ASSUME NEW m, NEW c, NEW n, Clocks(c, n), Calm(m, c, n), NEW s
  PROVE  Applied(m, ApplyScene(m, s), c, n)
<1>0. Staffed(Fighters(m), Players, m) /\ Fresh(m) /\ Ok(m, c, n)
  BY CalmStaffed
<1>1. Went(m, ApplyScene(m, s), c) /\ Ok(ApplyScene(m, s), c, n)
  BY <1>0, ApplySceneWent, ApplySceneOk
<1>2. Manned(Fighters(m), Players, ApplyScene(m, s))
  BY <1>0, ApplySceneCrew
<1>3. QED
  BY <1>1, <1>2, AppliedIf

(* A change of server, which erases nothing.                               *)
LEMMA ServerChangedApplied ==
  ASSUME NEW m, NEW c, NEW n, Clocks(c, n), Calm(m, c, n), NEW t \in Int,
         m.last_event <= t, t <= n
  PROVE  /\ Applied(m, ApplyServerChanged(m, t), c, n) /\ Calm(ApplyServerChanged(m, t), c, n)
<1>0. Crew(Fighters(m), Players, m) /\ Fresh(m) /\ Ok(m, c, n) /\ From(m, m)
  BY CalmStaffed
<1> DEFINE r == ApplyServerChanged(m, t)
<1>1. From(m, r) /\ Ok(r, c, n) /\ Crew(Fighters(m), Players, r)
  BY <1>0, ApplyServerChangedFrom, ApplyServerChangedOk, ApplyServerChangedCrew
<1> HIDE DEF r
<1>2. Applied(m, r, c, n)
  BY <1>0, <1>1, FromWent, AppliedIf
<1>3. Fresh(r)
  BY <1>0, <1>1 DEF Fresh, From, Ok, OkTimes, WellFormed, Kept
<1>4. QED
  BY <1>1, <1>2, <1>3, CrewWeaker DEF Calm, r

---------------------------------------------------------------------------
(* The history. *)

(* Nothing is known of the rows but that they are in a sequence. *)
IsRows(q) == \E S : q \in Seq(S)

(* A row more at the end, the others as they were.                         *)
LEMMA AppendRow ==
  ASSUME NEW q, IsRows(q), NEW x
  PROVE  /\ IsRows(Append(q, x)) /\ Len(q) \in Nat
         /\ Len(Append(q, x)) = Len(q) + 1
         /\ \A i \in 1 .. Len(q) : Append(q, x)[i] = q[i]
         /\ Append(q, x)[Len(q) + 1] = x
<1>1. PICK S : q \in Seq(S)
  BY DEF IsRows
<1>2. q \in Seq(S \cup {x})
  BY <1>1
<1>3. Append(q, x) \in Seq(S \cup {x})
  BY <1>2
<1>4. QED
  BY <1>2, <1>3 DEF IsRows

(* The causes after which a fight may go on although it has its row. *)
Excepted == {"idle_timeout", "dungeon_ended"}
(* All rows of a fight are of such ends.                                   *)
MayGoOn(q) == \A i \in 1 .. Len(q) : q[i].cause \in Excepted

(* The fights up to f have been filed in h, each once but for those. *)
Filed(h, f) ==
  /\ DOMAIN h = 1 .. MaxFights
  /\ \A g \in DOMAIN h :
       /\ IsRows(h[g])
       /\ g > f => h[g] = <<>>
       /\ \A i \in 1 .. Len(h[g]) - 1 : h[g][i].cause \in Excepted

(* Another row may follow those of f. *)
Unsettled(h, f) == f \in DOMAIN h => MayGoOn(h[f])

(* A row filed for a fight that may get one.                               *)
LEMMA FileRow ==
  ASSUME NEW h, NEW f \in Nat, Filed(h, f), Unsettled(h, f), NEW x
  PROVE  /\ Filed([h EXCEPT ![f] = Append(@, x)], f)
         /\ x.cause \in Excepted => Unsettled([h EXCEPT ![f] = Append(@, x)], f)
<1> DEFINE g == [h EXCEPT ![f] = Append(@, x)]
           q == Append(h[f], x)
<1>1. /\ DOMAIN g = DOMAIN h
      /\ f \in DOMAIN h => g[f] = q
      /\ \A k \in DOMAIN h : k # f => g[k] = h[k]
  OBVIOUS
<1>2. f \in DOMAIN h =>
        /\ IsRows(q) /\ Len(h[f]) \in Nat /\ Len(q) = Len(h[f]) + 1
        /\ \A i \in 1 .. Len(h[f]) : q[i] = h[f][i]
        /\ q[Len(h[f]) + 1] = x
  BY AppendRow DEF Filed
<1> HIDE DEF g, q
<1>3. f \in DOMAIN h => /\ \A i \in 1 .. Len(q) - 1 : q[i].cause \in Excepted
                        /\ x.cause \in Excepted => MayGoOn(q)
  <2> SUFFICES ASSUME f \in DOMAIN h
               PROVE  /\ \A i \in 1 .. Len(q) - 1 : q[i].cause \in Excepted
                      /\ x.cause \in Excepted => MayGoOn(q)
    OBVIOUS
  <2> DEFINE L == Len(h[f])
             M == Len(q)
  <2>1. L \in Nat /\ M = L + 1 /\ q[L + 1] = x /\ \A i \in 1 .. L : q[i] = h[f][i]
    BY <1>2
  <2>2. \A i \in 1 .. L : h[f][i].cause \in Excepted
    BY DEF Unsettled, MayGoOn
  <2> HIDE DEF L
  <2>3. \A i \in 1 .. L : q[i].cause \in Excepted
    BY <2>1, <2>2
  <2>4. \A i \in 1 .. M - 1 : q[i].cause \in Excepted
    <3>1. M - 1 = L
      BY <2>1
    <3>2. QED
      BY <2>3, <3>1
  <2>5. x.cause \in Excepted => \A i \in 1 .. M : q[i].cause \in Excepted
    <3> HIDE DEF M
    <3>1. \A i \in 1 .. M : i \in 1 .. L \/ i = L + 1
      BY <2>1
    <3>2. QED
      BY <2>1, <2>3, <3>1
  <2>6. QED
    BY <2>4, <2>5 DEF MayGoOn
<1>4. Filed(g, f)
  <2>1. ASSUME NEW k \in DOMAIN g
        PROVE  /\ IsRows(g[k]) /\ (k > f => g[k] = <<>>)
               /\ \A i \in 1 .. Len(g[k]) - 1 : g[k][i].cause \in Excepted
    <3>1. CASE k = f
      <4>1. ~ (k > f)
        BY <3>1
      <4>2. QED
        BY <1>1, <1>2, <1>3, <2>1, <3>1, <4>1
    <3>2. CASE k # f
      BY <1>1, <2>1, <3>2 DEF Filed
    <3>3. QED
      BY <3>1, <3>2
  <2>2. QED
    BY <1>1, <2>1 DEF Filed
<1>5. x.cause \in Excepted => Unsettled(g, f)
  BY <1>1, <1>3 DEF Unsettled
<1>6. QED
  BY <1>4, <1>5 DEF g

(* f has a row. *)
HasRow(h, f) == f \in DOMAIN h => h[f] # <<>>

(* No fight of h has lost its rows in g.                                   *)
Grown(h, g) == DOMAIN g = DOMAIN h /\ \A f \in DOMAIN h : h[f] # <<>> => g[f] # <<>>

(* A row filed stays. *)
LEMMA RowsStay ==
  ASSUME NEW h, NEW n, Filed(h, n), NEW f, NEW x
  PROVE  /\ Grown(h, [h EXCEPT ![f] = Append(@, x)])
         /\ HasRow([h EXCEPT ![f] = Append(@, x)], f)
<1> DEFINE g == [h EXCEPT ![f] = Append(@, x)]
<1>1. /\ DOMAIN g = DOMAIN h
      /\ f \in DOMAIN h => g[f] = Append(h[f], x)
      /\ \A k \in DOMAIN h : k # f => g[k] = h[k]
  OBVIOUS
<1>2. f \in DOMAIN h => Append(h[f], x) # <<>>
  <2> DEFINE q == Append(h[f], x)
  <2>1. f \in DOMAIN h => Len(h[f]) \in Nat /\ Len(q) = Len(h[f]) + 1
    BY AppendRow DEF Filed
  <2>2. Len(<<>>) = 0
    OBVIOUS
  <2> HIDE DEF q
  <2>3. f \in DOMAIN h => q # <<>>
    BY <2>1, <2>2
  <2>4. QED
    BY <2>3 DEF q
<1> HIDE DEF g
<1>3. QED
  BY <1>1, <1>2 DEF Grown, HasRow, g

(* g is h but for a row more of f, which misses nobody of F. *)
WholeAt(h, g, f, F) == \A k \in DOMAIN h : g[k] # h[k] => k = f /\ F \subseteq Last(g[k]).rows

(* The row filed is the last of its fight. *)
LEMMA LastRow ==
  ASSUME NEW h, NEW n, Filed(h, n), NEW f, NEW x, NEW F, F \subseteq x.rows
  PROVE  WholeAt(h, [h EXCEPT ![f] = Append(@, x)], f, F)
<1> DEFINE g == [h EXCEPT ![f] = Append(@, x)]
<1>1. /\ f \in DOMAIN h => g[f] = Append(h[f], x)
      /\ \A k \in DOMAIN h : k # f => g[k] = h[k]
  OBVIOUS
<1>2. f \in DOMAIN h => Last(Append(h[f], x)) = x
  <2> DEFINE q == Append(h[f], x)
  <2>1. f \in DOMAIN h => Len(q) = Len(h[f]) + 1 /\ q[Len(h[f]) + 1] = x
    BY AppendRow DEF Filed
  <2> HIDE DEF q
  <2>2. QED
    BY <2>1 DEF Last, q
<1> HIDE DEF g
<1>3. QED
  BY <1>1, <1>2 DEF WholeAt, g

(* The next fight has no row yet. *)
LEMMA NewFight ==
  ASSUME NEW h, NEW f \in Nat, Filed(h, f)
  PROVE  Filed(h, f + 1) /\ Unsettled(h, f + 1) /\ f + 1 \in Nat
<1>1. DOMAIN h \subseteq Nat
  BY PipelineAssumption DEF Filed
<1>2. \A g \in DOMAIN h : g > f + 1 => g > f
  BY <1>1
<1>3. f + 1 > f /\ f + 1 \in Nat
  OBVIOUS
<1>4. f + 1 \in DOMAIN h => h[f + 1] = <<>>
  BY <1>3 DEF Filed
<1>5. Unsettled(h, f + 1)
  BY <1>4 DEF Unsettled, MayGoOn
<1>6. QED
  BY <1>2, <1>3, <1>5 DEF Filed

---------------------------------------------------------------------------
(* The pipeline's fields. *)
Fieldnames == {"meter", "fight", "recorded", "pending", "held", "change", "history"}

(* The meter, whether it was just called or not.                           *)
Sane(m, c, n) == Ok(m, c, n) /\ Crew({}, Players, m) /\ RightlyArmed(m.lc, m.dungeon)

(* The record held back and the flags are of the fight on the board. *)
Tied(s) ==
  /\ s.held # NONE => IsEnded(s.meter) /\ ~ s.recorded /\ s.held = s.meter.lc.start
  /\ s.pending # NoRecord =>
       s.held # NONE /\ s.pending.fight = s.fight /\ Fighters(s.meter) # {}
  /\ s.recorded => IsEnded(s.meter)

(* The fight on the board may still get a row: it has none, or it is one    *)
(* that may resume.                                                        *)
AwaitsRow(s) ==
  /\ s.meter.lc.st # "idle"
  /\ s.recorded /\ IsEnded(s.meter) => HasPhaseGroup(s.meter.lc.armed)

(* The fields, apart from what ties them together.                         *)
Shaped(s, c, n) ==
  /\ DOMAIN s = Fieldnames /\ s.fight \in Nat /\ s.recorded \in BOOLEAN
  /\ Sane(s.meter, c, n) /\ Filed(s.history, s.fight)
  /\ s.change # NONE => s.change \in Int /\ s.meter.last_event <= s.change /\ s.change <= n

(* The fields, between two handlers.                                       *)
Sound(s, c, n) ==
  Shaped(s, c, n) /\ Tied(s) /\ (AwaitsRow(s) => Unsettled(s.history, s.fight))

(* Between apply and record_fight_end a fight that resumed is still held. *)
Resuming(s, t) ==
  /\ EndedAt(s.meter, t) = NONE
  /\ s.pending # NoRecord => s.held # NONE /\ s.held = s.meter.lc.start

(* Everything but the record and its flags stays. *)
Beside(s, r) ==
  /\ DOMAIN r = Fieldnames /\ r.meter = s.meter /\ r.fight = s.fight /\ r.change = s.change

(* What has ended has an end, what is not idle a start, and only three     *)
(* causes arm.                                                             *)
LEMMA EndedFacts ==
  ASSUME NEW m, NEW c, NEW n, Sane(m, c, n), NEW t
  PROVE  /\ IsEnded(m) => EndedAt(m, t) # NONE
         /\ m.lc.st # "idle" => m.lc.start # NONE
         /\ m.lc.armed # NONE => m.lc.cause \in Excepted \cup {"boss_death"}
BY DEF Sane, Ok, OkTimes, WellFormed, EndedAt, IsEnded, RightlyArmed, Excepted, NONE

(* A record is captured when somebody fought, and is of the fight on the   *)
(* board.                                                                  *)
LEMMA CapturedFacts ==
  ASSUME NEW s
  PROVE  /\ Captured(s) = NoRecord <=> Fighters(s.meter) = {}
         /\ Captured(s) # NoRecord => /\ Captured(s).fight = s.fight
                                      /\ Captured(s).end = s.meter.lc.end
                                      /\ Captured(s).cause = s.meter.lc.cause
<1>1. Fighters(s.meter) = {} => Captured(s) = NoRecord
  BY DEF Captured, Record
<1>2. Fighters(s.meter) # {} =>
        Captured(s) = [fight |-> s.fight, rows |-> Fighters(s.meter),
                       end |-> s.meter.lc.end, cause |-> s.meter.lc.cause]
  BY DEF Captured, Record
<1>3. Fighters(s.meter) # {} => Captured(s).rows # NoRecord.rows
  BY <1>2 DEF NoRecord
<1>4. QED
  BY <1>1, <1>2, <1>3

(* Flushing files the record held back, if there is one. *)
LEMMA FlushFields ==
  ASSUME NEW s, DOMAIN s = Fieldnames
  PROVE  /\ Beside(s, Flush(s)) /\ Flush(s).pending = NoRecord
         /\ Flush(s).held = s.held /\ Flush(s).recorded = s.recorded
         /\ s.pending = NoRecord => Flush(s).history = s.history
         /\ s.pending # NoRecord =>
              Flush(s).history = [s.history EXCEPT ![s.pending.fight] = Append(@, s.pending)]
<1>1. CASE s.pending = NoRecord
  BY <1>1 DEF Flush, Beside
<1>2. CASE s.pending # NoRecord
  <2> DEFINE r == [s EXCEPT !.history[s.pending.fight] = Append(@, s.pending),
                            !.pending = NoRecord]
  <2>1. /\ DOMAIN r = Fieldnames /\ r.meter = s.meter /\ r.fight = s.fight
        /\ r.change = s.change /\ r.pending = NoRecord /\ r.held = s.held
        /\ r.recorded = s.recorded
        /\ r.history = [s.history EXCEPT ![s.pending.fight] = Append(@, s.pending)]
    BY Zenon DEF Fieldnames
  <2>2. Flush(s) = r
    BY <1>2 DEF Flush
  <2> HIDE DEF r
  <2>3. QED
    BY <1>2, <2>1, <2>2 DEF Beside
<1>3. QED
  BY <1>1, <1>2

---------------------------------------------------------------------------
(* Refreshing replaces a record held back by one of the rows as they are   *)
(* now.                                                                    *)
LEMMA RefreshFields ==
  ASSUME NEW s, DOMAIN s = Fieldnames
  PROVE  /\ Beside(s, Refresh(s)) /\ Refresh(s).held = s.held
         /\ Refresh(s).recorded = s.recorded /\ Refresh(s).history = s.history
         /\ s.pending = NoRecord => Refresh(s).pending = NoRecord
         /\ Refresh(s).pending \in {s.pending, Captured(s)}
         /\ s.pending # NoRecord /\ IsEnded(s.meter) /\ Captured(s) # NoRecord
              => Refresh(s).pending = Captured(s)
         /\ s.pending # NoRecord => Refresh(s).pending # NoRecord
<1> DEFINE r == [s EXCEPT !.pending = Captured(s)]
<1>1. /\ DOMAIN r = Fieldnames /\ r.meter = s.meter /\ r.fight = s.fight
      /\ r.change = s.change /\ r.pending = Captured(s) /\ r.held = s.held
      /\ r.recorded = s.recorded /\ r.history = s.history
  BY Zenon DEF Fieldnames
<1>2. Refresh(s) = IF s.pending # NoRecord /\ IsEnded(s.meter) /\ Captured(s) # NoRecord
                   THEN r ELSE s
  BY DEF Refresh, Preserve
<1> HIDE DEF r
<1>3. QED
  BY <1>1, <1>2 DEF Beside

(* A refreshed record is of the same fight. *)
LEMMA RefreshSound ==
  ASSUME NEW s, NEW c, NEW n, Sound(s, c, n)
  PROVE  Sound(Refresh(s), c, n) /\ Beside(s, Refresh(s))
<1> DEFINE r == Refresh(s)
<1>1. /\ Beside(s, r) /\ r.held = s.held /\ r.recorded = s.recorded /\ r.history = s.history
      /\ s.pending = NoRecord => r.pending = NoRecord
      /\ r.pending \in {s.pending, Captured(s)}
  BY RefreshFields DEF Sound, Shaped
<1> HIDE DEF r
<1>2. Shaped(r, c, n)
  BY <1>1 DEF Sound, Shaped, Beside
<1>3. Tied(r)
  BY <1>1, CapturedFacts DEF Sound, Tied, Beside
<1>4. AwaitsRow(r) => Unsettled(r.history, r.fight)
  BY <1>1 DEF Sound, AwaitsRow, Beside
<1>5. QED
  BY <1>1, <1>2, <1>3, <1>4 DEF Sound, r

(* record_fight_end drops the record of a fight that resumed, leaves alone *)
(* what is recorded or held back, begins to hold back the record of a      *)
(* fight that is over, or files it when it is over for good.               *)
Unended(s, r, t) ==
  /\ EndedAt(s.meter, t) = NONE
  /\ r.held = NONE /\ r.pending = NoRecord /\ r.recorded = FALSE /\ r.history = s.history

Settled(s, r, t) ==
  /\ EndedAt(s.meter, t) # NONE /\ r = s
  /\ IsEnded(s.meter) => s.recorded \/ s.held # NONE

HoldsBack(s, r, t) ==
  /\ IsEnded(s.meter) /\ ~ s.recorded /\ s.held = NONE
  /\ Since(t, s.meter.lc.end) <= PostEndGrace \/ PhaseResumePending(s.meter)
  /\ r.held = s.meter.lc.start /\ r.pending = Captured(s) /\ r.recorded = s.recorded
  /\ r.history = s.history

Files(s, r, t) ==
  /\ IsEnded(s.meter) /\ ~ s.recorded
  /\ Since(t, s.meter.lc.end) > PostEndGrace /\ ~ PhaseResumePending(s.meter)
  /\ r.held = NONE /\ r.pending = NoRecord /\ r.recorded = TRUE
  /\ Captured(s) = NoRecord => r.history = s.history
  /\ Captured(s) # NoRecord =>
       r.history = [s.history EXCEPT ![s.fight] = Append(@, Captured(s))]

LEMMA RecordFightEndFields ==
  ASSUME NEW s, NEW c, NEW n, NEW t, Clocks(c, n), t = n, Shaped(s, c, n),
         Tied(s) \/ Resuming(s, t)
  PROVE  LET r == RecordFightEnd(s, t)
         IN /\ Beside(s, r)
            /\ Unended(s, r, t) \/ Settled(s, r, t) \/ HoldsBack(s, r, t) \/ Files(s, r, t)
<1> DEFINE m == s.meter
           left == [s EXCEPT !.held = NONE]
           dropped == [left EXCEPT !.pending = NoRecord]
           settled == IF s.held # NONE /\ m.lc.start = s.held THEN dropped ELSE Flush(left)
           waits == [s EXCEPT !.held = m.lc.start, !.pending = Captured(s)]
           final == IF s.pending # NoRecord THEN Refresh(s)
                    ELSE [s EXCEPT !.pending = Captured(s)]
           closed == [final EXCEPT !.recorded = TRUE, !.held = NONE]
           r == RecordFightEnd(s, t)
<1>0. DOMAIN s = Fieldnames /\ Sane(m, c, n) /\ s.fight \in Nat
  BY DEF Shaped
<1>1. r = IF EndedAt(m, t) = NONE THEN [settled EXCEPT !.recorded = FALSE]
          ELSE IF s.recorded \/ ~ IsEnded(m) THEN s
          ELSE IF Since(t, m.lc.end) <= PostEndGrace \/ PhaseResumePending(m)
          THEN IF s.held = NONE THEN waits ELSE s
          ELSE Flush(closed)
  BY Zenon DEF RecordFightEnd, Settle
<1> HIDE DEF r
<1>2. SUFFICES Beside(s, r) /\ (Unended(s, r, t) \/ Settled(s, r, t) \/ HoldsBack(s, r, t)
                                \/ Files(s, r, t))
  BY DEF r
<1>3. CASE EndedAt(m, t) = NONE
  <2>1. s.pending # NoRecord => s.held # NONE /\ m.lc.start = s.held
    BY <1>0, <1>3, EndedFacts DEF Tied, Resuming
  <2>2. /\ DOMAIN left = Fieldnames /\ left.meter = m /\ left.fight = s.fight
        /\ left.change = s.change /\ left.held = NONE /\ left.pending = s.pending
        /\ left.history = s.history
    BY <1>0, Zenon DEF Fieldnames
  <2>3. /\ DOMAIN dropped = Fieldnames /\ dropped.meter = m /\ dropped.fight = s.fight
        /\ dropped.change = s.change /\ dropped.held = NONE /\ dropped.pending = NoRecord
        /\ dropped.history = s.history
    BY <1>0, Zenon DEF Fieldnames
  <2> HIDE DEF left, dropped
  <2>4. /\ Beside(s, settled) /\ settled.held = NONE /\ settled.pending = NoRecord
        /\ settled.history = s.history
    <3>1. CASE s.held # NONE /\ m.lc.start = s.held
      BY <2>3, <3>1 DEF Beside
    <3>2. CASE ~ (s.held # NONE /\ m.lc.start = s.held)
      <4>1. left.pending = NoRecord
        BY <2>1, <2>2, <3>2
      <4>2. /\ Beside(left, Flush(left)) /\ Flush(left).pending = NoRecord
            /\ Flush(left).held = left.held /\ Flush(left).history = left.history
        BY <2>2, <4>1, FlushFields
      <4>3. QED
        BY <2>2, <3>2, <4>2 DEF Beside
    <3>3. QED
      BY <3>1, <3>2
  <2> HIDE DEF settled
  <2> DEFINE z == [settled EXCEPT !.recorded = FALSE]
  <2>5. /\ DOMAIN z = Fieldnames /\ z.meter = settled.meter /\ z.fight = settled.fight
        /\ z.change = settled.change /\ z.held = settled.held
        /\ z.pending = settled.pending /\ z.recorded = FALSE
        /\ z.history = settled.history
    BY <2>4, Zenon DEF Beside, Fieldnames
  <2>6. r = z
    BY <1>1, <1>3
  <2> HIDE DEF z
  <2>7. QED
    BY <1>3, <2>4, <2>5, <2>6 DEF Beside, Unended
<1>4. CASE EndedAt(m, t) # NONE
  <2>0. Beside(s, s)
    BY <1>0 DEF Beside
  <2>1. CASE s.recorded \/ ~ IsEnded(m)
    BY <1>1, <1>4, <2>0, <2>1 DEF Settled
  <2>2. CASE ~ s.recorded /\ IsEnded(m)
    <3>1. CASE Since(t, m.lc.end) <= PostEndGrace \/ PhaseResumePending(m)
      <4>1. CASE s.held # NONE
        BY <1>1, <1>4, <2>0, <2>2, <3>1, <4>1 DEF Settled
      <4>2. CASE s.held = NONE
        <5>1. r = waits
          BY <1>1, <1>4, <2>2, <3>1, <4>2
        <5>2. /\ DOMAIN waits = Fieldnames /\ waits.meter = m /\ waits.fight = s.fight
              /\ waits.change = s.change /\ waits.held = m.lc.start
              /\ waits.pending = Captured(s) /\ waits.recorded = s.recorded
              /\ waits.history = s.history
          BY <1>0, Zenon DEF Fieldnames
        <5> HIDE DEF waits
        <5>3. QED
          BY <2>2, <3>1, <4>2, <5>1, <5>2 DEF HoldsBack, Beside
      <4>3. QED
        BY <4>1, <4>2
    <3>2. CASE ~ (Since(t, m.lc.end) <= PostEndGrace \/ PhaseResumePending(m))
      <4>1. r = Flush(closed)
        BY <1>1, <1>4, <2>2, <3>2
      <4>2. Beside(s, final) /\ final.history = s.history /\ final.pending = Captured(s)
        <5>1. CASE s.pending # NoRecord
          <6>1. Captured(s) # NoRecord
            BY <1>4, <5>1, CapturedFacts DEF Tied, Resuming
          <6>2. QED
            BY <1>0, <2>2, <5>1, <6>1, RefreshFields
        <5>2. CASE s.pending = NoRecord
          <6> DEFINE z == [s EXCEPT !.pending = Captured(s)]
          <6>1. /\ DOMAIN z = Fieldnames /\ z.meter = s.meter /\ z.fight = s.fight
                /\ z.change = s.change /\ z.history = s.history /\ z.pending = Captured(s)
            BY <1>0, Zenon DEF Fieldnames
          <6>2. final = z
            BY <5>2
          <6> HIDE DEF z, final
          <6>3. QED
            BY <6>1, <6>2 DEF Beside
        <5>3. QED
          BY <5>1, <5>2
      <4> HIDE DEF final
      <4>3. /\ DOMAIN closed = Fieldnames /\ closed.meter = final.meter
            /\ closed.fight = final.fight /\ closed.change = final.change
            /\ closed.history = final.history /\ closed.pending = final.pending
            /\ closed.recorded = TRUE /\ closed.held = NONE
        BY <4>2, Zenon DEF Beside, Fieldnames
      <4> HIDE DEF closed
      <4>4. /\ Beside(closed, r) /\ r.pending = NoRecord /\ r.held = NONE /\ r.recorded = TRUE
            /\ closed.pending = NoRecord => r.history = closed.history
            /\ closed.pending # NoRecord =>
                 r.history = [closed.history EXCEPT ![closed.pending.fight] =
                                Append(@, closed.pending)]
        BY <4>1, <4>3, FlushFields
      <4>5. Beside(s, r)
        BY <4>2, <4>3, <4>4 DEF Beside
      <4>6. /\ Captured(s) = NoRecord => r.history = s.history
            /\ Captured(s) # NoRecord =>
                 r.history = [s.history EXCEPT ![s.fight] = Append(@, Captured(s))]
        <5> DEFINE x == Captured(s)
                   h == closed.history
                   y == closed.pending
        <5>1. x # NoRecord => x.fight = s.fight
          BY CapturedFacts
        <5>2. y = x /\ h = s.history
          BY <4>2, <4>3
        <5>3. /\ y = NoRecord => r.history = h
              /\ y # NoRecord => r.history = [h EXCEPT ![y.fight] = Append(@, y)]
          BY <4>4
        <5> HIDE DEF x, h, y
        <5>4. x # NoRecord => r.history = [h EXCEPT ![s.fight] = Append(@, x)]
          BY <5>1, <5>2, <5>3
        <5>5. x # NoRecord => r.history = [s.history EXCEPT ![s.fight] = Append(@, x)]
          BY <5>2, <5>4
        <5>6. x = NoRecord => r.history = s.history
          BY <5>2, <5>3
        <5>7. QED
          BY <5>5, <5>6 DEF x
      <4>7. Since(t, m.lc.end) > PostEndGrace
        <5>1. m.lc.end \in Int /\ t \in Int /\ PostEndGrace \in Int
          BY <1>0, <2>2, WindowsAssumption DEF Sane, Ok, OkTimes, IsEnded, Clocks
        <5>2. QED
          BY <3>2, <5>1 DEF Since
      <4>8. QED
        BY <2>2, <3>2, <4>4, <4>5, <4>6, <4>7 DEF Files
    <3>3. QED
      BY <3>1, <3>2
  <2>3. s.recorded \in BOOLEAN
    BY DEF Shaped
  <2>4. QED
    BY <2>1, <2>2, <2>3
<1>5. QED
  BY <1>3, <1>4

(* It ties the record to the board.                                        *)
LEMMA RecordFightEndSound ==
  ASSUME NEW s, NEW c, NEW n, NEW t, Clocks(c, n), t = n, Shaped(s, c, n),
         Tied(s) \/ Resuming(s, t), AwaitsRow(s) => Unsettled(s.history, s.fight)
  PROVE  Sound(RecordFightEnd(s, t), c, n) /\ Beside(s, RecordFightEnd(s, t))
<1> DEFINE m == s.meter
           r == RecordFightEnd(s, t)
<1>1. /\ Beside(s, r)
      /\ Unended(s, r, t) \/ Settled(s, r, t) \/ HoldsBack(s, r, t) \/ Files(s, r, t)
  BY RecordFightEndFields
<1> HIDE DEF r
<1>2. s.fight \in Nat /\ Sane(m, c, n)
  BY DEF Shaped
<1>3. CASE Unended(s, r, t)
  <2>1. ~ IsEnded(m)
    BY <1>2, <1>3, EndedFacts DEF Unended
  <2>2. Shaped(r, c, n) /\ Tied(r) /\ (AwaitsRow(r) => AwaitsRow(s))
    BY <1>1, <1>3, <2>1 DEF Shaped, Tied, AwaitsRow, Beside, Unended
  <2>3. QED
    BY <1>1, <1>3, <2>2 DEF Sound, Beside, Unended, r
<1>4. CASE Settled(s, r, t)
  BY <1>1, <1>4 DEF Settled, Resuming, Sound, r
<1>5. ASSUME IsEnded(m), ~ s.recorded
      PROVE  AwaitsRow(s) /\ Unsettled(s.history, s.fight) /\ m.lc.start # NONE /\ Tied(s)
  BY <1>2, <1>5, EndedFacts DEF AwaitsRow, IsEnded, Resuming
<1>6. CASE HoldsBack(s, r, t)
  <2>1. Unsettled(s.history, s.fight) /\ m.lc.start # NONE
    BY <1>5, <1>6 DEF HoldsBack
  <2>2. Tied(r)
    BY <1>1, <1>6, <2>1, CapturedFacts DEF Tied, Beside, HoldsBack
  <2>3. Shaped(r, c, n)
    BY <1>1, <1>6 DEF Shaped, Beside, HoldsBack
  <2>4. QED
    BY <1>1, <1>6, <2>1, <2>2, <2>3 DEF Sound, Beside, HoldsBack, r
<1>7. CASE Files(s, r, t)
  <2>1. Unsettled(s.history, s.fight)
    BY <1>5, <1>7 DEF Files
  <2>2. HasPhaseGroup(m.lc.armed) => m.lc.cause \in Excepted
    BY <1>2, <1>7, EndedFacts, NoneHasNoGroup DEF PhaseResumePending, Files
  <2>3. /\ Filed(r.history, s.fight)
        /\ HasPhaseGroup(m.lc.armed) => Unsettled(r.history, s.fight)
    <3>1. CASE Captured(s) = NoRecord
      BY <1>7, <2>1, <3>1 DEF Shaped, Files
    <3>2. CASE Captured(s) # NoRecord
      <4> DEFINE h == s.history
                 f == s.fight
                 x == Captured(s)
      <4>1. Filed(h, f) /\ Unsettled(h, f) /\ f \in Nat
        BY <1>2, <2>1 DEF Shaped
      <4>2. r.history = [h EXCEPT ![f] = Append(@, x)]
        BY <1>7, <3>2 DEF Files
      <4>3. x.cause = m.lc.cause
        BY <3>2, CapturedFacts
      <4> HIDE DEF h, f, x
      <4>4. /\ Filed(r.history, f)
            /\ x.cause \in Excepted => Unsettled(r.history, f)
        BY <4>1, <4>2, FileRow
      <4>5. QED
        BY <2>2, <4>3, <4>4 DEF f
    <3>3. QED
      BY <3>1, <3>2
  <2>4. Shaped(r, c, n) /\ Tied(r)
    BY <1>1, <1>7, <2>3 DEF Shaped, Tied, Beside, Files
  <2>5. AwaitsRow(r) => Unsettled(r.history, r.fight)
    BY <1>1, <1>7, <2>3 DEF AwaitsRow, Beside, Files
  <2>6. QED
    BY <1>1, <2>4, <2>5 DEF Sound, r
<1>8. QED
  BY <1>1, <1>3, <1>4, <1>6, <1>7

---------------------------------------------------------------------------
(* A hit is never so late that its fight is idle when it comes. *)
Prompt(c, n) == IdleTimeout > 0 => n - c < IdleTimeout

(* A fight just hit is not over by the idle timeout.                       *)
LEMMA JustHit ==
  ASSUME NEW m, NEW c, NEW n, Clocks(c, n), Prompt(c, n), m.last_event = c, ~ IsEnded(m)
  PROVE  EndedAt(m, n) = NONE
<1>1. IdleTimeout > 0 => ~ (Since(n, m.last_event) >= IdleTimeout)
  BY WindowsAssumption DEF Prompt, Since, Clocks
<1>2. QED
  BY <1>1 DEF EndedAt

(* apply_mapped with an event that erased nothing. *)
LEMMA NotErasedSound ==
  ASSUME NEW s, NEW c, NEW n, Clocks(c, n), Prompt(c, n), Sound(s, c, n),
         NEW after, Applied(s.meter, after, c, n), after.reason = "none", s.change = NONE,
         NEW r, DOMAIN r = Fieldnames, r.meter = after, r.recorded = s.recorded,
         r.pending = s.pending, r.held = s.held, r.change = s.change, r.history = s.history,
         r.fight = IF after.lc.st # "idle" /\ s.meter.lc.st = "idle" THEN s.fight + 1
                   ELSE s.fight
  PROVE  /\ Shaped(r, c, n) /\ (Tied(r) \/ Resuming(r, n))
         /\ AwaitsRow(r) => Unsettled(r.history, r.fight)
<1> DEFINE m == s.meter
<1>1. /\ Sane(after, c, n) /\ Sane(m, c, n) /\ Filed(s.history, s.fight) /\ s.fight \in Nat
      /\ m.lc.st = "ended" => Kept(m.lc, after.lc) \/ Resumed(m, after, c)
      /\ IsEnded(m) => Fighters(m) \subseteq Fighters(after)
      /\ m.lc.st \in {"idle", "active", "ended"}
  BY DEF Sound, Shaped, Sane, Applied, Went, Ok, OkTimes, WellFormed
<1>2. CASE m.lc.st = "idle"
  <2>1. s.held = NONE /\ s.pending = NoRecord /\ ~ s.recorded
    BY <1>2 DEF Sound, Tied, IsEnded
  <2>2. Tied(r)
    BY <2>1 DEF Tied
  <2>3. Filed(r.history, r.fight) /\ r.fight \in Nat
    BY <1>1, <1>2, NewFight
  <2>4. AwaitsRow(r) => Unsettled(r.history, r.fight)
    BY <1>1, <1>2, NewFight DEF AwaitsRow
  <2>5. QED
    BY <1>1, <2>2, <2>3, <2>4 DEF Sound, Shaped
<1>3. CASE m.lc.st = "active"
  <2>1. s.held = NONE /\ s.pending = NoRecord /\ ~ s.recorded
    BY <1>3 DEF Sound, Tied, IsEnded
  <2>2. r.fight = s.fight /\ Unsettled(s.history, s.fight)
    BY <1>3, <2>1 DEF Sound, AwaitsRow
  <2>3. QED
    BY <1>1, <2>1, <2>2 DEF Sound, Shaped, Tied
<1>4. CASE m.lc.st = "ended"
  <2>1. r.fight = s.fight /\ IsEnded(m)
    BY <1>4 DEF IsEnded
  <2>2. Shaped(r, c, n)
    BY <1>1, <2>1 DEF Sound, Shaped
  <2>3. IsEnded(after) /\ after.lc.start = m.lc.start => Tied(r)
    BY <1>1, <2>1 DEF Sound, Tied
  <2>4. CASE Kept(m.lc, after.lc)
    <3>1. IsEnded(after) /\ after.lc.start = m.lc.start /\ after.lc.armed \in {m.lc.armed, NONE}
      BY <1>4, <2>4 DEF Kept, IsEnded
    <3>2. AwaitsRow(r) => AwaitsRow(s)
      BY <1>4, <2>1, <3>1, NoneHasNoGroup DEF AwaitsRow
    <3>3. QED
      BY <2>1, <2>2, <2>3, <3>1, <3>2 DEF Sound
  <2>5. CASE Resumed(m, after, c)
    <3>1. after.lc.start = m.lc.start /\ after.last_event = c /\ HasPhaseGroup(m.lc.armed)
      BY <2>5 DEF Resumed
    <3>2. Unsettled(r.history, r.fight)
      BY <1>4, <2>1, <3>1 DEF Sound, AwaitsRow
    <3>3. ~ IsEnded(after) => EndedAt(after, n) = NONE
      BY <3>1, JustHit
    <3>4. s.pending # NoRecord => s.held # NONE /\ s.held = m.lc.start
      BY DEF Sound, Tied
    <3>5. Tied(r) \/ Resuming(r, n)
      BY <2>3, <3>1, <3>3, <3>4 DEF Resuming
    <3>6. QED
      BY <2>2, <3>2, <3>5
  <2>6. QED
    BY <1>1, <1>4, <2>4, <2>5
<1>5. QED
  BY <1>1, <1>2, <1>3, <1>4

(* A record is of the fight it is made for.                                *)
LEMMA RecordFacts ==
  ASSUME NEW f, NEW rows, NEW lc
  PROVE  /\ Record(f, rows, lc) # NoRecord => Record(f, rows, lc).fight = f
         /\ Record(f, rows, lc).rows = rows
BY DEF Record, NoRecord

(* apply_mapped with one that erased the fight, after it has been filed. *)
LEMMA ErasedFiled ==
  ASSUME NEW s, NEW c, NEW n, Sound(s, c, n),
         NEW after, Applied(s.meter, after, c, n), after.reason # "none",
         NEW applied, DOMAIN applied = Fieldnames, applied.meter = after,
         applied.fight = s.fight, applied.recorded = s.recorded, applied.pending = s.pending,
         applied.held = s.held, applied.change = s.change, applied.history = s.history,
         NEW record, record # NoRecord => record.fight = s.fight,
         after.saved # Nothing => Fighters(s.meter) \subseteq record.rows,
         NEW k, k = IF ~ s.recorded /\ after.saved # Nothing
                    THEN Flush(Preserve(applied, record)) ELSE applied
  PROVE  /\ DOMAIN k = Fieldnames /\ k.meter = after /\ k.fight = s.fight
         /\ k.change = s.change /\ k.pending = NoRecord /\ Filed(k.history, s.fight)
         /\ Grown(s.history, k.history)
         /\ ~ s.recorded /\ after.saved # Nothing /\ record # NoRecord
              => HasRow(k.history, s.fight)
         /\ WholeAt(s.history, k.history, s.fight, Fighters(s.meter))
<1> DEFINE m == s.meter
<1>1. Erased(m, after, c) /\ Filed(s.history, s.fight) /\ s.fight \in Nat
  BY DEF Applied, Went, Sound, Shaped
<1>2. CASE ~ s.recorded /\ after.saved # Nothing
  <2> DEFINE p == Preserve(applied, record)
             z == [applied EXCEPT !.pending = record]
  <2>1. m.lc.st # "idle"
    BY <1>1, <1>2 DEF Erased, IsActive
  <2>2. Unsettled(s.history, s.fight)
    BY <1>2, <2>1 DEF Sound, AwaitsRow
  <2>3. /\ DOMAIN z = Fieldnames /\ z.meter = applied.meter /\ z.fight = applied.fight
        /\ z.change = applied.change /\ z.history = applied.history /\ z.pending = record
    BY Zenon DEF Fieldnames
  <2>4. p = IF record = NoRecord THEN applied ELSE z
    BY DEF Preserve
  <2> HIDE DEF z
  <2>5. /\ DOMAIN p = Fieldnames /\ p.meter = after /\ p.fight = s.fight
        /\ p.change = s.change /\ p.history = s.history
        /\ p.pending # NoRecord => p.pending.fight = s.fight
        /\ record # NoRecord => p.pending = record
        /\ Fighters(m) \subseteq p.pending.rows
    <3>1. record = NoRecord => Fighters(m) = {}
      BY <1>2 DEF NoRecord
    <3>2. QED
      BY <1>2, <2>3, <2>4, <3>1 DEF Sound, Tied
  <2> HIDE DEF p
  <2>6. /\ Beside(p, k) /\ k.pending = NoRecord
        /\ p.pending = NoRecord => k.history = p.history
        /\ p.pending # NoRecord =>
             k.history = [p.history EXCEPT ![p.pending.fight] = Append(@, p.pending)]
    <3>1. k = Flush(p)
      BY <1>2 DEF p
    <3>2. QED
      BY <2>5, <3>1, FlushFields
  <2>7. /\ Filed(k.history, s.fight) /\ Grown(s.history, k.history)
        /\ p.pending # NoRecord => HasRow(k.history, s.fight)
        /\ WholeAt(s.history, k.history, s.fight, Fighters(m))
    <3>1. CASE p.pending = NoRecord
      BY <1>1, <2>5, <2>6, <3>1 DEF Grown, WholeAt
    <3>2. CASE p.pending # NoRecord
      <4> DEFINE h == s.history
                 f == s.fight
                 x == p.pending
                 g == k.history
                 F == Fighters(m)
      <4>1. Filed(h, f) /\ Unsettled(h, f) /\ f \in Nat
        BY <1>1, <2>2
      <4>2. k.history = [h EXCEPT ![f] = Append(@, x)]
        BY <2>5, <2>6, <3>2
      <4>3. g = [h EXCEPT ![f] = Append(@, x)] /\ F \subseteq x.rows
        BY <2>5, <4>2
      <4> HIDE DEF h, f, x, g, F
      <4>4. /\ Filed(g, f)
            /\ x.cause \in Excepted => Unsettled(g, f)
        BY <4>1, <4>3, FileRow
      <4>5. Grown(h, g) /\ HasRow(g, f) /\ WholeAt(h, g, f, F)
        BY <4>1, <4>3, RowsStay, LastRow
      <4>6. QED
        BY <4>4, <4>5 DEF f, g, h, F
    <3>3. QED
      BY <3>1, <3>2
  <2>8. QED
    BY <2>5, <2>6, <2>7 DEF Beside
<1>3. CASE ~ (~ s.recorded /\ after.saved # Nothing)
  <2>1. s.recorded => s.pending = NoRecord
    BY DEF Sound, Tied
  <2>2. after.saved = Nothing => s.pending = NoRecord
    <3>1. after.saved = Nothing => m.lc.st # "ended"
      <4>1. Nothing.lc.st # "ended"
        BY DEF Nothing, Idle
      <4>2. QED
        BY <1>1, <4>1 DEF Erased, IsActive
    <3>2. QED
      BY <3>1 DEF Sound, Tied, IsEnded
  <2>3. QED
    BY <1>1, <1>3, <2>1, <2>2 DEF Grown, WholeAt
<1>4. QED
  BY <1>2, <1>3

---------------------------------------------------------------------------
(* apply_mapped, whatever the event did: what record_fight_end then finds. *)
Mapped(s, after, n, x) ==
  /\ x.meter = after /\ x.change = NONE
  /\ x.fight = IF Starts(s.meter, after) THEN s.fight + 1 ELSE s.fight
  /\ Tied(x) \/ Resuming(x, n)
  /\ AwaitsRow(x) => Unsettled(x.history, x.fight)
  /\ Grown(s.history, x.history)
  /\ WholeAt(s.history, x.history, s.fight, Fighters(s.meter))
  /\ after.reason = "none" => /\ x.recorded = s.recorded /\ x.pending = s.pending
                              /\ x.held = s.held /\ x.history = s.history
  /\ after.reason # "none" =>
       /\ ~ x.recorded /\ x.held = NONE
       /\ ~ s.recorded /\ after.saved # Nothing /\ after.saved.rows # {}
            => HasRow(x.history, s.fight)

LEMMA ApplyMappedIs ==
  ASSUME NEW s, NEW c, NEW n, Clocks(c, n), Prompt(c, n), Sound(s, c, n),
         NEW after, Applied(s.meter, after, c, n), s.change = NONE
  PROVE  \E x : /\ ApplyMapped(s, after, n) = RecordFightEnd(x, n)
                /\ Shaped(x, c, n) /\ Mapped(s, after, n, x)
<1> DEFINE applied == [s EXCEPT !.meter = after]
           record == Record(s.fight, after.saved.rows, after.saved.lc)
           kept == IF ~ s.recorded /\ after.saved # Nothing
                   THEN Flush(Preserve(applied, record)) ELSE applied
           cleared == [kept EXCEPT !.held = NONE, !.recorded = FALSE]
           reset == IF after.reason = "none" THEN kept ELSE cleared
           number == IF Starts(s.meter, after) THEN reset.fight + 1 ELSE reset.fight
           next == [reset EXCEPT !.fight = number]
<1>0. ApplyMapped(s, after, n) = RecordFightEnd(next, n)
  BY Zenon DEF ApplyMapped
<1>1. /\ DOMAIN applied = Fieldnames /\ applied.meter = after /\ applied.fight = s.fight
      /\ applied.recorded = s.recorded /\ applied.pending = s.pending
      /\ applied.held = s.held /\ applied.change = s.change /\ applied.history = s.history
  BY Zenon DEF Sound, Shaped, Fieldnames
<1> HIDE DEF applied
<1>2. DOMAIN reset = Fieldnames =>
        /\ DOMAIN next = Fieldnames /\ next.meter = reset.meter /\ next.fight = number
        /\ next.recorded = reset.recorded /\ next.pending = reset.pending
        /\ next.held = reset.held /\ next.change = reset.change
        /\ next.history = reset.history
  BY Zenon DEF Fieldnames
<1> HIDE DEF next
<1>3. SUFFICES Shaped(next, c, n) /\ Mapped(s, after, n, next)
  BY <1>0
<1>4. CASE after.reason = "none"
  <2>1. after.saved = Nothing
    BY <1>4 DEF Applied, Went
  <2>2. reset = applied
    BY <1>4, <2>1
  <2> HIDE DEF reset
  <2>3. number = IF Starts(s.meter, after) THEN s.fight + 1 ELSE s.fight
    BY <1>1, <2>2
  <2> HIDE DEF number
  <2>4. /\ DOMAIN next = Fieldnames /\ next.meter = after /\ next.recorded = s.recorded
        /\ next.pending = s.pending /\ next.held = s.held /\ next.change = s.change
        /\ next.history = s.history
        /\ next.fight = IF Starts(s.meter, after) THEN s.fight + 1 ELSE s.fight
    BY <1>1, <1>2, <2>2, <2>3
  <2>5. Starts(s.meter, after) <=> after.lc.st # "idle" /\ s.meter.lc.st = "idle"
    BY <1>4 DEF Starts
  <2>6. /\ Shaped(next, c, n) /\ (Tied(next) \/ Resuming(next, n))
        /\ AwaitsRow(next) => Unsettled(next.history, next.fight)
    BY <1>4, <2>4, <2>5, NotErasedSound
  <2>7. QED
    BY <1>4, <2>4, <2>6 DEF Mapped, Grown, WholeAt
<1>5. CASE after.reason # "none"
  <2>0. after.saved # Nothing => Fighters(s.meter) \subseteq record.rows
    BY <1>5, RecordFacts DEF Applied, Went, Erased
  <2>1. record # NoRecord => record.fight = s.fight
    BY RecordFacts
  <2>2. after.saved.rows # {} => record # NoRecord
    <3>1. after.saved.rows # {} => record.rows # NoRecord.rows
      BY RecordFacts DEF NoRecord
    <3>2. QED
      BY <3>1
  <2> HIDE DEF record
  <2>3. /\ DOMAIN kept = Fieldnames /\ kept.meter = after /\ kept.fight = s.fight
        /\ kept.change = s.change /\ kept.pending = NoRecord /\ Filed(kept.history, s.fight)
        /\ Grown(s.history, kept.history)
        /\ ~ s.recorded /\ after.saved # Nothing /\ record # NoRecord
             => HasRow(kept.history, s.fight)
        /\ WholeAt(s.history, kept.history, s.fight, Fighters(s.meter))
    BY <1>1, <1>5, <2>0, <2>1, ErasedFiled
  <2> HIDE DEF kept
  <2>4. /\ DOMAIN cleared = Fieldnames /\ cleared.meter = kept.meter
        /\ cleared.fight = kept.fight /\ cleared.change = kept.change
        /\ cleared.pending = kept.pending /\ cleared.history = kept.history
        /\ cleared.held = NONE /\ cleared.recorded = FALSE
    BY <2>3, Zenon DEF Fieldnames
  <2>5. reset = cleared
    BY <1>5
  <2>6. number = IF Starts(s.meter, after) THEN s.fight + 1 ELSE s.fight
    BY <2>3, <2>4, <2>5
  <2>7. Starts(s.meter, after) <=> after.lc.st # "idle"
    BY <1>5 DEF Starts
  <2> HIDE DEF reset, cleared, number
  <2>8. /\ DOMAIN next = Fieldnames /\ next.meter = after /\ next.recorded = FALSE
        /\ next.pending = NoRecord /\ next.held = NONE /\ next.change = NONE
        /\ next.history = kept.history
        /\ next.fight = IF Starts(s.meter, after) THEN s.fight + 1 ELSE s.fight
    BY <1>2, <2>3, <2>4, <2>5, <2>6
  <2>9. s.fight \in Nat /\ Sane(after, c, n)
    BY DEF Sound, Shaped, Sane, Applied, Went
  <2>10. /\ next.fight \in Nat /\ Filed(next.history, next.fight)
         /\ after.lc.st # "idle" => Unsettled(next.history, next.fight)
    BY <2>3, <2>7, <2>8, <2>9, NewFight
  <2>11. Shaped(next, c, n) /\ Tied(next)
    BY <2>8, <2>9, <2>10 DEF Shaped, Tied
  <2>12. AwaitsRow(next) => Unsettled(next.history, next.fight)
    BY <2>8, <2>10 DEF AwaitsRow
  <2>13. QED
    BY <1>5, <2>2, <2>3, <2>8, <2>11, <2>12 DEF Mapped
<1>6. QED
  BY <1>4, <1>5

(* It leaves the fields sound.                                             *)
LEMMA ApplyMappedSound ==
  ASSUME NEW s, NEW c, NEW n, Clocks(c, n), Prompt(c, n), Sound(s, c, n),
         NEW after, Applied(s.meter, after, c, n), s.change = NONE
  PROVE  /\ Sound(ApplyMapped(s, after, n), c, n) /\ ApplyMapped(s, after, n).meter = after
         /\ ApplyMapped(s, after, n).change = NONE
<1>1. PICK x : /\ ApplyMapped(s, after, n) = RecordFightEnd(x, n)
               /\ Shaped(x, c, n) /\ Mapped(s, after, n, x)
  BY ApplyMappedIs
<1>2. /\ x.meter = after /\ x.change = NONE /\ (Tied(x) \/ Resuming(x, n))
      /\ AwaitsRow(x) => Unsettled(x.history, x.fight)
  BY <1>1 DEF Mapped
<1>3. Sound(RecordFightEnd(x, n), c, n) /\ Beside(x, RecordFightEnd(x, n))
  BY <1>1, <1>2, RecordFightEndSound
<1>4. QED
  BY <1>1, <1>2, <1>3 DEF Beside

(* The parked server change lands. *)
LEMMA FlushServerChangeSound ==
  ASSUME NEW s, NEW c, NEW n, Clocks(c, n), Prompt(c, n), Sound(s, c, n), Calm(s.meter, c, n)
  PROVE  /\ Sound(FlushServerChange(s, n), c, n) /\ Calm(FlushServerChange(s, n).meter, c, n)
         /\ FlushServerChange(s, n).change = NONE
<1>1. CASE s.change = NONE
  BY <1>1 DEF FlushServerChange
<1>2. CASE s.change # NONE
  <2> DEFINE z == [s EXCEPT !.change = NONE]
             after == ApplyServerChanged(s.meter, s.change)
  <2>1. /\ DOMAIN z = Fieldnames /\ z.meter = s.meter /\ z.fight = s.fight
        /\ z.recorded = s.recorded /\ z.pending = s.pending /\ z.held = s.held
        /\ z.change = NONE /\ z.history = s.history
    BY Zenon DEF Sound, Shaped, Fieldnames
  <2>2. FlushServerChange(s, n) = ApplyMapped(z, after, n)
    BY <1>2 DEF FlushServerChange
  <2> HIDE DEF z
  <2>3. Sound(z, c, n)
    BY <2>1 DEF Sound, Shaped, Tied, AwaitsRow
  <2>4. s.change \in Int /\ s.meter.last_event <= s.change /\ s.change <= n
    BY <1>2 DEF Sound, Shaped
  <2>5. Applied(s.meter, after, c, n) /\ Calm(after, c, n)
    BY <2>4, ServerChangedApplied
  <2> HIDE DEF after
  <2>6. /\ Sound(ApplyMapped(z, after, n), c, n) /\ ApplyMapped(z, after, n).meter = after
        /\ ApplyMapped(z, after, n).change = NONE
    BY <2>1, <2>3, <2>5, ApplyMappedSound
  <2>7. QED
    BY <2>2, <2>5, <2>6
<1>3. QED
  BY <1>1, <1>2

(* r is s with a meter on which the same fight is. *)
Swapped(s, r) ==
  /\ DOMAIN r = Fieldnames /\ r.fight = s.fight /\ r.recorded = s.recorded
  /\ r.pending = s.pending /\ r.held = s.held /\ r.change = s.change
  /\ r.history = s.history /\ Kept(s.meter.lc, r.meter.lc)
  /\ s.meter.lc.st = "idle" => r.meter.lc.st = "idle"
  /\ Fighters(r.meter) = Fighters(s.meter)
  /\ r.meter.last_event = s.meter.last_event

(* Such a change keeps record and board tied.                              *)
LEMMA SwappedSound ==
  ASSUME NEW s, NEW r, NEW c, NEW n, Shaped(s, c, n), Tied(s), Swapped(s, r),
         Sane(r.meter, c, n)
  PROVE  Shaped(r, c, n) /\ Tied(r) /\ (AwaitsRow(r) => AwaitsRow(s))
<1>0. s.meter.lc.st \in {"idle", "active", "ended"}
  BY DEF Shaped, Sane, Ok, OkTimes, WellFormed
<1>1. Shaped(r, c, n)
  BY DEF Shaped, Swapped
<1>2. IsEnded(s.meter) => /\ IsEnded(r.meter) /\ r.meter.lc.start = s.meter.lc.start
                          /\ r.meter.lc.armed \in {s.meter.lc.armed, NONE}
  BY DEF Swapped, Kept, IsEnded
<1>3. Tied(r)
  BY <1>2 DEF Tied, Swapped
<1>4. AwaitsRow(r) => AwaitsRow(s)
  <2>1. s.recorded => IsEnded(s.meter)
    BY DEF Tied
  <2>2. r.recorded = s.recorded /\ (r.meter.lc.st # "idle" => s.meter.lc.st # "idle")
    BY DEF Swapped
  <2>3. QED
    BY <1>2, <2>1, <2>2, NoneHasNoGroup DEF AwaitsRow
<1>5. QED
  BY <1>1, <1>3, <1>4

(* The idle end is pinned. *)
LEMMA PinSwaps ==
  ASSUME NEW s, NEW c, NEW n, Clocks(c, n), Shaped(s, c, n), Calm(s.meter, c, n)
  PROVE  /\ Swapped(s, [s EXCEPT !.meter = Pin(@, n)])
         /\ [s EXCEPT !.meter = Pin(@, n)].meter = Pin(s.meter, n)
         /\ Sane(Pin(s.meter, n), c, n) /\ Calm(Pin(s.meter, n), c, n)
<1> DEFINE m == s.meter
           p == Pin(m, n)
           r == [s EXCEPT !.meter = Pin(@, n)]
<1>1. /\ DOMAIN r = Fieldnames /\ r.fight = s.fight /\ r.recorded = s.recorded
      /\ r.pending = s.pending /\ r.held = s.held /\ r.change = s.change
      /\ r.history = s.history /\ r.meter = p
  BY Zenon DEF Shaped, Fieldnames
<1>2. From(m, m) /\ Ok(m, c, n) /\ Crew({}, Players, m)
  BY DEF Calm, Fresh
<1>3. From(m, p) /\ Fighters(p) = Fighters(m) /\ (m.lc.st = "idle" => p.lc.st = "idle")
  BY <1>2, PinKeeps
<1>4. Ok(p, c, n) /\ p.last_event = m.last_event
  <2>1. n \in Int /\ c <= n /\ n <= n
    BY DEF Clocks
  <2>2. QED
    BY <1>2, <2>1, PinOk
<1>5. Crew({}, Players, p)
  BY <1>2, EndsKeepCrew
<1> HIDE DEF r, p
<1>6. Fresh(p)
  BY <1>3, <1>4 DEF Calm, Fresh, From, Ok, OkTimes, WellFormed, Kept
<1>7. Sane(p, c, n) /\ Calm(p, c, n)
  BY <1>3, <1>4, <1>5, <1>6 DEF Sane, Calm, From
<1>8. Swapped(s, r)
  BY <1>1, <1>3, <1>4 DEF Swapped, From
<1>9. QED
  BY <1>1, <1>7, <1>8 DEF r, p

(* publish. *)
LEMMA PublishSound ==
  ASSUME NEW s, NEW c, NEW n, Clocks(c, n), Prompt(c, n), Sound(s, c, n), Calm(s.meter, c, n)
  PROVE  Sound(Publish(s, n), c, n) /\ Calm(Publish(s, n).meter, c, n)
<1> DEFINE due == s.change # NONE /\ Since(n, s.change) >= ServerChangeGrace
           landed == IF due THEN FlushServerChange(s, n) ELSE s
           r == [landed EXCEPT !.meter = Pin(@, n)]
<1>1. Publish(s, n) = RecordFightEnd(r, n)
  BY Zenon DEF Publish
<1>2. Sound(landed, c, n) /\ Calm(landed.meter, c, n)
  BY FlushServerChangeSound
<1> HIDE DEF landed
<1>3. Shaped(landed, c, n) /\ Tied(landed)
  BY <1>2 DEF Sound
<1>4. /\ Swapped(landed, r) /\ r.meter = Pin(landed.meter, n)
      /\ Sane(r.meter, c, n) /\ Calm(r.meter, c, n)
  BY <1>2, <1>3, PinSwaps
<1> HIDE DEF r
<1>5. Shaped(r, c, n) /\ Tied(r) /\ (AwaitsRow(r) => AwaitsRow(landed))
  BY <1>3, <1>4, SwappedSound
<1>6. AwaitsRow(r) => Unsettled(r.history, r.fight)
  BY <1>2, <1>4, <1>5 DEF Sound, Swapped
<1>7. Sound(RecordFightEnd(r, n), c, n) /\ Beside(r, RecordFightEnd(r, n))
  BY <1>5, <1>6, RecordFightEndSound
<1>8. QED
  BY <1>1, <1>4, <1>7 DEF Beside

---------------------------------------------------------------------------
(* The record held back goes to the history of its own fight. *)
LEMMA FlushFiled ==
  ASSUME NEW s, DOMAIN s = Fieldnames, Filed(s.history, s.fight), s.fight \in Nat,
         s.pending # NoRecord => s.pending.fight = s.fight /\ Unsettled(s.history, s.fight)
  PROVE  Filed(Flush(s).history, s.fight)
<1> DEFINE h == s.history
           f == s.fight
           x == s.pending
           g == Flush(s).history
<1>1. /\ s.pending = NoRecord => g = h
      /\ s.pending # NoRecord => g = [h EXCEPT ![x.fight] = Append(@, x)]
  BY FlushFields
<1>2. CASE s.pending = NoRecord
  BY <1>1, <1>2
<1>3. CASE s.pending # NoRecord
  <2>1. g = [h EXCEPT ![f] = Append(@, x)]
    BY <1>1, <1>3
  <2>2. Filed(h, f) /\ Unsettled(h, f) /\ f \in Nat
    BY <1>3
  <2> HIDE DEF h, f, x, g
  <2>3. /\ Filed(g, f)
        /\ x.cause \in Excepted => Unsettled(g, f)
    BY <2>1, <2>2, FileRow
  <2>4. QED
    BY <2>3 DEF g, f
<1>4. QED
  BY <1>2, <1>3

(* A record is held back only of a fight that may get a row. *)
LEMMA HeldAwaits ==
  ASSUME NEW s, NEW c, NEW n, Sound(s, c, n), s.pending # NoRecord
  PROVE  /\ s.pending.fight = s.fight /\ Unsettled(s.history, s.fight) /\ IsEnded(s.meter)
         /\ ~ s.recorded /\ s.held = s.meter.lc.start
BY DEF Sound, Tied, AwaitsRow, IsEnded

(* An adoption is parked, or cancels the one that is. *)
LEMMA ArmServerChangeSound ==
  ASSUME NEW s, NEW c, NEW n, Clocks(c, n), Sound(s, c, n)
  PROVE  Sound(ArmServerChange(s, n), c, n)
<1> DEFINE ch == IF s.change = NONE THEN n ELSE NONE
           z == [s EXCEPT !.change = ch]
<1>1. ArmServerChange(s, n) = RecordFightEnd(z, n)
  BY Zenon DEF ArmServerChange
<1>2. /\ DOMAIN z = Fieldnames /\ z.meter = s.meter /\ z.fight = s.fight
      /\ z.recorded = s.recorded /\ z.pending = s.pending /\ z.held = s.held
      /\ z.change = ch /\ z.history = s.history
  BY Zenon DEF Sound, Shaped, Fieldnames
<1>3. ch # NONE => ch \in Int /\ s.meter.last_event <= ch /\ ch <= n
  <2>1. n \in Int /\ n <= n /\ s.meter.last_event <= n
    BY DEF Sound, Shaped, Sane, Ok, OkTimes, Clocks
  <2>2. QED
    BY <2>1
<1> HIDE DEF ch, z
<1>4. Shaped(z, c, n) /\ Tied(z)
  BY <1>2, <1>3 DEF Sound, Shaped, Tied
<1>5. AwaitsRow(z) => Unsettled(z.history, z.fight)
  BY <1>2 DEF Sound, AwaitsRow
<1>6. QED
  BY <1>1, <1>4, <1>5, RecordFightEndSound

(* The user's reset. *)
LEMMA ResetByUserSound ==
  ASSUME NEW s, NEW c, NEW n, Clocks(c, n), Sound(s, c, n)
  PROVE  Sound(ResetByUser(s, n), c, n)
<1> DEFINE fresh == Refresh(s)
           saved == Flush(fresh)
           m == Reset(saved.meter, n, "manual")
           r == [saved EXCEPT !.held = NONE, !.recorded = FALSE,
                              !.meter = Reset(@, n, "manual")]
<1>0. ResetByUser(s, n) = r
  BY Zenon DEF ResetByUser
<1>1. Sound(fresh, c, n) /\ Beside(s, fresh)
  BY RefreshSound
<1> HIDE DEF fresh
<1>2. /\ Beside(fresh, saved) /\ saved.pending = NoRecord
      /\ Filed(saved.history, fresh.fight)
  <2>1. DOMAIN fresh = Fieldnames /\ Filed(fresh.history, fresh.fight) /\ fresh.fight \in Nat
    BY <1>1 DEF Sound, Shaped
  <2>2. QED
    BY <1>1, <2>1, FlushFields, FlushFiled, HeldAwaits
<1> HIDE DEF saved
<1>3. /\ DOMAIN r = Fieldnames /\ r.meter = m /\ r.fight = saved.fight /\ r.recorded = FALSE
      /\ r.pending = saved.pending /\ r.held = NONE /\ r.change = saved.change
      /\ r.history = saved.history
  BY <1>2, Zenon DEF Beside, Fieldnames
<1>4. Sane(saved.meter, c, n)
  BY <1>1, <1>2 DEF Sound, Shaped, Beside
<1>5. /\ Ok(m, c, n) /\ m.last_event = saved.meter.last_event /\ Crew({}, Players, m)
      /\ RightlyArmed(m.lc, m.dungeon) /\ m.lc = Idle
  <2>1. From(saved.meter, saved.meter)
    BY <1>4 DEF Sane, Ok, OkTimes, From, Kept
  <2>2. From(m, m) /\ m.lc = Idle
    BY <2>1, ResetHandsBack
  <2>3. Ok(m, c, n) /\ m.last_event = saved.meter.last_event
    BY <1>4, ResetOk DEF Sane
  <2>4. Crew({}, Players, m)
    BY <1>4, ResetCrew DEF Sane
  <2> HIDE DEF m
  <2>5. QED
    BY <2>2, <2>3, <2>4 DEF From
<1> HIDE DEF m, r
<1>6. m.lc.st = "idle"
  BY <1>5 DEF Idle
<1>7. Shaped(r, c, n)
  BY <1>1, <1>2, <1>3, <1>5 DEF Sound, Shaped, Sane, Beside
<1>8. Tied(r) /\ ~ AwaitsRow(r)
  BY <1>2, <1>3, <1>6 DEF Tied, AwaitsRow
<1>9. QED
  BY <1>0, <1>7, <1>8 DEF Sound

(* What is left when the thread exits. *)
Finished(s, c, n) == Shaped(s, c, n) /\ Tied(s)

(* The exit: the last record, if the fight is over, and one more publish, *)
(* which files nothing.                                                    *)
LEMMA QuitFinishes ==
  ASSUME NEW s, NEW c, NEW n, Clocks(c, n), Prompt(c, n), Sound(s, c, n), Calm(s.meter, c, n)
  PROVE  Finished(Publish(FinalizeForShutdown(s, n), n), c, n)
<1> DEFINE landed == FlushServerChange(s, n)
           fresh == Refresh(landed)
           last == RecordFightEnd(fresh, n)
           marked == [last EXCEPT !.recorded = TRUE, !.held = NONE]
           q == Flush(marked)
           f == FinalizeForShutdown(s, n)
<1>0. f = IF last.pending = NoRecord THEN last ELSE q
  BY Zenon DEF FinalizeForShutdown
<1> HIDE DEF f
<1> SUFFICES Finished(Publish(f, n), c, n)
  BY DEF f
<1>1. Sound(landed, c, n) /\ Calm(landed.meter, c, n) /\ landed.change = NONE
  BY FlushServerChangeSound
<1> HIDE DEF landed
<1>2. Sound(fresh, c, n) /\ Beside(landed, fresh)
  BY <1>1, RefreshSound
<1> HIDE DEF fresh
<1>3. Sound(last, c, n) /\ Beside(fresh, last)
  BY <1>2, RecordFightEndSound DEF Sound
<1> HIDE DEF last
<1>4. Calm(last.meter, c, n) /\ last.change = NONE
  BY <1>1, <1>2, <1>3 DEF Beside
<1>5. CASE last.pending = NoRecord
  BY <1>0, <1>3, <1>4, <1>5, PublishSound DEF Sound, Finished
<1>6. CASE last.pending # NoRecord
  <2>1. f = q
    BY <1>0, <1>6
  <2>2. /\ last.pending.fight = last.fight /\ Unsettled(last.history, last.fight)
        /\ IsEnded(last.meter) /\ Filed(last.history, last.fight) /\ last.fight \in Nat
        /\ DOMAIN last = Fieldnames /\ Sane(last.meter, c, n)
    BY <1>3, <1>6, HeldAwaits DEF Sound, Shaped
  <2>3. /\ DOMAIN marked = Fieldnames /\ marked.meter = last.meter
        /\ marked.fight = last.fight /\ marked.change = last.change
        /\ marked.pending = last.pending /\ marked.history = last.history
        /\ marked.held = NONE /\ marked.recorded = TRUE
    BY <2>2, Zenon DEF Fieldnames
  <2> HIDE DEF marked
  <2>4. /\ Beside(marked, q) /\ q.pending = NoRecord /\ q.held = NONE /\ q.recorded = TRUE
        /\ Filed(q.history, marked.fight)
    BY <2>2, <2>3, FlushFields, FlushFiled
  <2> HIDE DEF q
  <2>5. /\ Shaped(q, c, n) /\ Tied(q) /\ IsEnded(q.meter) /\ q.change = NONE
        /\ Calm(q.meter, c, n)
    BY <1>4, <2>2, <2>3, <2>4 DEF Shaped, Tied, Beside
  <2> DEFINE r == [q EXCEPT !.meter = Pin(@, n)]
  <2>6. Publish(q, n) = RecordFightEnd(r, n)
    BY <2>5, Zenon DEF Publish
  <2>7. /\ Swapped(q, r) /\ r.meter = Pin(q.meter, n) /\ Sane(r.meter, c, n)
    BY <2>5, PinSwaps
  <2> HIDE DEF r
  <2>8. Shaped(r, c, n) /\ Tied(r) /\ r.recorded /\ IsEnded(r.meter)
    BY <2>4, <2>5, <2>7, SwappedSound DEF Swapped, Tied
  <2>9. EndedAt(r.meter, n) # NONE
    BY <2>7, <2>8, EndedFacts
  <2>10. RecordFightEnd(r, n) = r
    BY <2>8, <2>9, Zenon DEF RecordFightEnd
  <2>11. QED
    BY <2>1, <2>6, <2>8, <2>10 DEF Finished
<1>7. QED
  BY <1>5, <1>6

---------------------------------------------------------------------------
(* The inductive invariant of the pipeline. *)
PipelineInv ==
  /\ Clocks(clock, now) /\ now - clock <= MaxLag
  /\ Calm(meter, clock, now)
  /\ Shaped(Fields, clock, now) /\ Tied(Fields)
  /\ ~ over => (AwaitsRow(Fields) => Unsettled(history, fight))

(* No packet is older than the idle timeout when it is decoded. *)
LagIsShort == IdleTimeout > 0 => MaxLag < IdleTimeout

(* What apply returned is taken from the meter, nothing else.              *)
LEMMA UncalledCalm ==
  ASSUME NEW m, NEW c, NEW n, Sane(m, c, n)
  PROVE  /\ Sane(Uncalled(m), c, n) /\ Calm(Uncalled(m), c, n)
         /\ Uncalled(m).lc = m.lc /\ Fighters(Uncalled(m)) = Fighters(m)
         /\ Uncalled(m).last_event = m.last_event
<1> DEFINE u == Uncalled(m)
<1>1. /\ DOMAIN u = DOMAIN NewMeter /\ u.lc = m.lc /\ u.last_event = m.last_event
      /\ u.players = m.players /\ u.dungeon = m.dungeon /\ u.reason = "none"
      /\ u.saved = Nothing
  BY Zenon DEF Sane, Ok, Uncalled, NewMeter
<1>2. SameCrew(m, u)
  BY <1>1 DEF SameCrew, Sane, Ok
<1> HIDE DEF u
<1>3. Fighters(u) = Fighters(m)
  BY <1>1, Zenon DEF Fighters, RowsIn
<1>4. Ok(u, c, n) /\ Crew({}, Players, u) /\ RightlyArmed(u.lc, u.dungeon)
  <2>1. Crew({}, Players, u)
    BY <1>2, SameCrewKeeps DEF Sane
  <2>2. QED
    BY <1>1, <2>1 DEF Sane, Ok
<1>5. Fresh(u)
  BY <1>1, <1>4 DEF Fresh, From, Ok, OkTimes, WellFormed, Kept
<1>6. QED
  BY <1>1, <1>3, <1>4, <1>5 DEF Sane, Calm, u

(* The fields, one by one.                                                 *)
LEMMA FieldsAre ==
  /\ DOMAIN Fields = Fieldnames /\ Fields.meter = meter /\ Fields.fight = fight
  /\ Fields.recorded = recorded /\ Fields.pending = pending /\ Fields.held = held
  /\ Fields.change = change /\ Fields.history = history
BY DEF Fields, Fieldnames

(* The state a step leaves. *)
LEMMA SetToSound ==
  ASSUME NEW s, Shaped(s, clock, now), Tied(s), SetTo(s)
  PROVE  /\ Shaped(Fields', clock, now) /\ Tied(Fields') /\ Calm(meter', clock, now)
         /\ AwaitsRow(Fields') => AwaitsRow(s)
         /\ history' = s.history /\ fight' = s.fight
<1> DEFINE f == Fields'
<1>1. /\ DOMAIN f = Fieldnames /\ f.meter = Uncalled(s.meter) /\ f.fight = s.fight
      /\ f.recorded = s.recorded /\ f.pending = s.pending /\ f.held = s.held
      /\ f.change = s.change /\ f.history = s.history
  BY DEF SetTo, Fields, Fieldnames
<1> HIDE DEF f
<1>2. /\ Sane(Uncalled(s.meter), clock, now) /\ Calm(Uncalled(s.meter), clock, now)
      /\ Uncalled(s.meter).lc = s.meter.lc /\ Fighters(Uncalled(s.meter)) = Fighters(s.meter)
      /\ Uncalled(s.meter).last_event = s.meter.last_event
  BY UncalledCalm DEF Shaped
<1>3. Swapped(s, f)
  BY <1>1, <1>2 DEF Swapped, Kept
<1>4. Shaped(f, clock, now) /\ Tied(f) /\ (AwaitsRow(f) => AwaitsRow(s))
  BY <1>1, <1>2, <1>3, SwappedSound
<1>5. meter' = Uncalled(s.meter) /\ history' = s.history /\ fight' = s.fight
  BY DEF SetTo
<1>6. QED
  BY <1>2, <1>4, <1>5 DEF f

(* The invariant holds when the thread starts.                             *)
LEMMA PipelineInvInit == PipelineInit => PipelineInv
<1> SUFFICES ASSUME PipelineInit PROVE PipelineInv
  OBVIOUS
<1>1. /\ meter = NewMeter /\ clock = 0 /\ now = 0 /\ fight = 0 /\ recorded = FALSE
      /\ pending = NoRecord /\ held = NONE /\ change = NONE
      /\ history = [f \in 1 .. MaxFights |-> <<>>]
  BY DEF PipelineInit, Init
<1>2. Clocks(clock, now) /\ now - clock <= MaxLag
  BY <1>1, WindowsAssumption DEF Clocks
<1>3. Sane(meter, clock, now) /\ meter.lc.st = "idle" /\ meter.reason = "none"
      /\ meter.saved = Nothing
  <2>1. /\ DOMAIN meter = DOMAIN NewMeter /\ meter.players = [p \in Players |-> "absent"]
        /\ meter.lc = Idle /\ meter.reason = "none" /\ meter.saved = Nothing
    BY <1>1, Zenon DEF NewMeter
  <2>2. Ok(meter, clock, now)
    BY ClockInit DEF PipelineInit, ClockInv
  <2>3. Crew({}, Players, meter)
    BY <2>1 DEF Crew, Rows, Upright, RowsIn
  <2>4. RightlyArmed(meter.lc, meter.dungeon) /\ meter.lc.st = "idle"
    BY <2>1 DEF RightlyArmed, Idle
  <2>5. QED
    BY <2>1, <2>2, <2>3, <2>4 DEF Sane
<1>4. Calm(meter, clock, now)
  BY <1>3 DEF Calm, Sane, Fresh, From, Ok, OkTimes, Kept
<1>5. Filed(history, fight)
  <2>1. IsRows(<<>>) /\ Len(<<>>) = 0
    BY DEF IsRows
  <2>2. QED
    BY <1>1, <2>1 DEF Filed
<1>6. Shaped(Fields, clock, now) /\ Tied(Fields)
  <2>1. fight \in Nat /\ recorded \in BOOLEAN
    BY <1>1
  <2>2. Shaped(Fields, clock, now)
    BY <1>1, <1>3, <1>5, <2>1, FieldsAre, Zenon DEF Shaped
  <2>3. Tied(Fields)
    BY <1>1, FieldsAre, Zenon DEF Tied
  <2>4. QED
    BY <2>2, <2>3
<1>7. ~ AwaitsRow(Fields)
  BY <1>3, FieldsAre DEF AwaitsRow
<1>8. QED
  BY <1>2, <1>4, <1>6, <1>7 DEF PipelineInv

(* The invariant is inductive.                                             *)
LEMMA PipelineInvKept ==
  ASSUME LagIsShort PROVE PipelineInv /\ [PipelineNext]_pvars => PipelineInv'
<1> SUFFICES ASSUME PipelineInv, [PipelineNext]_pvars PROVE PipelineInv'
  OBVIOUS
<1>1. /\ Clocks(clock, now) /\ now - clock <= MaxLag /\ Calm(meter, clock, now)
      /\ Shaped(Fields, clock, now) /\ Tied(Fields)
      /\ ~ over => Sound(Fields, clock, now)
  BY FieldsAre DEF PipelineInv, Sound
<1>2. Prompt(clock, now)
  BY <1>1, WindowsAssumption DEF LagIsShort, Prompt, Clocks
<1>3. /\ Fields.meter = meter /\ Fields'.fight = fight' /\ Fields'.history = history'
  BY DEF Fields
<1>4. ASSUME NEW s, Shaped(s, clock, now), Tied(s), SetTo(s), UNCHANGED <<clock, now>>,
             over' \/ (AwaitsRow(s) => Unsettled(s.history, s.fight))
      PROVE  PipelineInv'
  <2>1. /\ Shaped(Fields', clock, now) /\ Tied(Fields') /\ Calm(meter', clock, now)
        /\ AwaitsRow(Fields') => AwaitsRow(s)
        /\ history' = s.history /\ fight' = s.fight
    BY <1>4, SetToSound
  <2>2. Clocks(clock', now') /\ now' - clock' <= MaxLag
    BY <1>1, <1>4
  <2>3. clock' = clock /\ now' = now
    BY <1>4
  <2>4. ~ over' => (AwaitsRow(Fields') => Unsettled(history', fight'))
    BY <1>4, <2>1
  <2>5. QED
    BY <2>1, <2>2, <2>3, <2>4 DEF PipelineInv
<1>5. ASSUME ~ over, NEW s, Sound(s, clock, now), SetTo(s), UNCHANGED <<clock, now, over>>
      PROVE  PipelineInv'
  BY <1>4, <1>5 DEF Sound
<1>6. ASSUME ~ over
      PROVE  LET s == FlushServerChange(Fields, now)
             IN Sound(s, clock, now) /\ Calm(s.meter, clock, now) /\ s.change = NONE
  BY <1>1, <1>2, <1>3, <1>6, FlushServerChangeSound
<1>7. CASE Step
  <2> DEFINE s == FlushServerChange(Fields, now)
  <2>1. ~ over /\ UNCHANGED <<clock, now, over>>
    BY <1>7 DEF Step
  <2>2. PICK after \in Outcomes(s.meter) : SetTo(ApplyMapped(s, after, now))
    BY <1>7 DEF Step
  <2>3. Sound(s, clock, now) /\ Calm(s.meter, clock, now) /\ s.change = NONE
    BY <1>6, <2>1
  <2> HIDE DEF s
  <2>4. Applied(s.meter, after, clock, now)
    BY <1>1, <2>3, OutcomesApplied
  <2>5. Sound(ApplyMapped(s, after, now), clock, now)
    BY <1>1, <1>2, <2>3, <2>4, ApplyMappedSound
  <2>6. QED
    BY <1>5, <2>1, <2>2, <2>5
<1>8. CASE StepScene
  <2> DEFINE s == FlushServerChange(Fields, now)
  <2>1. ~ over /\ UNCHANGED <<clock, now, over>>
    BY <1>8 DEF StepScene
  <2>2. PICK scene \in Scenes :
          SetTo(ApplyMapped(IF s.meter.scene \notin {NONE, scene} THEN Refresh(s) ELSE s,
                            ApplyScene(s.meter, scene), now))
    BY <1>8, Zenon DEF StepScene
  <2>3. Sound(s, clock, now) /\ Calm(s.meter, clock, now) /\ s.change = NONE
    BY <1>6, <2>1
  <2> HIDE DEF s
  <2> DEFINE z == IF s.meter.scene \notin {NONE, scene} THEN Refresh(s) ELSE s
  <2>4. Sound(z, clock, now) /\ z.meter = s.meter /\ z.change = NONE
    BY <2>3, RefreshSound DEF Beside
  <2>5. Applied(s.meter, ApplyScene(s.meter, scene), clock, now)
    BY <1>1, <2>3, SceneApplied
  <2> HIDE DEF z
  <2>6. Sound(ApplyMapped(z, ApplyScene(s.meter, scene), now), clock, now)
    BY <1>1, <1>2, <2>4, <2>5, ApplyMappedSound
  <2>7. SetTo(ApplyMapped(z, ApplyScene(s.meter, scene), now))
    BY <2>2 DEF z
  <2>8. QED
    BY <1>5, <2>1, <2>6, <2>7
<1>9. CASE StepServerChanged
  BY <1>1, <1>5, <1>9, ArmServerChangeSound DEF StepServerChanged
<1>10. CASE PublishTick
  BY <1>1, <1>2, <1>3, <1>5, <1>10, PublishSound DEF PublishTick
<1>11. CASE UserReset
  BY <1>1, <1>5, <1>11, ResetByUserSound DEF UserReset
<1>12. CASE Quit
  <2>1. /\ ~ over /\ over' /\ SetTo(Publish(FinalizeForShutdown(Fields, now), now))
        /\ UNCHANGED <<clock, now>>
    BY <1>12 DEF Quit
  <2>2. Finished(Publish(FinalizeForShutdown(Fields, now), now), clock, now)
    BY <1>1, <1>2, <1>3, <2>1, QuitFinishes
  <2>3. QED
    BY <1>4, <2>1, <2>2 DEF Finished
<1>13. CASE TimePasses
  <2>1. /\ ~ over /\ meter' = Called /\ UNCHANGED <<fight, recorded, pending, held, change>>
        /\ UNCHANGED <<history, over>>
    BY <1>13 DEF TimePasses, Pass, Hear
  <2>2. /\ clock' \in Nat /\ now' \in Nat /\ clock <= clock' /\ now <= now' /\ clock' <= now'
        /\ now' - clock' <= MaxLag
    BY <1>1, <1>13, WindowsAssumption DEF TimePasses, Pass, Hear, Clocks
  <2>3. Clocks(clock', now')
    BY <2>2 DEF Clocks
  <2>4. Sane(meter, clock', now') /\ Shaped(Fields, clock', now')
    <3>1. Ok(meter, clock', now')
      BY <1>1, <2>2, LaterOk DEF Calm
    <3>2. Sane(meter, clock, now) /\ now \in Int /\ now' \in Int
      BY <1>1, <1>3, <2>2 DEF Shaped, Clocks
    <3>3. Sane(meter, clock', now')
      BY <3>1, <3>2 DEF Sane
    <3>4. change # NONE => change \in Int /\ meter.last_event <= change /\ change <= now'
      BY <1>1, <2>2, <3>2, FieldsAre DEF Shaped
    <3>5. QED
      BY <1>1, <3>3, <3>4, FieldsAre DEF Shaped
  <2>5. /\ Sane(Uncalled(meter), clock', now') /\ Calm(Uncalled(meter), clock', now')
        /\ Uncalled(meter).lc = meter.lc /\ Fighters(Uncalled(meter)) = Fighters(meter)
        /\ Uncalled(meter).last_event = meter.last_event
    BY <2>4, UncalledCalm
  <2>6. meter' = Uncalled(meter)
    BY <2>1 DEF Called, Uncalled
  <2> DEFINE f == Fields'
  <2>7. /\ DOMAIN f = Fieldnames /\ f.meter = Uncalled(meter) /\ f.fight = fight
        /\ f.recorded = recorded /\ f.pending = pending /\ f.held = held
        /\ f.change = change /\ f.history = history
    BY <2>1, <2>6 DEF Fields, Fieldnames
  <2> HIDE DEF f
  <2>8. Swapped(Fields, f)
    BY <2>5, <2>7, FieldsAre DEF Swapped, Kept
  <2>9. Shaped(f, clock', now') /\ Tied(f) /\ (AwaitsRow(f) => AwaitsRow(Fields))
    BY <1>1, <2>4, <2>5, <2>7, <2>8, SwappedSound
  <2>10. AwaitsRow(f) => Unsettled(history, fight)
    BY <2>1, <2>9 DEF PipelineInv
  <2>11. QED
    BY <2>1, <2>2, <2>3, <2>5, <2>6, <2>9, <2>10 DEF PipelineInv, f
<1>14. CASE UNCHANGED pvars
  BY <1>14 DEF PipelineInv, pvars, Fields
<1>15. QED
  BY <1>7, <1>8, <1>9, <1>10, <1>11, <1>12, <1>13, <1>14 DEF PipelineNext

(* It holds in every reachable state.                                      *)
LEMMA PipelineInvAlways == ASSUME LagIsShort PROVE PipelineSpec => []PipelineInv
<1>1. PipelineInit => PipelineInv
  BY PipelineInvInit
<1>2. PipelineInv /\ [PipelineNext]_pvars => PipelineInv'
  BY PipelineInvKept
<1>3. QED
  BY <1>1, <1>2, PTL DEF PipelineSpec

(* A record held back is of the fight on the board, never of an earlier    *)
(* one: whatever ends, erases or resumes the fight has it filed, replaced  *)
(* or dropped in the same step (pipeline.rs, record_fight_end,             *)
(* apply_mapped and reset by the user).                                    *)
THEOREM PendingIsCurrent ==
  ASSUME LagIsShort PROVE PipelineSpec => []PendingIsOfTheBoard
<1>1. PipelineInv => PendingIsOfTheBoard
  BY FieldsAre DEF PipelineInv, Tied, PendingIsOfTheBoard
<1>2. QED
  BY <1>1, PipelineInvAlways, PTL

(* A fight has at most one row in the history, but for rows of an idle     *)
(* timeout or of the dungeon's end, after which it may go on and get       *)
(* another: neither the flush at its next start, nor the server change     *)
(* that lands late, nor the shutdown files it again (pipeline.rs,          *)
(* record_fight_end, flush_server_change and finalize_for_shutdown).       *)
THEOREM FightsAreFiledOnce ==
  ASSUME LagIsShort PROVE PipelineSpec => []OneRowPerFight
<1>1. PipelineInv => OneRowPerFight
  BY FieldsAre DEF PipelineInv, Shaped, Filed, OneRowPerFight, Excepted
<1>2. QED
  BY <1>1, PipelineInvAlways, PTL

---------------------------------------------------------------------------
(* What is owed. *)
Debt(s) == /\ Fighters(s.meter) # {} /\ ~ s.recorded
           /\ s.held # NONE => s.pending # NoRecord

(* The end of the fight on the board has been seen. *)
Seen(s) == IsEnded(s.meter) => s.recorded \/ s.held # NONE

(* The same fight, which may have ended: what is owed stays owed or has its *)
(* row.                                                                     *)
Quiet(s, r) ==
  /\ r.fight = s.fight /\ Grown(s.history, r.history)
  /\ s.meter.lc.st = "idle" <=> r.meter.lc.st = "idle"
  /\ IsEnded(s.meter) => IsEnded(r.meter)
  /\ Fighters(s.meter) \subseteq Fighters(r.meter)
  /\ Debt(s) => Debt(r) \/ HasRow(r.history, s.fight)

(* Rows stay, from one step of a handler to the next.                      *)
LEMMA GrownOn ==
  ASSUME NEW h, NEW g, NEW k, Grown(h, g), Grown(g, k)
  PROVE  Grown(h, k) /\ \A f : HasRow(g, f) => HasRow(k, f)
BY DEF Grown, HasRow

(* And so does what is owed.                                               *)
LEMMA QuietOn ==
  ASSUME NEW s, NEW x, NEW r, Quiet(s, x), Quiet(x, r) PROVE Quiet(s, r)
<1>1. Grown(s.history, r.history) /\ \A f : HasRow(x.history, f) => HasRow(r.history, f)
  BY GrownOn DEF Quiet
<1>2. QED
  BY <1>1 DEF Quiet

(* record_fight_end. *)
LEMMA RecordFightEndPays ==
  ASSUME NEW s, NEW c, NEW n, Clocks(c, n), Shaped(s, c, n), Tied(s) \/ Resuming(s, n)
  PROVE  Quiet(s, RecordFightEnd(s, n)) /\ Seen(RecordFightEnd(s, n))
<1> DEFINE r == RecordFightEnd(s, n)
<1>1. /\ Beside(s, r)
      /\ Unended(s, r, n) \/ Settled(s, r, n) \/ HoldsBack(s, r, n) \/ Files(s, r, n)
  BY RecordFightEndFields
<1> HIDE DEF r
<1> SUFFICES Quiet(s, r) /\ Seen(r)
  BY DEF r
<1>2. /\ Sane(s.meter, c, n) /\ Filed(s.history, s.fight)
      /\ IsEnded(s.meter) => s.meter.lc.start # NONE /\ EndedAt(s.meter, n) # NONE
  BY EndedFacts DEF Shaped, IsEnded
<1>3. r.meter = s.meter /\ r.fight = s.fight
  BY <1>1 DEF Beside
<1>4. Grown(s.history, s.history)
  BY DEF Grown
<1>5. CASE Unended(s, r, n)
  BY <1>2, <1>3, <1>4, <1>5 DEF Unended, Quiet, Debt, Seen
<1>6. CASE Settled(s, r, n)
  BY <1>3, <1>4, <1>6 DEF Settled, Quiet, Seen
<1>7. CASE HoldsBack(s, r, n)
  BY <1>2, <1>3, <1>4, <1>7, CapturedFacts DEF HoldsBack, Quiet, Debt, Seen
<1>8. CASE Files(s, r, n)
  <2>1. Grown(s.history, r.history) /\ (Fighters(s.meter) # {} => HasRow(r.history, s.fight))
    <3>1. CASE Captured(s) = NoRecord
      BY <1>4, <1>8, <3>1, CapturedFacts DEF Files
    <3>2. CASE Captured(s) # NoRecord
      <4> DEFINE h == s.history
                 g == r.history
                 f == s.fight
                 x == Captured(s)
      <4>1. g = [h EXCEPT ![f] = Append(@, x)] /\ Filed(h, f)
        BY <1>2, <1>8, <3>2 DEF Files
      <4> HIDE DEF h, g, f, x
      <4>2. Grown(h, g) /\ HasRow(g, f)
        BY <4>1, RowsStay
      <4>3. QED
        BY <4>2 DEF h, g, f
    <3>3. QED
      BY <3>1, <3>2
  <2>2. Seen(r)
    BY <1>8 DEF Files, Seen
  <2>3. QED
    BY <1>3, <2>1, <2>2 DEF Quiet, Debt
<1>9. QED
  BY <1>1, <1>5, <1>6, <1>7, <1>8

(* Refreshing the record held back.                                        *)
LEMMA RefreshPays ==
  ASSUME NEW s, NEW c, NEW n, Shaped(s, c, n) PROVE Quiet(s, Refresh(s))
<1>1. /\ Beside(s, Refresh(s)) /\ Refresh(s).held = s.held
      /\ Refresh(s).recorded = s.recorded /\ Refresh(s).history = s.history
      /\ s.pending # NoRecord => Refresh(s).pending # NoRecord
  BY RefreshFields DEF Shaped
<1>2. QED
  BY <1>1 DEF Quiet, Debt, Beside, Grown

(* The same fight on another meter. *)
LEMMA SwappedPays ==
  ASSUME NEW s, NEW r, Swapped(s, r) PROVE Quiet(s, r)
<1>1. /\ s.meter.lc.st = "idle" <=> r.meter.lc.st = "idle"
      /\ IsEnded(s.meter) => IsEnded(r.meter)
  BY DEF Swapped, Kept, IsEnded
<1>2. QED
  BY <1>1 DEF Swapped, Quiet, Debt, Grown

---------------------------------------------------------------------------
(* apply_mapped: the fight that goes, if it has ended, has its row, and the *)
(* one that is on the board then is owed one.                               *)
Pays(s, r) ==
  /\ Grown(s.history, r.history)
  /\ r.fight # s.fight => r.fight = s.fight + 1 /\ r.meter.lc.st # "idle"
  /\ r.meter.lc.st # "idle" => r.fight # s.fight \/ s.meter.lc.st # "idle"
  /\ r.meter.lc.st # "idle" /\ Fighters(r.meter) # {} /\ (Debt(s) \/ r.fight # s.fight)
       => Debt(r) \/ HasRow(r.history, r.fight)
  /\ Debt(s) /\ \/ IsEnded(s.meter) /\ r.meter.lc.st = "idle"
                \/ s.meter.lc.st # "idle" /\ r.fight # s.fight
       => HasRow(r.history, s.fight)

LEMMA ApplyMappedPays ==
  ASSUME NEW s, NEW c, NEW n, Clocks(c, n), Prompt(c, n), Sound(s, c, n),
         NEW after, Applied(s.meter, after, c, n), s.change = NONE
  PROVE  Pays(s, ApplyMapped(s, after, n)) /\ Seen(ApplyMapped(s, after, n))
<1> DEFINE m == s.meter
           r == ApplyMapped(s, after, n)
<1>1. PICK x : r = RecordFightEnd(x, n) /\ Shaped(x, c, n) /\ Mapped(s, after, n, x)
  BY ApplyMappedIs
<1> HIDE DEF r
<1> SUFFICES Pays(s, r) /\ Seen(r)
  BY DEF r
<1>2. Quiet(x, r) /\ Seen(r) /\ Beside(x, r)
  BY <1>1, RecordFightEndPays, RecordFightEndFields DEF Mapped
<1>3. r.meter = after /\ r.fight = x.fight
  BY <1>1, <1>2 DEF Beside, Mapped
<1>4. /\ Grown(s.history, r.history)
      /\ \A f : HasRow(x.history, f) => HasRow(r.history, f)
  BY <1>1, <1>2, GrownOn DEF Quiet, Mapped
<1>5. s.fight \in Nat /\ s.recorded \in BOOLEAN /\ s.fight + 1 # s.fight
  BY DEF Sound, Shaped
<1>6. x.fight = IF Starts(m, after) THEN s.fight + 1 ELSE s.fight
  BY <1>1 DEF Mapped
<1>7. /\ r.fight # s.fight => r.fight = s.fight + 1 /\ after.lc.st # "idle"
      /\ after.lc.st # "idle" => r.fight # s.fight \/ m.lc.st # "idle"
  BY <1>3, <1>5, <1>6 DEF Starts
<1>8. CASE after.reason = "none"
  <2>1. x.recorded = s.recorded /\ x.pending = s.pending /\ x.held = s.held
    BY <1>1, <1>8 DEF Mapped
  <2>2. m.lc.st = "idle" => s.held = NONE /\ ~ s.recorded
    BY DEF Sound, Tied, IsEnded
  <2>3. r.fight # s.fight => m.lc.st = "idle"
    BY <1>3, <1>6, <1>8 DEF Starts
  <2>4. Fighters(after) # {} /\ (Debt(s) \/ r.fight # s.fight) => Debt(x)
    BY <1>1, <2>1, <2>2, <2>3 DEF Debt, Mapped
  <2>5. m.lc.st # "idle" => after.lc.st # "idle"
    BY <1>8 DEF Applied, Went, Kept, Resumed
  <2>6. QED
    BY <1>2, <1>3, <1>4, <1>7, <2>3, <2>4, <2>5 DEF Pays, Quiet, IsEnded
<1>9. CASE after.reason # "none"
  <2>1. ~ x.recorded /\ x.held = NONE /\ x.meter = after
    BY <1>1, <1>9 DEF Mapped
  <2>2. Fighters(after) # {} => Debt(x)
    BY <2>1 DEF Debt
  <2>3. ASSUME Debt(s), \/ IsEnded(m) /\ after.lc.st = "idle"
                        \/ m.lc.st # "idle" /\ r.fight # s.fight
        PROVE  HasRow(r.history, s.fight)
    <3>1. Erased(m, after, c)
      BY <1>9 DEF Applied, Went
    <3>2. m.lc.st # "idle" /\ ~ (IsActive(m) /\ after.lc.st = "idle")
      BY <1>7, <2>3 DEF IsEnded, IsActive
    <3>3. after.saved.lc.st = "ended" /\ after.saved.rows = Fighters(m)
      BY <3>1, <3>2 DEF Erased
    <3>4. after.saved # Nothing
      BY <3>3 DEF Nothing, Idle
    <3>5. HasRow(x.history, s.fight)
      BY <1>1, <1>9, <2>3, <3>3, <3>4 DEF Mapped, Debt
    <3>6. QED
      BY <1>4, <3>5
  <2>4. QED
    BY <1>2, <1>3, <1>4, <1>7, <2>2, <2>3 DEF Pays, Quiet
<1>10. QED
  BY <1>2, <1>8, <1>9

(* apply_mapped with an event that leaves the fight and its rows.           *)
LEMMA SameFightPays ==
  ASSUME NEW s, NEW c, NEW n, Clocks(c, n), Prompt(c, n), Sound(s, c, n),
         NEW after, Applied(s.meter, after, c, n), s.change = NONE,
         after.reason = "none", Kept(s.meter.lc, after.lc),
         s.meter.lc.st = "idle" => after.lc.st = "idle",
         Fighters(s.meter) \subseteq Fighters(after)
  PROVE  Quiet(s, ApplyMapped(s, after, n)) /\ Seen(ApplyMapped(s, after, n))
<1> DEFINE r == ApplyMapped(s, after, n)
<1>1. PICK x : r = RecordFightEnd(x, n) /\ Shaped(x, c, n) /\ Mapped(s, after, n, x)
  BY ApplyMappedIs
<1> HIDE DEF r
<1>2. Quiet(x, r) /\ Seen(r)
  BY <1>1, RecordFightEndPays DEF Mapped
<1>3. s.meter.lc.st = "idle" <=> after.lc.st = "idle"
  BY DEF Kept
<1>4. IsEnded(s.meter) => IsEnded(after)
  BY DEF Kept, IsEnded
<1>5. /\ x.meter = after /\ x.fight = s.fight /\ Grown(s.history, x.history)
      /\ x.recorded = s.recorded /\ x.pending = s.pending /\ x.held = s.held
  BY <1>1, <1>3 DEF Mapped, Starts
<1>6. Quiet(s, x)
  BY <1>3, <1>4, <1>5 DEF Quiet, Debt
<1>7. QED
  BY <1>2, <1>6, QuietOn DEF r

(* A change of server starts no fight.                                     *)
LEMMA ServerChangedIdle ==
  ASSUME NEW m, From(m, m), m.lc.st = "idle", NEW t
  PROVE  ApplyServerChanged(m, t).lc.st = "idle"
<1> DEFINE ended == PruneStalePreloads(Latch(m, "server_changed", t, t))
           cleared == ClearEnemies(ended)
           released == [cleared EXCEPT !.lc = ReleaseHold(Disarm(@))]
<1>1. ended.lc = m.lc /\ DOMAIN ended = DOMAIN NewMeter
  BY Zenon DEF Latch, End, PruneStalePreloads, From, NewMeter
<1> HIDE DEF ended
<1>2. cleared.lc = m.lc /\ DOMAIN cleared = DOMAIN NewMeter
  BY <1>1, Zenon DEF ClearEnemies, NewMeter
<1> HIDE DEF cleared
<1>3. released.lc = ReleaseHold(Disarm(m.lc)) /\ DOMAIN released = DOMAIN NewMeter
  BY <1>2, Zenon DEF NewMeter
<1> HIDE DEF released
<1>4. ClearDungeon(released).lc = ReleaseHold(Disarm(m.lc))
  BY <1>3, Zenon DEF ClearDungeon, NewMeter
<1>5. ReleaseHold(Disarm(m.lc)).st = "idle"
  BY Zenon DEF ReleaseHold, Disarm, From, Idle
<1>6. QED
  BY <1>4, <1>5, Zenon DEF ApplyServerChanged, ended, cleared, released

(* The parked server change ends the fight, and pays.                      *)
LEMMA FlushServerChangePays ==
  ASSUME NEW s, NEW c, NEW n, Clocks(c, n), Prompt(c, n), Sound(s, c, n), Calm(s.meter, c, n)
  PROVE  Quiet(s, FlushServerChange(s, n)) /\ (Seen(s) => Seen(FlushServerChange(s, n)))
<1>1. CASE s.change = NONE
  BY <1>1 DEF FlushServerChange, Quiet, Grown
<1>2. CASE s.change # NONE
  <2> DEFINE z == [s EXCEPT !.change = NONE]
             after == ApplyServerChanged(s.meter, s.change)
  <2>1. /\ DOMAIN z = Fieldnames /\ z.meter = s.meter /\ z.fight = s.fight
        /\ z.recorded = s.recorded /\ z.pending = s.pending /\ z.held = s.held
        /\ z.change = NONE /\ z.history = s.history
    BY Zenon DEF Sound, Shaped, Fieldnames
  <2>2. FlushServerChange(s, n) = ApplyMapped(z, after, n)
    BY <1>2 DEF FlushServerChange
  <2> HIDE DEF z
  <2>3. Sound(z, c, n)
    BY <2>1 DEF Sound, Shaped, Tied, AwaitsRow
  <2>4. s.change \in Int /\ s.meter.last_event <= s.change /\ s.change <= n
    BY <1>2 DEF Sound, Shaped
  <2>5. Applied(s.meter, after, c, n)
    BY <2>4, ServerChangedApplied
  <2>6. /\ From(s.meter, s.meter) /\ Fresh(s.meter) /\ Ok(s.meter, c, n)
        /\ Crew(Fighters(s.meter), Players, s.meter)
    BY CalmStaffed
  <2>7. From(s.meter, after) /\ Crew(Fighters(s.meter), Players, after)
    BY <2>6, ApplyServerChangedFrom, ApplyServerChangedCrew
  <2>8. s.meter.lc.st = "idle" => after.lc.st = "idle"
    BY <2>6, ServerChangedIdle
  <2> HIDE DEF after
  <2>9. after.reason = "none" /\ Kept(s.meter.lc, after.lc)
    BY <2>6, <2>7 DEF From, Fresh
  <2>10. Fighters(s.meter) \subseteq Fighters(after)
    BY <2>7 DEF Crew
  <2>11. Quiet(z, ApplyMapped(z, after, n)) /\ Seen(ApplyMapped(z, after, n))
    BY <2>1, <2>3, <2>5, <2>8, <2>9, <2>10, SameFightPays
  <2>12. Quiet(s, z)
    BY <2>1 DEF Quiet, Debt, Grown
  <2>13. QED
    BY <2>2, <2>11, <2>12, QuietOn
<1>3. QED
  BY <1>1, <1>2

(* publish. *)
LEMMA PublishPays ==
  ASSUME NEW s, NEW c, NEW n, Clocks(c, n), Prompt(c, n), Sound(s, c, n), Calm(s.meter, c, n)
  PROVE  Quiet(s, Publish(s, n)) /\ Seen(Publish(s, n))
<1> DEFINE due == s.change # NONE /\ Since(n, s.change) >= ServerChangeGrace
           landed == IF due THEN FlushServerChange(s, n) ELSE s
           r == [landed EXCEPT !.meter = Pin(@, n)]
<1>1. Publish(s, n) = RecordFightEnd(r, n)
  BY Zenon DEF Publish
<1>2. Sound(landed, c, n) /\ Calm(landed.meter, c, n)
  BY FlushServerChangeSound
<1>3. Quiet(s, landed)
  BY FlushServerChangePays DEF Quiet, Grown
<1> HIDE DEF landed
<1>4. Shaped(landed, c, n) /\ Tied(landed)
  BY <1>2 DEF Sound
<1>5. Swapped(landed, r) /\ r.meter = Pin(landed.meter, n) /\ Sane(Pin(landed.meter, n), c, n)
  BY <1>2, <1>4, PinSwaps
<1> HIDE DEF r
<1>6. Shaped(r, c, n) /\ Tied(r) /\ Quiet(landed, r)
  BY <1>4, <1>5, SwappedSound, SwappedPays
<1>7. Quiet(r, RecordFightEnd(r, n)) /\ Seen(RecordFightEnd(r, n))
  BY <1>6, RecordFightEndPays
<1>8. QED
  BY <1>1, <1>3, <1>6, <1>7, QuietOn

(* A server change is parked, or cancels the one that is.                  *)
LEMMA ArmServerChangePays ==
  ASSUME NEW s, NEW c, NEW n, Clocks(c, n), Sound(s, c, n)
  PROVE  Quiet(s, ArmServerChange(s, n)) /\ Seen(ArmServerChange(s, n))
<1> DEFINE ch == IF s.change = NONE THEN n ELSE NONE
           z == [s EXCEPT !.change = ch]
<1>1. ArmServerChange(s, n) = RecordFightEnd(z, n)
  BY Zenon DEF ArmServerChange
<1>2. /\ DOMAIN z = Fieldnames /\ z.meter = s.meter /\ z.fight = s.fight
      /\ z.recorded = s.recorded /\ z.pending = s.pending /\ z.held = s.held
      /\ z.change = ch /\ z.history = s.history
  BY Zenon DEF Sound, Shaped, Fieldnames
<1>3. ch # NONE => ch \in Int /\ s.meter.last_event <= ch /\ ch <= n
  <2>1. n \in Int /\ n <= n /\ s.meter.last_event <= n
    BY DEF Sound, Shaped, Sane, Ok, OkTimes, Clocks
  <2>2. QED
    BY <2>1
<1> HIDE DEF ch, z
<1>4. Shaped(z, c, n) /\ Tied(z) /\ Quiet(s, z)
  BY <1>2, <1>3 DEF Sound, Shaped, Tied, Quiet, Debt, Grown
<1>5. Quiet(z, RecordFightEnd(z, n)) /\ Seen(RecordFightEnd(z, n))
  BY <1>4, RecordFightEndPays
<1>6. QED
  BY <1>1, <1>4, <1>5, QuietOn

(* A record held back is filed for its fight.                              *)
LEMMA FlushPays ==
  ASSUME NEW s, DOMAIN s = Fieldnames, Filed(s.history, s.fight),
         s.pending # NoRecord => s.pending.fight = s.fight
  PROVE  /\ Grown(s.history, Flush(s).history)
         /\ s.pending # NoRecord => HasRow(Flush(s).history, s.fight)
<1> DEFINE h == s.history
           f == s.fight
           x == s.pending
           g == Flush(s).history
<1>1. /\ s.pending = NoRecord => g = h
      /\ s.pending # NoRecord => g = [h EXCEPT ![f] = Append(@, x)]
  BY FlushFields
<1>2. Filed(h, f)
  OBVIOUS
<1> HIDE DEF h, f, g
<1>3. Grown(h, h)
  BY DEF Grown
<1>4. ASSUME s.pending # NoRecord PROVE Grown(h, g) /\ HasRow(g, f)
  <2>1. g = [h EXCEPT ![f] = Append(@, x)]
    BY <1>1, <1>4
  <2> HIDE DEF x
  <2>2. QED
    BY <1>2, <2>1, RowsStay
<1>5. QED
  BY <1>1, <1>3, <1>4 DEF h, f, g

(* The user's reset files the record of an ended fight.                    *)
LEMMA ResetByUserPays ==
  ASSUME NEW s, NEW c, NEW n, Clocks(c, n), Sound(s, c, n), Seen(s)
  PROVE  Pays(s, ResetByUser(s, n)) /\ Seen(ResetByUser(s, n))
<1> DEFINE fresh == Refresh(s)
           saved == Flush(fresh)
           m == Reset(saved.meter, n, "manual")
           r == [saved EXCEPT !.held = NONE, !.recorded = FALSE,
                              !.meter = Reset(@, n, "manual")]
<1>0. ResetByUser(s, n) = r
  BY Zenon DEF ResetByUser
<1>1. Sound(fresh, c, n) /\ Beside(s, fresh)
  BY RefreshSound
<1>2. fresh.history = s.history /\ (s.pending # NoRecord => fresh.pending # NoRecord)
  BY RefreshFields DEF Sound, Shaped
<1> HIDE DEF fresh
<1>3. DOMAIN fresh = Fieldnames /\ Filed(fresh.history, fresh.fight)
  BY <1>1 DEF Sound, Shaped
<1>4. fresh.pending # NoRecord => fresh.pending.fight = fresh.fight
  BY <1>1, HeldAwaits
<1>5. /\ Beside(fresh, saved) /\ Grown(fresh.history, saved.history)
      /\ fresh.pending # NoRecord => HasRow(saved.history, fresh.fight)
  BY <1>3, <1>4, FlushFields, FlushPays
<1> HIDE DEF saved
<1>6. /\ r.meter = m /\ r.fight = saved.fight /\ r.history = saved.history
  BY <1>5, Zenon DEF Beside, Fieldnames
<1>7. m.lc = Idle
  <2>1. Sane(saved.meter, c, n)
    BY <1>1, <1>5 DEF Sound, Shaped, Beside
  <2>2. From(saved.meter, saved.meter)
    BY <2>1 DEF Sane, Ok, OkTimes, From, Kept
  <2>3. QED
    BY <2>2, ResetHandsBack
<1> HIDE DEF m, r
<1>8. r.meter.lc.st = "idle"
  BY <1>6, <1>7 DEF Idle
<1>9. r.fight = s.fight /\ Grown(s.history, r.history)
  BY <1>1, <1>2, <1>5, <1>6 DEF Beside
<1>10. Debt(s) /\ IsEnded(s.meter) => HasRow(r.history, s.fight)
  BY <1>1, <1>2, <1>5, <1>6 DEF Debt, Seen, Beside
<1>11. QED
  BY <1>0, <1>8, <1>9, <1>10 DEF Pays, Seen, IsEnded

(* A record is not held back any more when an idle end is found: the grace *)
(* period is shorter than the idle timeout.                                *)
GraceIsShort == IdleTimeout > 0 => PostEndGrace < IdleTimeout

(* An idle end is dated back to the last hit.                              *)
LEMMA PinEnds ==
  ASSUME NEW m, NEW c, NEW n, Ok(m, c, n), ~ IsEnded(m), IsEnded(Pin(m, n))
  PROVE  /\ Pin(m, n).lc.end = m.last_event /\ Pin(m, n).lc.cause = "idle_timeout"
         /\ IdleTimeout > 0 /\ Since(n, m.last_event) >= IdleTimeout
<1> DEFINE l == End(m.lc, m.last_event, n, "idle_timeout", EngagedBossMon(m))
<1>1. /\ EndedAt(m, n) # NONE /\ Pin(m, n) = Latch(m, "idle_timeout", EndedAt(m, n), n)
  BY DEF Pin
<1>2. /\ EndedAt(m, n) = m.last_event /\ m.lc.st = "active"
      /\ IdleTimeout > 0 /\ Since(n, m.last_event) >= IdleTimeout
  BY <1>1 DEF EndedAt, IsActive
<1>3. Pin(m, n).lc = l
  BY <1>1, <1>2, Zenon DEF Latch, Ok, NewMeter
<1>4. l.end = m.last_event /\ l.cause = "idle_timeout"
  BY <1>2, Zenon DEF End, Ok, OkTimes, Idle
<1>5. QED
  BY <1>2, <1>3, <1>4

(* The last publish, with no server change left: a fight that runs until   *)
(* it finds its idle end is filed at once.                                 *)
LEMMA LastPublishPays ==
  ASSUME NEW s, NEW c, NEW n, Clocks(c, n), Shaped(s, c, n), Tied(s), Calm(s.meter, c, n),
         s.change = NONE
  PROVE  /\ Quiet(s, Publish(s, n)) /\ Seen(Publish(s, n))
         /\ GraceIsShort /\ s.pending = NoRecord /\ Seen(s) /\ Debt(s)
            /\ IsEnded(Publish(s, n).meter) => HasRow(Publish(s, n).history, s.fight)
<1> DEFINE r == [s EXCEPT !.meter = Pin(@, n)]
           w == RecordFightEnd(r, n)
<1>1. Publish(s, n) = w
  BY Zenon DEF Publish
<1>2. Swapped(s, r) /\ r.meter = Pin(s.meter, n) /\ Sane(Pin(s.meter, n), c, n)
  BY PinSwaps
<1> HIDE DEF r
<1>3. Shaped(r, c, n) /\ Tied(r) /\ Quiet(s, r)
  BY <1>2, SwappedSound, SwappedPays
<1>4. /\ Beside(r, w)
      /\ Unended(r, w, n) \/ Settled(r, w, n) \/ HoldsBack(r, w, n) \/ Files(r, w, n)
  BY <1>3, RecordFightEndFields
<1>5. Quiet(r, w) /\ Seen(w)
  BY <1>3, RecordFightEndPays
<1> HIDE DEF w
<1>6. ASSUME GraceIsShort, s.pending = NoRecord, Seen(s), Debt(s), IsEnded(w.meter)
      PROVE  HasRow(w.history, s.fight)
  <2>1. ~ r.recorded /\ r.held = NONE /\ ~ IsEnded(s.meter) /\ r.fight = s.fight
    BY <1>2, <1>6 DEF Swapped, Debt, Seen
  <2>2. IsEnded(r.meter) /\ EndedAt(r.meter, n) # NONE
    BY <1>2, <1>4, <1>6, EndedFacts DEF Beside
  <2>3. /\ r.meter.lc.end = s.meter.last_event /\ r.meter.lc.cause = "idle_timeout"
        /\ IdleTimeout > 0 /\ Since(n, s.meter.last_event) >= IdleTimeout
    BY <1>2, <2>1, <2>2, PinEnds DEF Calm
  <2>4. ~ (Since(n, r.meter.lc.end) <= PostEndGrace) /\ ~ PhaseResumePending(r.meter)
    <3> DEFINE gap == Since(n, s.meter.last_event)
    <3>1. gap \in Int /\ PostEndGrace \in Int /\ IdleTimeout \in Int
      BY WindowsAssumption DEF Since, Clocks, Calm, Ok, OkTimes
    <3>2. gap >= IdleTimeout /\ PostEndGrace < IdleTimeout
      BY <1>6, <2>3 DEF GraceIsShort
    <3> HIDE DEF gap
    <3>3. ~ (gap <= PostEndGrace)
      BY <3>1, <3>2
    <3>4. QED
      BY <2>3, <3>3 DEF gap, PhaseResumePending
  <2>5. Files(r, w, n)
    BY <1>4, <2>1, <2>2, <2>4 DEF Unended, Settled, HoldsBack
  <2>6. Debt(r) \/ HasRow(r.history, s.fight)
    BY <1>3, <1>6 DEF Quiet
  <2>7. w.recorded
    BY <2>5 DEF Files
  <2>8. Grown(r.history, w.history) /\ (Debt(r) => Debt(w) \/ HasRow(w.history, r.fight))
    BY <1>5 DEF Quiet
  <2>9. QED
    BY <2>1, <2>6, <2>7, <2>8 DEF Debt, Grown, HasRow
<1>7. QED
  BY <1>1, <1>3, <1>5, <1>6, QuietOn

(* The exit files the fight that is over.                                  *)
LEMMA QuitPays ==
  ASSUME NEW s, NEW c, NEW n, Clocks(c, n), Prompt(c, n), Sound(s, c, n),
         Calm(s.meter, c, n), Seen(s)
  PROVE  LET w == Publish(FinalizeForShutdown(s, n), n)
         IN /\ Quiet(s, w) /\ Seen(w)
            /\ GraceIsShort /\ Debt(s) /\ IsEnded(w.meter) => HasRow(w.history, s.fight)
<1> DEFINE landed == FlushServerChange(s, n)
           fresh == Refresh(landed)
           last == RecordFightEnd(fresh, n)
           marked == [last EXCEPT !.recorded = TRUE, !.held = NONE]
           q == Flush(marked)
           f == FinalizeForShutdown(s, n)
           w == Publish(f, n)
<1>0. f = IF last.pending = NoRecord THEN last ELSE q
  BY Zenon DEF FinalizeForShutdown
<1> HIDE DEF f
<1> SUFFICES /\ Quiet(s, w) /\ Seen(w)
             /\ GraceIsShort /\ Debt(s) /\ IsEnded(w.meter) => HasRow(w.history, s.fight)
  BY DEF f
<1>1. /\ Sound(landed, c, n) /\ Calm(landed.meter, c, n) /\ landed.change = NONE
      /\ Quiet(s, landed)
  BY FlushServerChangeSound, FlushServerChangePays
<1> HIDE DEF landed
<1>2. Sound(fresh, c, n) /\ Beside(landed, fresh) /\ Quiet(landed, fresh)
  BY <1>1, RefreshSound, RefreshPays DEF Sound
<1> HIDE DEF fresh
<1>3. /\ Sound(last, c, n) /\ Beside(fresh, last) /\ Quiet(fresh, last) /\ Seen(last)
  BY <1>2, RecordFightEndSound, RecordFightEndPays DEF Sound
<1> HIDE DEF last
<1>4. /\ Calm(last.meter, c, n) /\ last.change = NONE /\ Quiet(s, last)
  BY <1>1, <1>2, <1>3, QuietOn DEF Beside
<1>5. CASE last.pending = NoRecord
  <2>1. f = last /\ Shaped(last, c, n) /\ Tied(last)
    BY <1>0, <1>3, <1>5 DEF Sound
  <2>2. /\ Quiet(last, w) /\ Seen(w)
        /\ GraceIsShort /\ Debt(last) /\ IsEnded(w.meter) => HasRow(w.history, last.fight)
    BY <1>3, <1>4, <1>5, <2>1, LastPublishPays
  <2> HIDE DEF w
  <2>3. QED
    BY <1>4, <2>2, QuietOn DEF Quiet, Grown, HasRow
<1>6. CASE last.pending # NoRecord
  <2>1. f = q
    BY <1>0, <1>6
  <2>2. /\ last.pending.fight = last.fight /\ Unsettled(last.history, last.fight)
        /\ IsEnded(last.meter) /\ Filed(last.history, last.fight) /\ last.fight \in Nat
        /\ DOMAIN last = Fieldnames /\ Sane(last.meter, c, n)
    BY <1>3, <1>6, HeldAwaits DEF Sound, Shaped
  <2>3. /\ DOMAIN marked = Fieldnames /\ marked.meter = last.meter
        /\ marked.fight = last.fight /\ marked.change = last.change
        /\ marked.pending = last.pending /\ marked.history = last.history
        /\ marked.held = NONE /\ marked.recorded = TRUE
    BY <2>2, Zenon DEF Fieldnames
  <2> HIDE DEF marked
  <2>4. /\ Beside(marked, q) /\ q.pending = NoRecord /\ q.held = NONE /\ q.recorded = TRUE
        /\ Filed(q.history, marked.fight) /\ Grown(marked.history, q.history)
        /\ HasRow(q.history, marked.fight)
    BY <1>6, <2>2, <2>3, FlushFields, FlushFiled, FlushPays
  <2> HIDE DEF q
  <2>5. /\ Shaped(q, c, n) /\ Tied(q) /\ q.change = NONE /\ Calm(q.meter, c, n)
    BY <1>4, <2>2, <2>3, <2>4 DEF Shaped, Tied, Beside
  <2>6. Quiet(last, q) /\ HasRow(q.history, last.fight)
    BY <2>3, <2>4 DEF Quiet, Beside
  <2>7. Quiet(q, w) /\ Seen(w)
    BY <2>1, <2>5, LastPublishPays
  <2> HIDE DEF w
  <2>8. HasRow(w.history, s.fight)
    BY <1>4, <2>6, <2>7 DEF Quiet, Grown, HasRow
  <2>9. QED
    BY <1>4, <2>6, <2>7, <2>8, QuietOn
<1>7. QED
  BY <1>5, <1>6

---------------------------------------------------------------------------
(* The invariant with what NoFightIsLost needs: no end goes unnoticed, and *)
(* a fight on the board has a number.                                      *)
LedgerInv ==
  /\ PipelineInv /\ Seen(Fields) /\ fight <= MaxFights
  /\ meter.lc.st # "idle" => fight # 0

(* A handler that keeps the fight pays.                                    *)
LEMMA QuietIsPays == ASSUME NEW s, NEW r, Quiet(s, r) PROVE Pays(s, r)
BY DEF Quiet, Pays, Debt, IsEnded

(* So does one that first keeps it. *)
LEMMA QuietThenPays ==
  ASSUME NEW s, NEW x, NEW r, Quiet(s, x), Pays(x, r) PROVE Pays(s, r)
<1>1. Grown(s.history, r.history) /\ \A f : HasRow(x.history, f) => HasRow(r.history, f)
  BY GrownOn DEF Quiet, Pays
<1>2. QED
  BY <1>1 DEF Quiet, Pays

(* Every step pays.                                                        *)
LEMMA StepPays ==
  ASSUME LagIsShort, LedgerInv, PipelineNext
  PROVE  /\ Pays(Fields, Fields') /\ Seen(Fields') /\ fight' <= MaxFights
         /\ GraceIsShort /\ over' /\ Debt(Fields) /\ IsEnded(meter')
              => fight' = fight /\ HasRow(history', fight)
<1>0. /\ Clocks(clock, now) /\ now - clock <= MaxLag /\ Calm(meter, clock, now)
      /\ Seen(Fields) /\ Shaped(Fields, clock, now) /\ fight <= MaxFights
      /\ ~ over => Sound(Fields, clock, now)
  BY FieldsAre DEF LedgerInv, PipelineInv, Sound
<1>1. Prompt(clock, now)
  BY <1>0, WindowsAssumption DEF LagIsShort, Prompt, Clocks
<1>2. Fields.meter = meter
  BY DEF Fields
<1>3. ASSUME NEW s, Shaped(s, clock, now), Pays(Fields, s), Seen(s), SetTo(s)
      PROVE  /\ Pays(Fields, Fields') /\ Seen(Fields') /\ fight' <= MaxFights
             /\ fight' = s.fight /\ history' = s.history
             /\ IsEnded(meter') => IsEnded(s.meter)
  <2> DEFINE f == Fields'
             e == Fields
  <2>1. /\ f.meter = Uncalled(s.meter) /\ f.fight = s.fight
        /\ f.recorded = s.recorded /\ f.pending = s.pending /\ f.held = s.held
        /\ f.change = s.change /\ f.history = s.history
    BY <1>3 DEF SetTo, Fields
  <2>2. Uncalled(s.meter).lc = s.meter.lc /\ Fighters(Uncalled(s.meter)) = Fighters(s.meter)
    BY <1>3, UncalledCalm DEF Shaped
  <2>3. /\ meter' = Uncalled(s.meter) /\ fight' = s.fight /\ history' = s.history
        /\ fight' <= MaxFights
    BY <1>3 DEF SetTo
  <2> HIDE DEF f, e
  <2>4. Pays(e, s)
    BY <1>3 DEF e
  <2>5. Pays(e, f) /\ Seen(f)
    BY <1>3, <2>1, <2>2, <2>4 DEF Pays, Debt, Seen, IsEnded
  <2>6. QED
    BY <2>2, <2>3, <2>5 DEF IsEnded, e, f
<1>4. ASSUME ~ over
      PROVE  LET s == FlushServerChange(Fields, now)
             IN /\ Sound(s, clock, now) /\ Calm(s.meter, clock, now) /\ s.change = NONE
                /\ Quiet(Fields, s) /\ Seen(s)
  BY <1>0, <1>1, <1>2, <1>4, FlushServerChangeSound, FlushServerChangePays
<1>5. CASE Step
  <2> DEFINE s == FlushServerChange(Fields, now)
  <2>1. ~ over /\ UNCHANGED over
    BY <1>5 DEF Step
  <2>2. PICK after \in Outcomes(s.meter) : SetTo(ApplyMapped(s, after, now))
    BY <1>5 DEF Step
  <2>3. /\ Sound(s, clock, now) /\ Calm(s.meter, clock, now) /\ s.change = NONE
        /\ Quiet(Fields, s)
    BY <1>4, <2>1
  <2> HIDE DEF s
  <2>4. Applied(s.meter, after, clock, now)
    BY <1>0, <2>3, OutcomesApplied
  <2>5. /\ Shaped(ApplyMapped(s, after, now), clock, now)
        /\ Pays(Fields, ApplyMapped(s, after, now)) /\ Seen(ApplyMapped(s, after, now))
    BY <1>0, <1>1, <2>3, <2>4, ApplyMappedSound, ApplyMappedPays, QuietThenPays DEF Sound
  <2>6. QED
    BY <1>3, <2>1, <2>2, <2>5
<1>6. CASE StepScene
  <2> DEFINE s == FlushServerChange(Fields, now)
  <2>1. ~ over /\ UNCHANGED over
    BY <1>6 DEF StepScene
  <2>2. PICK scene \in Scenes :
          SetTo(ApplyMapped(IF s.meter.scene \notin {NONE, scene} THEN Refresh(s) ELSE s,
                            ApplyScene(s.meter, scene), now))
    BY <1>6, Zenon DEF StepScene
  <2>3. /\ Sound(s, clock, now) /\ Calm(s.meter, clock, now) /\ s.change = NONE
        /\ Quiet(Fields, s)
    BY <1>4, <2>1
  <2> HIDE DEF s
  <2> DEFINE z == IF s.meter.scene \notin {NONE, scene} THEN Refresh(s) ELSE s
             r == ApplyMapped(z, ApplyScene(s.meter, scene), now)
  <2>4. /\ Sound(z, clock, now) /\ z.meter = s.meter /\ z.change = NONE
        /\ Quiet(Fields, z)
    BY <2>3, RefreshSound, RefreshPays, QuietOn DEF Beside, Sound
  <2>5. Applied(s.meter, ApplyScene(s.meter, scene), clock, now)
    BY <1>0, <2>3, SceneApplied
  <2> HIDE DEF z
  <2>6. Shaped(r, clock, now) /\ Pays(z, r) /\ Seen(r)
    BY <1>0, <1>1, <2>4, <2>5, ApplyMappedSound, ApplyMappedPays DEF Sound
  <2>7. SetTo(r)
    BY <2>2 DEF z
  <2> HIDE DEF r
  <2>8. QED
    BY <1>3, <2>1, <2>4, <2>6, <2>7, QuietThenPays
<1>7. CASE StepServerChanged
  <2>1. ~ over /\ UNCHANGED over /\ SetTo(ArmServerChange(Fields, now))
    BY <1>7 DEF StepServerChanged
  <2>2. /\ Shaped(ArmServerChange(Fields, now), clock, now)
        /\ Quiet(Fields, ArmServerChange(Fields, now)) /\ Seen(ArmServerChange(Fields, now))
    BY <1>0, <2>1, ArmServerChangeSound, ArmServerChangePays DEF Sound
  <2>3. QED
    BY <1>3, <2>1, <2>2, QuietIsPays
<1>8. CASE PublishTick
  <2>1. ~ over /\ UNCHANGED over /\ SetTo(Publish(Fields, now))
    BY <1>8 DEF PublishTick
  <2>2. /\ Shaped(Publish(Fields, now), clock, now)
        /\ Quiet(Fields, Publish(Fields, now)) /\ Seen(Publish(Fields, now))
    BY <1>0, <1>1, <1>2, <2>1, PublishSound, PublishPays DEF Sound
  <2>3. QED
    BY <1>3, <2>1, <2>2, QuietIsPays
<1>9. CASE UserReset
  <2>1. ~ over /\ UNCHANGED over /\ SetTo(ResetByUser(Fields, now))
    BY <1>9 DEF UserReset
  <2>2. /\ Shaped(ResetByUser(Fields, now), clock, now)
        /\ Pays(Fields, ResetByUser(Fields, now)) /\ Seen(ResetByUser(Fields, now))
    BY <1>0, <2>1, ResetByUserSound, ResetByUserPays DEF Sound
  <2>3. QED
    BY <1>3, <2>1, <2>2
<1>10. CASE Quit
  <2> DEFINE w == Publish(FinalizeForShutdown(Fields, now), now)
  <2>1. ~ over /\ SetTo(w)
    BY <1>10 DEF Quit
  <2>2. /\ Shaped(w, clock, now) /\ Quiet(Fields, w) /\ Seen(w)
        /\ GraceIsShort /\ Debt(Fields) /\ IsEnded(w.meter) => HasRow(w.history, Fields.fight)
    BY <1>0, <1>1, <1>2, <2>1, QuitFinishes, QuitPays DEF Finished
  <2> HIDE DEF w
  <2>3. /\ Pays(Fields, Fields') /\ Seen(Fields') /\ fight' <= MaxFights
        /\ fight' = w.fight /\ history' = w.history
        /\ IsEnded(meter') => IsEnded(w.meter)
    BY <1>3, <2>1, <2>2, QuietIsPays
  <2>4. w.fight = Fields.fight /\ Fields.fight = fight
    BY <2>2, FieldsAre DEF Quiet
  <2>5. QED
    BY <2>2, <2>3, <2>4
<1>11. CASE TimePasses
  <2>1. /\ ~ over /\ meter' = Called /\ UNCHANGED <<fight, recorded, pending, held, change>>
        /\ UNCHANGED <<history, over>>
    BY <1>11 DEF TimePasses, Pass, Hear
  <2>2. meter' = Uncalled(meter)
    BY <2>1 DEF Called, Uncalled
  <2>3. Uncalled(meter).lc = meter.lc /\ Fighters(Uncalled(meter)) = Fighters(meter)
    BY <1>0, <1>2, UncalledCalm DEF Shaped
  <2> DEFINE f == Fields'
             e == Fields
  <2>4. /\ f.meter = Uncalled(meter) /\ f.fight = fight /\ f.recorded = recorded
        /\ f.pending = pending /\ f.held = held /\ f.history = history
    BY <2>1, <2>2 DEF Fields
  <2>5. /\ e.meter = meter /\ e.fight = fight /\ e.recorded = recorded
        /\ e.pending = pending /\ e.held = held /\ e.history = history
    BY FieldsAre
  <2>6. Seen(e)
    BY <1>0
  <2> HIDE DEF f, e
  <2>7. Pays(e, f) /\ Seen(f)
    BY <2>3, <2>4, <2>5, <2>6 DEF Pays, Debt, Seen, IsEnded, Grown
  <2>8. QED
    BY <1>0, <2>1, <2>7 DEF e, f
<1>12. QED
  BY <1>5, <1>6, <1>7, <1>8, <1>9, <1>10, <1>11 DEF PipelineNext

(* The invariant holds when the thread starts.                             *)
LEMMA LedgerInvInit == PipelineInit => LedgerInv
<1> SUFFICES ASSUME PipelineInit PROVE LedgerInv
  OBVIOUS
<1>1. PipelineInv
  BY PipelineInvInit
<1>2. meter = NewMeter /\ fight = 0
  BY DEF PipelineInit, Init
<1>3. meter.lc.st = "idle"
  <2>1. meter.lc = Idle
    BY <1>2, Zenon DEF NewMeter
  <2>2. QED
    BY <2>1 DEF Idle
<1>4. Seen(Fields)
  BY <1>3, FieldsAre DEF Seen, IsEnded
<1>5. fight <= MaxFights
  BY <1>2, PipelineAssumption
<1>6. QED
  BY <1>1, <1>3, <1>4, <1>5 DEF LedgerInv

(* It is inductive.                                                        *)
LEMMA LedgerInvKept ==
  ASSUME LagIsShort PROVE LedgerInv /\ [PipelineNext]_pvars => LedgerInv'
<1> SUFFICES ASSUME LedgerInv, [PipelineNext]_pvars PROVE LedgerInv'
  OBVIOUS
<1>1. PipelineInv'
  BY PipelineInvKept DEF LedgerInv
<1>2. CASE PipelineNext
  <2>1. Pays(Fields, Fields') /\ Seen(Fields') /\ fight' <= MaxFights
    BY <1>2, StepPays
  <2>2. /\ Fields.meter = meter /\ Fields.fight = fight
        /\ Fields'.meter = meter' /\ Fields'.fight = fight'
    BY DEF Fields
  <2>3. fight \in Nat
    BY <2>2 DEF LedgerInv, PipelineInv, Shaped
  <2>4. fight' # fight => fight' = fight + 1
    BY <2>1, <2>2 DEF Pays
  <2>5. meter'.lc.st # "idle" => fight' # fight \/ fight # 0
    BY <2>1, <2>2 DEF Pays, LedgerInv
  <2>6. meter'.lc.st # "idle" => fight' # 0
    BY <2>3, <2>4, <2>5
  <2>7. QED
    BY <1>1, <2>1, <2>6 DEF LedgerInv
<1>3. CASE UNCHANGED pvars
  BY <1>1, <1>3 DEF LedgerInv, pvars, Fields
<1>4. QED
  BY <1>2, <1>3

(* No fight that ended is lost, whatever follows its end: hits that trail   *)
(* it, the boss's next phase, another fight, a change of scene or of       *)
(* server, a dungeon that starts over, a reset, or the exit.  It is owed a *)
(* row until it has one (pipeline.rs, apply_mapped, record_fight_end,      *)
(* flush_server_change and finalize_for_shutdown).                         *)
THEOREM NothingOwedIsLost ==
  ASSUME LagIsShort, GraceIsShort PROVE PipelineSpec => NoFightIsLost
<1> DEFINE Paid == /\ Fighters(meter') # {} /\ meter'.lc.st # "idle" /\ (Owed \/ fight' # fight)
                        => Owed' \/ history'[fight'] # <<>>
                   /\ Owed /\ \/ IsEnded(meter) /\ meter'.lc.st = "idle"
                              \/ IsEnded(meter') /\ over'
                              \/ fight' # fight /\ meter.lc.st # "idle"
                        => history'[fight] # <<>>
<1>1. PipelineInit => LedgerInv
  BY LedgerInvInit
<1>2. LedgerInv /\ [PipelineNext]_pvars => LedgerInv'
  BY LedgerInvKept
<1>3. LedgerInv /\ LedgerInv' /\ [PipelineNext]_pvars => [Paid]_pvars
  <2> SUFFICES ASSUME LedgerInv, LedgerInv', PipelineNext PROVE Paid
    OBVIOUS
  <2>1. /\ Pays(Fields, Fields')
        /\ over' /\ Debt(Fields) /\ IsEnded(meter') => fight' = fight /\ HasRow(history', fight)
    BY StepPays
  <2>2. /\ Fields.meter = meter /\ Fields.fight = fight
        /\ Fields'.meter = meter' /\ Fields'.fight = fight' /\ Fields'.history = history'
    BY DEF Fields
  <2>3. (Owed <=> Debt(Fields)) /\ (Owed' <=> Debt(Fields'))
    BY DEF Fields, Owed, Debt
  <2>4. /\ fight \in Nat /\ fight' \in Nat /\ fight <= MaxFights /\ fight' <= MaxFights
        /\ DOMAIN history' = 1 .. MaxFights
        /\ meter.lc.st # "idle" => fight # 0
        /\ meter'.lc.st # "idle" => fight' # 0
    BY <2>2 DEF LedgerInv, PipelineInv, Shaped, Filed
  <2>5. /\ meter.lc.st # "idle" => fight \in DOMAIN history'
        /\ meter'.lc.st # "idle" => fight' \in DOMAIN history'
    BY <2>4, PipelineAssumption
  <2>6. /\ Fighters(meter') # {} /\ meter'.lc.st # "idle" /\ (Debt(Fields) \/ fight' # fight)
             => Debt(Fields') \/ HasRow(history', fight')
        /\ Debt(Fields) /\ \/ IsEnded(meter) /\ meter'.lc.st = "idle"
                           \/ meter.lc.st # "idle" /\ fight' # fight
             => HasRow(history', fight)
    BY <2>1, <2>2 DEF Pays
  <2>7. QED
    BY <2>1, <2>3, <2>5, <2>6 DEF HasRow, IsEnded
<1> HIDE DEF Paid
<1>4. PipelineSpec => [][Paid]_pvars
  BY <1>1, <1>2, <1>3, PTL DEF PipelineSpec
<1>5. QED
  BY <1>4 DEF Paid, NoFightIsLost

---------------------------------------------------------------------------
(* Every fight whose rows r changed has a last row that misses nobody of   *)
(* the board of s or, if that fight is over, nobody of the board of r.     *)
Wholly(s, r) ==
  \A k \in DOMAIN s.history : r.history[k] # s.history[k] =>
    \/ k = s.fight /\ Fighters(s.meter) \subseteq Last(r.history[k]).rows
    \/ /\ k = r.fight /\ IsEnded(r.meter)
       /\ Fighters(r.meter) \subseteq Last(r.history[k]).rows

(* What comes after a handler that keeps the fight.                        *)
LEMMA QuietThenWholly ==
  ASSUME NEW s, NEW x, NEW r, Quiet(s, x), Wholly(s, x), Wholly(x, r) PROVE Wholly(s, r)
<1>1. /\ x.fight = s.fight /\ Fighters(s.meter) \subseteq Fighters(x.meter)
      /\ DOMAIN x.history = DOMAIN s.history
  BY DEF Quiet, Grown
<1>2. ASSUME NEW k \in DOMAIN s.history, r.history[k] # s.history[k]
      PROVE  \/ k = s.fight /\ Fighters(s.meter) \subseteq Last(r.history[k]).rows
             \/ /\ k = r.fight /\ IsEnded(r.meter)
                /\ Fighters(r.meter) \subseteq Last(r.history[k]).rows
  <2>1. CASE r.history[k] # x.history[k]
    BY <1>1, <1>2, <2>1 DEF Wholly
  <2>2. CASE r.history[k] = x.history[k]
    BY <1>1, <1>2, <2>2 DEF Wholly
  <2>3. QED
    BY <2>1, <2>2
<1>3. QED
  BY <1>2 DEF Wholly

(* record_fight_end files the rows of the board, if it files any.          *)
LEMMA RecordFightEndWholly ==
  ASSUME NEW s, NEW c, NEW n, Clocks(c, n), Shaped(s, c, n), Tied(s) \/ Resuming(s, n)
  PROVE  /\ Wholly(s, RecordFightEnd(s, n))
         /\ RecordFightEnd(s, n).history # s.history => IsEnded(s.meter)
<1> DEFINE r == RecordFightEnd(s, n)
           F == Fighters(s.meter)
<1>1. Unended(s, r, n) \/ Settled(s, r, n) \/ HoldsBack(s, r, n) \/ Files(s, r, n)
  BY RecordFightEndFields
<1> HIDE DEF r
<1>2. CASE r.history = s.history
  BY <1>2 DEF Wholly, r
<1>3. CASE Files(s, r, n) /\ Captured(s) # NoRecord
  <2> DEFINE h == s.history
             g == r.history
             f == s.fight
             x == Captured(s)
  <2>1. Filed(h, f) /\ g = [h EXCEPT ![f] = Append(@, x)]
    BY <1>3 DEF Shaped, Files
  <2>2. F \subseteq x.rows
    BY RecordFacts DEF Captured
  <2> HIDE DEF h, g, f, x, F
  <2>3. WholeAt(h, g, f, F)
    BY <2>1, <2>2, LastRow
  <2>4. QED
    BY <1>3, <2>3 DEF WholeAt, Wholly, Files, h, g, f, r, F
<1>4. QED
  BY <1>1, <1>2, <1>3 DEF Unended, Settled, HoldsBack, Files

(* Nothing is filed where the history stays. *)
LEMMA SameHistoryWholly == ASSUME NEW s, NEW r, r.history = s.history PROVE Wholly(s, r)
BY DEF Wholly

(* apply_mapped files the fight that goes with the rows apply handed back. *)
LEMMA ApplyMappedWholly ==
  ASSUME NEW s, NEW c, NEW n, Clocks(c, n), Prompt(c, n), Sound(s, c, n),
         NEW after, Applied(s.meter, after, c, n), s.change = NONE
  PROVE  Wholly(s, ApplyMapped(s, after, n))
<1> DEFINE r == ApplyMapped(s, after, n)
<1>1. PICK x : r = RecordFightEnd(x, n) /\ Shaped(x, c, n) /\ Mapped(s, after, n, x)
  BY ApplyMappedIs
<1> HIDE DEF r
<1>2. Wholly(x, r) /\ Beside(x, r) /\ (r.history # x.history => IsEnded(x.meter))
  BY <1>1, RecordFightEndWholly, RecordFightEndFields DEF Mapped
<1>3. /\ r.meter = x.meter /\ r.fight = x.fight /\ DOMAIN x.history = DOMAIN s.history
      /\ WholeAt(s.history, x.history, s.fight, Fighters(s.meter))
  BY <1>1, <1>2 DEF Beside, Mapped, Grown
<1>4. ASSUME NEW k \in DOMAIN s.history, r.history[k] # s.history[k]
      PROVE  \/ k = s.fight /\ Fighters(s.meter) \subseteq Last(r.history[k]).rows
             \/ /\ k = r.fight /\ IsEnded(r.meter)
                /\ Fighters(r.meter) \subseteq Last(r.history[k]).rows
  <2>1. CASE r.history[k] # x.history[k]
    BY <1>2, <1>3, <1>4, <2>1 DEF Wholly
  <2>2. CASE r.history[k] = x.history[k]
    BY <1>3, <1>4, <2>2 DEF WholeAt
  <2>3. QED
    BY <2>1, <2>2
<1>5. QED
  BY <1>4 DEF Wholly, r

(* The parked server change. *)
LEMMA FlushServerChangeWholly ==
  ASSUME NEW s, NEW c, NEW n, Clocks(c, n), Prompt(c, n), Sound(s, c, n), Calm(s.meter, c, n)
  PROVE  Wholly(s, FlushServerChange(s, n))
<1>1. CASE s.change = NONE
  BY <1>1, SameHistoryWholly DEF FlushServerChange
<1>2. CASE s.change # NONE
  <2> DEFINE z == [s EXCEPT !.change = NONE]
             after == ApplyServerChanged(s.meter, s.change)
  <2>1. /\ DOMAIN z = Fieldnames /\ z.meter = s.meter /\ z.fight = s.fight
        /\ z.recorded = s.recorded /\ z.pending = s.pending /\ z.held = s.held
        /\ z.change = NONE /\ z.history = s.history
    BY Zenon DEF Sound, Shaped, Fieldnames
  <2>2. FlushServerChange(s, n) = ApplyMapped(z, after, n)
    BY <1>2 DEF FlushServerChange
  <2> HIDE DEF z
  <2>3. Sound(z, c, n)
    BY <2>1 DEF Sound, Shaped, Tied, AwaitsRow
  <2>4. s.change \in Int /\ s.meter.last_event <= s.change /\ s.change <= n
    BY <1>2 DEF Sound, Shaped
  <2>5. Applied(s.meter, after, c, n)
    BY <2>4, ServerChangedApplied
  <2> HIDE DEF after
  <2>6. Wholly(z, ApplyMapped(z, after, n))
    BY <2>1, <2>3, <2>5, ApplyMappedWholly
  <2>7. QED
    BY <2>1, <2>2, <2>6 DEF Wholly
<1>3. QED
  BY <1>1, <1>2

(* publish. *)
LEMMA PublishWholly ==
  ASSUME NEW s, NEW c, NEW n, Clocks(c, n), Prompt(c, n), Sound(s, c, n), Calm(s.meter, c, n)
  PROVE  Wholly(s, Publish(s, n))
<1> DEFINE due == s.change # NONE /\ Since(n, s.change) >= ServerChangeGrace
           landed == IF due THEN FlushServerChange(s, n) ELSE s
           r == [landed EXCEPT !.meter = Pin(@, n)]
<1>1. Publish(s, n) = RecordFightEnd(r, n)
  BY Zenon DEF Publish
<1>2. Sound(landed, c, n) /\ Calm(landed.meter, c, n)
  BY FlushServerChangeSound
<1>3. Quiet(s, landed) /\ Wholly(s, landed)
  BY FlushServerChangePays, FlushServerChangeWholly, SameHistoryWholly DEF Quiet, Grown
<1> HIDE DEF landed
<1>4. Shaped(landed, c, n) /\ Tied(landed)
  BY <1>2 DEF Sound
<1>5. Swapped(landed, r) /\ r.meter = Pin(landed.meter, n) /\ Sane(Pin(landed.meter, n), c, n)
  BY <1>2, <1>4, PinSwaps
<1> HIDE DEF r
<1>6. Shaped(r, c, n) /\ Tied(r) /\ Quiet(landed, r) /\ Wholly(landed, r)
  BY <1>4, <1>5, SwappedSound, SwappedPays, SameHistoryWholly DEF Swapped
<1>7. Wholly(r, RecordFightEnd(r, n))
  BY <1>6, RecordFightEndWholly
<1>8. QED
  BY <1>1, <1>3, <1>6, <1>7, QuietThenWholly

(* An adoption. *)
LEMMA ArmServerChangeWholly ==
  ASSUME NEW s, NEW c, NEW n, Clocks(c, n), Sound(s, c, n)
  PROVE  Wholly(s, ArmServerChange(s, n))
<1> DEFINE ch == IF s.change = NONE THEN n ELSE NONE
           z == [s EXCEPT !.change = ch]
<1>1. ArmServerChange(s, n) = RecordFightEnd(z, n)
  BY Zenon DEF ArmServerChange
<1>2. /\ DOMAIN z = Fieldnames /\ z.meter = s.meter /\ z.fight = s.fight
      /\ z.recorded = s.recorded /\ z.pending = s.pending /\ z.held = s.held
      /\ z.change = ch /\ z.history = s.history
  BY Zenon DEF Sound, Shaped, Fieldnames
<1>3. ch # NONE => ch \in Int /\ s.meter.last_event <= ch /\ ch <= n
  <2>1. n \in Int /\ n <= n /\ s.meter.last_event <= n
    BY DEF Sound, Shaped, Sane, Ok, OkTimes, Clocks
  <2>2. QED
    BY <2>1
<1> HIDE DEF ch, z
<1>4. Shaped(z, c, n) /\ Tied(z)
  BY <1>2, <1>3 DEF Sound, Shaped, Tied
<1>5. Wholly(z, RecordFightEnd(z, n))
  BY <1>4, RecordFightEndWholly
<1>6. QED
  BY <1>1, <1>2, <1>5 DEF Wholly

(* The record held back is of the rows as they are.                        *)
Current(s) == s.pending # NoRecord => s.pending.rows = Fighters(s.meter)

(* A refresh brings it up to date.                                         *)
LEMMA RefreshCurrent ==
  ASSUME NEW s, NEW c, NEW n, Sound(s, c, n) PROVE Current(Refresh(s))
<1>1. /\ Refresh(s).meter = s.meter /\ (s.pending = NoRecord => Refresh(s).pending = NoRecord)
      /\ s.pending # NoRecord /\ IsEnded(s.meter) /\ Captured(s) # NoRecord
           => Refresh(s).pending = Captured(s)
  BY RefreshFields DEF Sound, Shaped, Beside
<1>2. s.pending # NoRecord => IsEnded(s.meter) /\ Captured(s) # NoRecord
  BY CapturedFacts DEF Sound, Tied
<1>3. Captured(s).rows = Fighters(s.meter)
  BY RecordFacts DEF Captured
<1>4. QED
  BY <1>1, <1>2, <1>3 DEF Current

(* record_fight_end holds back none that misses anybody. *)
LEMMA RecordFightEndCurrent ==
  ASSUME NEW s, NEW c, NEW n, Clocks(c, n), Sound(s, c, n), Current(s)
  PROVE  Current(RecordFightEnd(s, n))
<1> DEFINE r == RecordFightEnd(s, n)
<1>1. /\ Beside(s, r)
      /\ Unended(s, r, n) \/ Settled(s, r, n) \/ HoldsBack(s, r, n) \/ Files(s, r, n)
  BY RecordFightEndFields DEF Sound
<1> HIDE DEF r
<1>2. Captured(s).rows = Fighters(s.meter)
  BY RecordFacts DEF Captured
<1>3. QED
  BY <1>1, <1>2 DEF Unended, Settled, HoldsBack, Files, Beside, Current, r

(* Filed, it misses nobody either. *)
LEMMA FlushWholly ==
  ASSUME NEW s, DOMAIN s = Fieldnames, Filed(s.history, s.fight), Current(s),
         s.pending # NoRecord => s.pending.fight = s.fight
  PROVE  Wholly(s, Flush(s))
<1> DEFINE h == s.history
           f == s.fight
           x == s.pending
           g == Flush(s).history
           F == Fighters(s.meter)
<1>1. /\ s.pending = NoRecord => g = h
      /\ s.pending # NoRecord => g = [h EXCEPT ![f] = Append(@, x)]
  BY FlushFields
<1>2. Filed(h, f)
  OBVIOUS
<1>3. CASE s.pending = NoRecord
  BY <1>1, <1>3, SameHistoryWholly
<1>4. CASE s.pending # NoRecord
  <2>1. g = [h EXCEPT ![f] = Append(@, x)] /\ F \subseteq x.rows
    BY <1>1, <1>4 DEF Current
  <2> HIDE DEF h, f, g, x, F
  <2>2. WholeAt(h, g, f, F)
    BY <1>2, <2>1, LastRow
  <2>3. QED
    BY <2>2 DEF WholeAt, Wholly, h, g, f, F
<1>5. QED
  BY <1>3, <1>4

(* The user's reset files the record it has just refreshed. *)
LEMMA ResetByUserWholly ==
  ASSUME NEW s, NEW c, NEW n, Clocks(c, n), Sound(s, c, n)
  PROVE  Wholly(s, ResetByUser(s, n))
<1> DEFINE fresh == Refresh(s)
           saved == Flush(fresh)
           r == [saved EXCEPT !.held = NONE, !.recorded = FALSE,
                              !.meter = Reset(@, n, "manual")]
<1>0. ResetByUser(s, n) = r
  BY Zenon DEF ResetByUser
<1>1. Sound(fresh, c, n) /\ Beside(s, fresh) /\ Current(fresh)
  BY RefreshSound, RefreshCurrent
<1>2. fresh.history = s.history
  BY RefreshFields DEF Sound, Shaped
<1> HIDE DEF fresh
<1>3. DOMAIN fresh = Fieldnames /\ Filed(fresh.history, fresh.fight)
  BY <1>1 DEF Sound, Shaped
<1>4. fresh.pending # NoRecord => fresh.pending.fight = fresh.fight
  BY <1>1, HeldAwaits
<1>5. Beside(fresh, saved) /\ Wholly(fresh, saved)
  BY <1>1, <1>3, <1>4, FlushFields, FlushWholly
<1> HIDE DEF saved
<1>6. r.fight = saved.fight /\ r.history = saved.history
  BY <1>5, Zenon DEF Beside, Fieldnames
<1>7. /\ fresh.fight = s.fight /\ fresh.meter = s.meter /\ saved.fight = fresh.fight
      /\ saved.meter = fresh.meter
  BY <1>1, <1>5 DEF Beside
<1> HIDE DEF r
<1>8. Wholly(s, r)
  BY <1>2, <1>5, <1>6, <1>7 DEF Wholly
<1>9. QED
  BY <1>0, <1>8

(* The exit files the record of the fight that is over, refreshed. *)
LEMMA QuitWholly ==
  ASSUME NEW s, NEW c, NEW n, Clocks(c, n), Prompt(c, n), Sound(s, c, n), Calm(s.meter, c, n)
  PROVE  Wholly(s, Publish(FinalizeForShutdown(s, n), n))
<1> DEFINE landed == FlushServerChange(s, n)
           fresh == Refresh(landed)
           last == RecordFightEnd(fresh, n)
           marked == [last EXCEPT !.recorded = TRUE, !.held = NONE]
           q == Flush(marked)
           f == FinalizeForShutdown(s, n)
           w == Publish(f, n)
<1>0. f = IF last.pending = NoRecord THEN last ELSE q
  BY Zenon DEF FinalizeForShutdown
<1> HIDE DEF f
<1> SUFFICES Wholly(s, w)
  BY DEF f
<1>1. /\ Sound(landed, c, n) /\ Calm(landed.meter, c, n) /\ landed.change = NONE
      /\ Quiet(s, landed) /\ Wholly(s, landed)
  BY FlushServerChangeSound, FlushServerChangePays, FlushServerChangeWholly
<1> HIDE DEF landed
<1>2. /\ Sound(fresh, c, n) /\ Beside(landed, fresh) /\ Quiet(landed, fresh)
      /\ Wholly(landed, fresh) /\ Current(fresh)
  BY <1>1, RefreshSound, RefreshPays, RefreshFields, RefreshCurrent, SameHistoryWholly
     DEF Sound, Shaped
<1> HIDE DEF fresh
<1>3. /\ Sound(last, c, n) /\ Beside(fresh, last) /\ Quiet(fresh, last)
      /\ Wholly(fresh, last) /\ Current(last)
  BY <1>2, RecordFightEndSound, RecordFightEndPays, RecordFightEndWholly, RecordFightEndCurrent
     DEF Sound
<1> HIDE DEF last
<1>4. /\ Calm(last.meter, c, n) /\ last.change = NONE /\ Quiet(s, last) /\ Wholly(s, last)
  BY <1>1, <1>2, <1>3, QuietOn, QuietThenWholly DEF Beside
<1>5. CASE last.pending = NoRecord
  <2>1. f = last
    BY <1>0, <1>5
  <2>2. Wholly(last, w)
    BY <1>3, <1>4, <2>1, PublishWholly
  <2> HIDE DEF w
  <2>3. QED
    BY <1>4, <2>2, QuietThenWholly
<1>6. CASE last.pending # NoRecord
  <2>1. f = q
    BY <1>0, <1>6
  <2>2. /\ last.pending.fight = last.fight /\ Unsettled(last.history, last.fight)
        /\ IsEnded(last.meter) /\ Filed(last.history, last.fight) /\ last.fight \in Nat
        /\ DOMAIN last = Fieldnames /\ Sane(last.meter, c, n)
    BY <1>3, <1>6, HeldAwaits DEF Sound, Shaped
  <2>3. /\ DOMAIN marked = Fieldnames /\ marked.meter = last.meter
        /\ marked.fight = last.fight /\ marked.change = last.change
        /\ marked.pending = last.pending /\ marked.history = last.history
        /\ marked.held = NONE /\ marked.recorded = TRUE
    BY <2>2, Zenon DEF Fieldnames
  <2> HIDE DEF marked
  <2>4. Current(marked)
    BY <1>3, <2>3 DEF Current
  <2>5. /\ Beside(marked, q) /\ q.pending = NoRecord /\ q.held = NONE /\ q.recorded = TRUE
        /\ Filed(q.history, marked.fight) /\ Grown(marked.history, q.history)
        /\ HasRow(q.history, marked.fight) /\ Wholly(marked, q)
    BY <1>6, <2>2, <2>3, <2>4, FlushFields, FlushFiled, FlushPays, FlushWholly
  <2> HIDE DEF q
  <2>6. /\ Shaped(q, c, n) /\ Tied(q) /\ q.change = NONE /\ Calm(q.meter, c, n)
        /\ IsEnded(q.meter)
    BY <1>4, <2>2, <2>3, <2>5 DEF Shaped, Tied, Beside
  <2>7. Quiet(last, q) /\ Wholly(last, q)
    BY <2>3, <2>5 DEF Quiet, Wholly, Beside
  <2> DEFINE r == [q EXCEPT !.meter = Pin(@, n)]
  <2>8. Publish(q, n) = RecordFightEnd(r, n)
    BY <2>6, Zenon DEF Publish
  <2>9. /\ Swapped(q, r) /\ r.meter = Pin(q.meter, n) /\ Sane(r.meter, c, n)
    BY <2>6, PinSwaps
  <2> HIDE DEF r
  <2>10. Shaped(r, c, n) /\ Tied(r)
    BY <2>6, <2>9, SwappedSound
  <2>11. Wholly(q, r) /\ Quiet(q, r) /\ Wholly(r, RecordFightEnd(r, n))
    BY <2>9, <2>10, SwappedPays, SameHistoryWholly, RecordFightEndWholly DEF Swapped
  <2>12. w = RecordFightEnd(r, n)
    BY <2>1, <2>8
  <2> HIDE DEF w
  <2>13. Quiet(s, q) /\ Wholly(s, q)
    BY <1>4, <2>7, QuietOn, QuietThenWholly
  <2>14. Quiet(s, r) /\ Wholly(s, r)
    BY <2>11, <2>13, QuietOn, QuietThenWholly
  <2>15. QED
    BY <2>11, <2>12, <2>14, QuietThenWholly
<1>7. QED
  BY <1>5, <1>6

(* No step files a row that misses anybody.                                *)
LEMMA StepWholly ==
  ASSUME LagIsShort, PipelineInv, PipelineNext PROVE Wholly(Fields, Fields')
<1>0. /\ Clocks(clock, now) /\ now - clock <= MaxLag /\ Calm(meter, clock, now)
      /\ ~ over => Sound(Fields, clock, now)
  BY FieldsAre DEF PipelineInv, Sound
<1>1. Prompt(clock, now)
  BY <1>0, WindowsAssumption DEF LagIsShort, Prompt, Clocks
<1>2. Fields.meter = meter
  BY DEF Fields
<1>3. ASSUME NEW s, Shaped(s, clock, now), Wholly(Fields, s), SetTo(s)
      PROVE  Wholly(Fields, Fields')
  <2> DEFINE f == Fields'
             e == Fields
  <2>1. f.meter = Uncalled(s.meter) /\ f.fight = s.fight /\ f.history = s.history
    BY <1>3 DEF SetTo, Fields
  <2>2. Fighters(Uncalled(s.meter)) = Fighters(s.meter) /\ Uncalled(s.meter).lc = s.meter.lc
    BY <1>3, UncalledCalm DEF Shaped
  <2>3. Wholly(e, s)
    BY <1>3
  <2> HIDE DEF f, e
  <2>4. Wholly(e, f)
    BY <2>1, <2>2, <2>3 DEF Wholly, IsEnded
  <2>5. QED
    BY <2>4 DEF e, f
<1>4. ASSUME ~ over
      PROVE  LET s == FlushServerChange(Fields, now)
             IN /\ Sound(s, clock, now) /\ Calm(s.meter, clock, now) /\ s.change = NONE
                /\ Quiet(Fields, s) /\ Wholly(Fields, s)
  BY <1>0, <1>1, <1>2, <1>4, FlushServerChangeSound, FlushServerChangePays,
     FlushServerChangeWholly
<1>5. CASE Step
  <2> DEFINE s == FlushServerChange(Fields, now)
  <2>1. ~ over
    BY <1>5 DEF Step
  <2>2. PICK after \in Outcomes(s.meter) : SetTo(ApplyMapped(s, after, now))
    BY <1>5 DEF Step
  <2>3. /\ Sound(s, clock, now) /\ Calm(s.meter, clock, now) /\ s.change = NONE
        /\ Quiet(Fields, s) /\ Wholly(Fields, s)
    BY <1>4, <2>1
  <2> HIDE DEF s
  <2>4. Applied(s.meter, after, clock, now)
    BY <1>0, <2>3, OutcomesApplied
  <2>5. /\ Shaped(ApplyMapped(s, after, now), clock, now)
        /\ Wholly(Fields, ApplyMapped(s, after, now))
    BY <1>0, <1>1, <2>3, <2>4, ApplyMappedSound, ApplyMappedWholly, QuietThenWholly DEF Sound
  <2>6. QED
    BY <1>3, <2>2, <2>5
<1>6. CASE StepScene
  <2> DEFINE s == FlushServerChange(Fields, now)
  <2>1. ~ over
    BY <1>6 DEF StepScene
  <2>2. PICK scene \in Scenes :
          SetTo(ApplyMapped(IF s.meter.scene \notin {NONE, scene} THEN Refresh(s) ELSE s,
                            ApplyScene(s.meter, scene), now))
    BY <1>6, Zenon DEF StepScene
  <2>3. /\ Sound(s, clock, now) /\ Calm(s.meter, clock, now) /\ s.change = NONE
        /\ Quiet(Fields, s) /\ Wholly(Fields, s)
    BY <1>4, <2>1
  <2> HIDE DEF s
  <2> DEFINE z == IF s.meter.scene \notin {NONE, scene} THEN Refresh(s) ELSE s
             r == ApplyMapped(z, ApplyScene(s.meter, scene), now)
  <2>4. /\ Sound(z, clock, now) /\ z.meter = s.meter /\ z.change = NONE
        /\ Quiet(s, z) /\ Wholly(s, z)
    <3>1. Quiet(s, s) /\ Wholly(s, s)
      BY DEF Quiet, Wholly, Grown
    <3>2. /\ Sound(Refresh(s), clock, now) /\ Beside(s, Refresh(s)) /\ Quiet(s, Refresh(s))
          /\ Refresh(s).history = s.history
      BY <2>3, RefreshSound, RefreshPays, RefreshFields DEF Sound, Shaped
    <3>3. Wholly(s, Refresh(s))
      BY <3>2, SameHistoryWholly
    <3>4. QED
      BY <2>3, <3>1, <3>2, <3>3 DEF Beside
  <2>5. Applied(s.meter, ApplyScene(s.meter, scene), clock, now)
    BY <1>0, <2>3, SceneApplied
  <2> HIDE DEF z
  <2>6. Shaped(r, clock, now) /\ Wholly(z, r)
    BY <1>0, <1>1, <2>4, <2>5, ApplyMappedSound, ApplyMappedWholly DEF Sound
  <2>7. SetTo(r)
    BY <2>2 DEF z
  <2> HIDE DEF r
  <2>8. Wholly(Fields, r)
    BY <2>3, <2>4, <2>6, QuietOn, QuietThenWholly
  <2>9. QED
    BY <1>3, <2>6, <2>7, <2>8
<1>7. CASE StepServerChanged
  BY <1>0, <1>3, <1>7, ArmServerChangeSound, ArmServerChangeWholly DEF StepServerChanged, Sound
<1>8. CASE PublishTick
  BY <1>0, <1>1, <1>2, <1>3, <1>8, PublishSound, PublishWholly DEF PublishTick, Sound
<1>9. CASE UserReset
  BY <1>0, <1>3, <1>9, ResetByUserSound, ResetByUserWholly DEF UserReset, Sound
<1>10. CASE Quit
  BY <1>0, <1>1, <1>2, <1>3, <1>10, QuitFinishes, QuitWholly DEF Quit, Finished
<1>11. CASE TimePasses
  <2>1. UNCHANGED history
    BY <1>11 DEF TimePasses
  <2> DEFINE f == Fields'
             e == Fields
  <2>2. f.history = e.history
    BY <2>1 DEF Fields
  <2> HIDE DEF f, e
  <2>3. Wholly(e, f)
    BY <2>2, SameHistoryWholly
  <2>4. QED
    BY <2>3 DEF e, f
<1>12. QED
  BY <1>5, <1>6, <1>7, <1>8, <1>9, <1>10, <1>11 DEF PipelineNext

(* A row that is filed has everyone the board showed, or shows: a record   *)
(* held back while hits trail the fight is brought up to date before it    *)
(* goes out, whatever makes it go out (pipeline.rs, record_fight_end,      *)
(* refresh_pending_fight_end, preserve_reset_fight and                     *)
(* finalize_for_shutdown).                                                 *)
THEOREM FiledRowsAreWhole ==
  ASSUME LagIsShort PROVE PipelineSpec => RowsAreWhole
<1> DEFINE Filing == \A f \in DOMAIN history : history'[f] # history[f] =>
                       \/ f = fight /\ Fighters(meter) \subseteq Last(history'[f]).rows
                       \/ /\ f = fight' /\ IsEnded(meter')
                          /\ Fighters(meter') \subseteq Last(history'[f]).rows
<1>1. PipelineInv /\ [PipelineNext]_pvars => [Filing]_pvars
  <2> SUFFICES ASSUME PipelineInv, PipelineNext PROVE Filing
    OBVIOUS
  <2>1. Wholly(Fields, Fields')
    BY StepWholly
  <2>2. /\ Fields.meter = meter /\ Fields.fight = fight /\ Fields.history = history
        /\ Fields'.meter = meter' /\ Fields'.fight = fight' /\ Fields'.history = history'
    BY DEF Fields
  <2>3. QED
    BY <2>1, <2>2 DEF Wholly
<1> HIDE DEF Filing
<1>2. PipelineSpec => [][Filing]_pvars
  BY <1>1, PipelineInvAlways, PTL DEF PipelineSpec
<1>3. QED
  BY <1>2 DEF Filing, RowsAreWhole

---------------------------------------------------------------------------
(* The row of the fight on the board stays complete, but for those named   *)
(* reasons.                                                                *)

(* RowIsComplete, of a fight that has a place in the history. *)
Complete(s) ==
  s.recorded /\ IsEnded(s.meter) /\ Fighters(s.meter) # {} /\ s.fight \in DOMAIN s.history =>
    HasRow(s.history, s.fight) /\ Last(s.history[s.fight]).rows = Fighters(s.meter)

(* Who joins a fight that is over, whatever the event but a change of scene *)
(* or server, stood by it or comes within its grace.                       *)
LEMMA OutcomesTrail ==
  ASSUME NEW m, NEW n, Clocks(clock, n), Calm(m, clock, n), IsEnded(m), NEW r \in Outcomes(m)
  PROVE  Trails(m, r, clock)
<1>0. Fresh(m) /\ Ok(m, clock, n) /\ Crew({}, Players, m) /\ DOMAIN m = DOMAIN NewMeter
  BY DEF Calm, Ok
<1>1. ASSUME NEW d \in Damages, r = ApplyDamage(m, d, clock) PROVE Trails(m, r, clock)
  BY <1>0, <1>1, ApplyDamageTrails
<1>2. ASSUME NEW e, NEW id, NEW hp, r = ApplyEnemyHp(m, e, id, hp, clock)
      PROVE  NoneJoins(m, r)
  BY <1>0, <1>2, ApplyEnemyHpJoins, SameRowsJoin
<1>3. ASSUME NEW e, NEW reason,
             r = ApplyEnemyGone(m, e, reason) \/ r = EnemyDied(m, e, clock)
      PROVE  NoneJoins(m, r)
  BY <1>0, <1>3, EnemiesJoin, SameRowsJoin
<1>4. ASSUME NEW p \in Players,
             \/ r = PlayerDied(m, p, clock) \/ r = PlayerRevived(m, p) \/ r = ApplyPlayer(m, p)
      PROVE  Trails(m, r, clock)
  BY <1>0, <1>4, PlayersTrail
<1>5. ASSUME NEW members, r = Keep(m, members) PROVE NoneJoins(m, r)
  BY <1>0, <1>5 DEF Keep, NoneJoins
<1>6. ASSUME NEW ds \in DungeonStates, r = ApplyDungeonState(m, ds) \/ r = CompletionSignal(m)
      PROVE  NoneJoins(m, r)
  BY <1>0, <1>6, DungeonJoins, SameRowsJoin
<1>7. ASSUME NEW obj, NEW zero, NEW complete,
             \/ r = ApplyObjective(m, obj, zero, complete) \/ r = ApplyObjectiveRemoved(m, obj)
      PROVE  NoneJoins(m, r)
  BY <1>0, <1>7, ObjectivesJoin, SameRowsJoin
<1>8. NoneJoins(m, r) => Trails(m, r, clock)
  BY NoneTrails
<1>9. QED
  BY <1>1, <1>2, <1>3, <1>4, <1>5, <1>6, <1>7, <1>8 DEF Outcomes

(* The row filed is the last of its fight. *)
LEMMA TopRow ==
  ASSUME NEW h, NEW n, Filed(h, n), NEW f \in DOMAIN h, NEW x
  PROVE  LET g == [h EXCEPT ![f] = Append(@, x)]
         IN DOMAIN g = DOMAIN h /\ g[f] # <<>> /\ Last(g[f]) = x
<1> DEFINE g == [h EXCEPT ![f] = Append(@, x)]
           q == Append(h[f], x)
<1>1. DOMAIN g = DOMAIN h /\ g[f] = q
  OBVIOUS
<1>2. Len(q) = Len(h[f]) + 1 /\ q[Len(h[f]) + 1] = x /\ q # <<>>
  BY AppendRow DEF Filed
<1> HIDE DEF g, q
<1>3. Last(q) = x
  BY <1>2 DEF Last
<1>4. QED
  BY <1>1, <1>2, <1>3 DEF g

(* record_fight_end files the rows the board shows. *)
LEMMA RecordFightEndComplete ==
  ASSUME NEW s, NEW c, NEW n, Clocks(c, n), Shaped(s, c, n), Tied(s) \/ Resuming(s, n),
         Complete(s)
  PROVE  Complete(RecordFightEnd(s, n))
<1> DEFINE r == RecordFightEnd(s, n)
<1>1. /\ Beside(s, r)
      /\ Unended(s, r, n) \/ Settled(s, r, n) \/ HoldsBack(s, r, n) \/ Files(s, r, n)
  BY RecordFightEndFields
<1> HIDE DEF r
<1>2. CASE Unended(s, r, n) \/ Settled(s, r, n) \/ HoldsBack(s, r, n)
  BY <1>2 DEF Unended, Settled, HoldsBack, Complete, r
<1>3. CASE Files(s, r, n)
  <2>1. r.meter = s.meter /\ r.fight = s.fight
    BY <1>1 DEF Beside
  <2> SUFFICES ASSUME Fighters(s.meter) # {}, s.fight \in DOMAIN r.history
               PROVE  /\ HasRow(r.history, s.fight)
                      /\ Last(r.history[s.fight]).rows = Fighters(s.meter)
    BY <2>1 DEF Complete, r
  <2>2. Captured(s) # NoRecord /\ Captured(s).rows = Fighters(s.meter)
    <3>1. Captured(s) # NoRecord
      BY CapturedFacts
    <3>2. Captured(s).rows = Fighters(s.meter)
      BY RecordFacts DEF Captured
    <3>3. QED
      BY <3>1, <3>2
  <2> DEFINE h == s.history
             f == s.fight
             x == Captured(s)
             g == [h EXCEPT ![f] = Append(@, x)]
  <2>3. r.history = g /\ Filed(h, f) /\ f \in DOMAIN h
    BY <1>3, <2>2 DEF Files, Shaped
  <2> HIDE DEF h, f, x
  <2>4. g[f] # <<>> /\ Last(g[f]) = x
    BY <2>3, TopRow
  <2> HIDE DEF g
  <2>5. QED
    BY <2>2, <2>3, <2>4 DEF HasRow, f, x
<1>4. QED
  BY <1>1, <1>2, <1>3

(* A fight recorded before an event that leaves it over stays recorded, as  *)
(* it was.                                                                 *)
LEMMA StaysRecorded ==
  ASSUME NEW s, NEW c, NEW n, Clocks(c, n), Prompt(c, n), Sound(s, c, n),
         NEW after, Applied(s.meter, after, c, n), s.change = NONE,
         s.recorded, after.reason = "none", IsEnded(after)
  PROVE  LET r == ApplyMapped(s, after, n)
         IN r.meter = after /\ r.fight = s.fight /\ r.recorded /\ r.history = s.history
<1> DEFINE r == ApplyMapped(s, after, n)
<1>1. PICK x : r = RecordFightEnd(x, n) /\ Shaped(x, c, n) /\ Mapped(s, after, n, x)
  BY ApplyMappedIs
<1> HIDE DEF r
<1>2. IsEnded(s.meter)
  BY DEF Sound, Tied
<1>3. /\ x.meter = after /\ x.recorded /\ x.history = s.history /\ x.fight = s.fight
      /\ Tied(x) \/ Resuming(x, n)
      /\ EndedAt(x.meter, n) # NONE
  BY <1>1, <1>2, EndedFacts DEF Mapped, Shaped, Starts, IsEnded
<1>4. Unended(x, r, n) \/ Settled(x, r, n) \/ HoldsBack(x, r, n) \/ Files(x, r, n)
  BY <1>1, <1>3, RecordFightEndFields
<1>5. r = x
  BY <1>3, <1>4 DEF Unended, Settled, HoldsBack, Files
<1>6. QED
  BY <1>3, <1>5 DEF r

(* An event nobody joins the recorded fight by leaves its row complete.    *)
LEMMA ApplyMappedComplete ==
  ASSUME NEW s, NEW c, NEW n, Clocks(c, n), Prompt(c, n), Sound(s, c, n), Complete(s),
         NEW after, Applied(s.meter, after, c, n), s.change = NONE,
         s.recorded /\ after.reason = "none" /\ IsEnded(after) => NoneJoins(s.meter, after)
  PROVE  Complete(ApplyMapped(s, after, n))
<1> DEFINE r == ApplyMapped(s, after, n)
<1>1. PICK x : r = RecordFightEnd(x, n) /\ Shaped(x, c, n) /\ Mapped(s, after, n, x)
  BY ApplyMappedIs
<1> HIDE DEF r
<1>2. CASE x.recorded /\ IsEnded(after)
  <2>1. after.reason = "none" /\ s.recorded /\ x.meter = after /\ x.history = s.history
    BY <1>1, <1>2 DEF Mapped
  <2>2. IsEnded(s.meter)
    BY <2>1 DEF Sound, Tied
  <2>3. Fighters(s.meter) = Fighters(after)
    BY <1>2, <2>1, <2>2 DEF Applied, NoneJoins
  <2>4. x.fight = s.fight
    BY <1>1, <2>1, <2>2 DEF Mapped, Starts, IsEnded
  <2>5. Complete(x)
    BY <2>1, <2>2, <2>3, <2>4 DEF Complete
  <2>6. QED
    BY <1>1, <2>5, RecordFightEndComplete DEF Mapped, r
<1>3. CASE ~ (x.recorded /\ IsEnded(after))
  <2>1. Complete(x)
    BY <1>1, <1>3 DEF Mapped, Complete
  <2>2. QED
    BY <1>1, <2>1, RecordFightEndComplete DEF Mapped, r
<1>4. QED
  BY <1>2, <1>3

(* The parked server change, which nobody joins by, and after which nobody *)
(* stands by.                                                              *)
LEMMA FlushServerChangeComplete ==
  ASSUME NEW s, NEW c, NEW n, Clocks(c, n), Prompt(c, n), Sound(s, c, n), Calm(s.meter, c, n),
         Complete(s)
  PROVE  /\ Complete(FlushServerChange(s, n))
         /\ \/ FlushServerChange(s, n) = s
            \/ /\ RowsIn(FlushServerChange(s, n).meter, {"preloaded"}) = {}
               /\ Fighters(FlushServerChange(s, n).meter) = Fighters(s.meter)
<1>1. CASE s.change = NONE
  BY <1>1 DEF FlushServerChange
<1>2. CASE s.change # NONE
  <2> DEFINE z == [s EXCEPT !.change = NONE]
             after == ApplyServerChanged(s.meter, s.change)
  <2>1. /\ DOMAIN z = Fieldnames /\ z.meter = s.meter /\ z.fight = s.fight
        /\ z.recorded = s.recorded /\ z.pending = s.pending /\ z.held = s.held
        /\ z.change = NONE /\ z.history = s.history
    BY Zenon DEF Sound, Shaped, Fieldnames
  <2>2. FlushServerChange(s, n) = ApplyMapped(z, after, n)
    BY <1>2 DEF FlushServerChange
  <2> HIDE DEF z
  <2>3. Sound(z, c, n) /\ Complete(z)
    BY <2>1 DEF Sound, Shaped, Tied, AwaitsRow, Complete
  <2>4. s.change \in Int /\ s.meter.last_event <= s.change /\ s.change <= n
    BY <1>2 DEF Sound, Shaped
  <2>5. Applied(s.meter, after, c, n)
    BY <2>4, ServerChangedApplied
  <2>6. Fighters(after) = Fighters(s.meter) /\ RowsIn(after, {"preloaded"}) = {}
    BY ApplyServerChangedJoins DEF Calm, Fresh
  <2> HIDE DEF after
  <2>7. Complete(ApplyMapped(z, after, n)) /\ ApplyMapped(z, after, n).meter = after
    BY <2>1, <2>3, <2>5, <2>6, ApplyMappedComplete, ApplyMappedSound DEF NoneJoins
  <2>8. QED
    BY <2>2, <2>6, <2>7
<1>3. QED
  BY <1>1, <1>2

(* A change of the meter that keeps its fight and rows.                    *)
LEMMA SwappedComplete ==
  ASSUME NEW s, NEW r, Tied(s), Complete(s), Swapped(s, r) PROVE Complete(r)
BY DEF Tied, Complete, Swapped

(* publish. *)
LEMMA PublishComplete ==
  ASSUME NEW s, NEW c, NEW n, Clocks(c, n), Prompt(c, n), Sound(s, c, n), Calm(s.meter, c, n),
         Complete(s)
  PROVE  Complete(Publish(s, n))
<1> DEFINE due == s.change # NONE /\ Since(n, s.change) >= ServerChangeGrace
           landed == IF due THEN FlushServerChange(s, n) ELSE s
           r == [landed EXCEPT !.meter = Pin(@, n)]
<1>1. Publish(s, n) = RecordFightEnd(r, n)
  BY Zenon DEF Publish
<1>2. Sound(landed, c, n) /\ Calm(landed.meter, c, n) /\ Complete(landed)
  BY FlushServerChangeSound, FlushServerChangeComplete
<1> HIDE DEF landed
<1>3. Shaped(landed, c, n) /\ Tied(landed)
  BY <1>2 DEF Sound
<1>4. Swapped(landed, r) /\ r.meter = Pin(landed.meter, n) /\ Sane(Pin(landed.meter, n), c, n)
  BY <1>2, <1>3, PinSwaps
<1> HIDE DEF r
<1>5. Shaped(r, c, n) /\ Tied(r) /\ Complete(r)
  BY <1>2, <1>3, <1>4, SwappedSound, SwappedComplete
<1>6. QED
  BY <1>1, <1>5, RecordFightEndComplete

(* An adoption. *)
LEMMA ArmServerChangeComplete ==
  ASSUME NEW s, NEW c, NEW n, Clocks(c, n), Sound(s, c, n), Complete(s)
  PROVE  Complete(ArmServerChange(s, n))
<1> DEFINE ch == IF s.change = NONE THEN n ELSE NONE
           z == [s EXCEPT !.change = ch]
<1>1. ArmServerChange(s, n) = RecordFightEnd(z, n)
  BY Zenon DEF ArmServerChange
<1>2. /\ DOMAIN z = Fieldnames /\ z.meter = s.meter /\ z.fight = s.fight
      /\ z.recorded = s.recorded /\ z.pending = s.pending /\ z.held = s.held
      /\ z.change = ch /\ z.history = s.history
  BY Zenon DEF Sound, Shaped, Fieldnames
<1>3. ch # NONE => ch \in Int /\ s.meter.last_event <= ch /\ ch <= n
  <2>1. n \in Int /\ n <= n /\ s.meter.last_event <= n
    BY DEF Sound, Shaped, Sane, Ok, OkTimes, Clocks
  <2>2. QED
    BY <2>1
<1> HIDE DEF ch, z
<1>4. Shaped(z, c, n) /\ Tied(z) /\ Complete(z)
  BY <1>2, <1>3 DEF Sound, Shaped, Tied, Complete
<1>5. QED
  BY <1>1, <1>4, RecordFightEndComplete

(* The exit files the record of the fight that is over, refreshed. *)
LEMMA QuitComplete ==
  ASSUME NEW s, NEW c, NEW n, Clocks(c, n), Prompt(c, n), Sound(s, c, n), Calm(s.meter, c, n),
         Complete(s)
  PROVE  Complete(Publish(FinalizeForShutdown(s, n), n))
<1> DEFINE landed == FlushServerChange(s, n)
           fresh == Refresh(landed)
           last == RecordFightEnd(fresh, n)
           marked == [last EXCEPT !.recorded = TRUE, !.held = NONE]
           q == Flush(marked)
           f == FinalizeForShutdown(s, n)
           w == Publish(f, n)
<1>0. f = IF last.pending = NoRecord THEN last ELSE q
  BY Zenon DEF FinalizeForShutdown
<1> HIDE DEF f
<1> SUFFICES Complete(w)
  BY DEF f
<1>1. /\ Sound(landed, c, n) /\ Calm(landed.meter, c, n) /\ landed.change = NONE
      /\ Complete(landed)
  BY FlushServerChangeSound, FlushServerChangeComplete
<1> HIDE DEF landed
<1>2. Sound(fresh, c, n) /\ Beside(landed, fresh) /\ Complete(fresh) /\ Current(fresh)
  <2>1. Sound(fresh, c, n) /\ Beside(landed, fresh) /\ Current(fresh)
    BY <1>1, RefreshSound, RefreshCurrent
  <2>2. fresh.recorded = landed.recorded /\ fresh.history = landed.history
    BY <1>1, RefreshFields DEF Sound, Shaped
  <2> HIDE DEF fresh
  <2>3. Complete(fresh)
    BY <1>1, <2>1, <2>2 DEF Complete, Beside
  <2>4. QED
    BY <2>1, <2>3
<1> HIDE DEF fresh
<1>3. Sound(last, c, n) /\ Beside(fresh, last) /\ Complete(last) /\ Current(last)
  BY <1>2, RecordFightEndSound, RecordFightEndComplete, RecordFightEndCurrent DEF Sound
<1> HIDE DEF last
<1>4. Calm(last.meter, c, n) /\ last.change = NONE
  BY <1>1, <1>2, <1>3 DEF Beside
<1>5. CASE last.pending = NoRecord
  BY <1>0, <1>3, <1>4, <1>5, PublishComplete
<1>6. CASE last.pending # NoRecord
  <2>1. f = q
    BY <1>0, <1>6
  <2>2. /\ last.pending.fight = last.fight /\ Unsettled(last.history, last.fight)
        /\ IsEnded(last.meter) /\ Filed(last.history, last.fight) /\ last.fight \in Nat
        /\ DOMAIN last = Fieldnames /\ Sane(last.meter, c, n)
    BY <1>3, <1>6, HeldAwaits DEF Sound, Shaped
  <2>3. /\ DOMAIN marked = Fieldnames /\ marked.meter = last.meter
        /\ marked.fight = last.fight /\ marked.change = last.change
        /\ marked.pending = last.pending /\ marked.history = last.history
        /\ marked.held = NONE /\ marked.recorded = TRUE
    BY <2>2, Zenon DEF Fieldnames
  <2> HIDE DEF marked
  <2>4. /\ Beside(marked, q) /\ q.pending = NoRecord /\ q.held = NONE /\ q.recorded = TRUE
        /\ Filed(q.history, marked.fight)
        /\ q.history = [last.history EXCEPT ![last.fight] = Append(@, last.pending)]
    <3>1. /\ Beside(marked, q) /\ q.pending = NoRecord /\ q.held = NONE /\ q.recorded = TRUE
          /\ Filed(q.history, marked.fight)
      BY <2>2, <2>3, FlushFields, FlushFiled
    <3>2. q.history =
            [marked.history EXCEPT ![marked.pending.fight] = Append(@, marked.pending)]
      BY <1>6, <2>3, FlushFields
    <3> HIDE DEF q
    <3>3. QED
      BY <2>2, <2>3, <3>1, <3>2
  <2> HIDE DEF q
  <2>5. Complete(q)
    <3> DEFINE h == last.history
               k == last.fight
               x == last.pending
               g == [h EXCEPT ![k] = Append(@, x)]
    <3>1. Filed(h, k) /\ DOMAIN g = DOMAIN h /\ x.rows = Fighters(last.meter)
      BY <1>3, <1>6, <2>2 DEF Current
    <3>2. q.history = g /\ q.fight = k /\ q.meter = last.meter
      BY <2>3, <2>4 DEF Beside
    <3> HIDE DEF h, k, x
    <3>3. k \in DOMAIN g => g[k] # <<>> /\ Last(g[k]) = x
      BY <3>1, TopRow
    <3> HIDE DEF g
    <3>4. QED
      BY <3>1, <3>2, <3>3 DEF Complete, HasRow
  <2>6. /\ Shaped(q, c, n) /\ Tied(q) /\ q.change = NONE /\ Calm(q.meter, c, n)
    BY <1>4, <2>2, <2>3, <2>4 DEF Shaped, Tied, Beside
  <2> DEFINE r == [q EXCEPT !.meter = Pin(@, n)]
  <2>7. Publish(q, n) = RecordFightEnd(r, n)
    BY <2>6, Zenon DEF Publish
  <2>8. /\ Swapped(q, r) /\ r.meter = Pin(q.meter, n) /\ Sane(r.meter, c, n)
    BY <2>6, PinSwaps
  <2> HIDE DEF r
  <2>9. Shaped(r, c, n) /\ Tied(r) /\ Complete(r)
    BY <2>5, <2>6, <2>8, SwappedSound, SwappedComplete
  <2>10. QED
    BY <2>1, <2>7, <2>9, RecordFightEndComplete
<1>7. QED
  BY <1>5, <1>6

(* The last row of f, if it has one, is of an end whose grace has passed   *)
(* at n.                                                                   *)
Older(h, f, n) ==
  f \in DOMAIN h /\ h[f] # <<>> =>
    Last(h[f]).end \in Int /\ Since(n, Last(h[f]).end) > PostEndGrace

(* So is that of the fight on the board: a row filed before its time is of *)
(* a fight that has left the board.                                        *)
Aged(s, n) == s.meter.lc.st # "idle" => Older(s.history, s.fight, n)

(* record_fight_end files a row when the grace has passed. *)
LEMMA RecordFightEndAged ==
  ASSUME NEW s, NEW c, NEW n, Clocks(c, n), Shaped(s, c, n), Tied(s) \/ Resuming(s, n),
         Aged(s, n)
  PROVE  Aged(RecordFightEnd(s, n), n)
<1> DEFINE r == RecordFightEnd(s, n)
<1>1. /\ Beside(s, r)
      /\ Unended(s, r, n) \/ Settled(s, r, n) \/ HoldsBack(s, r, n) \/ Files(s, r, n)
  BY RecordFightEndFields
<1> HIDE DEF r
<1>2. CASE r.history = s.history
  BY <1>1, <1>2 DEF Aged, Beside, r
<1>3. CASE Files(s, r, n) /\ Captured(s) # NoRecord
  <2> DEFINE h == s.history
             f == s.fight
             x == Captured(s)
             g == [h EXCEPT ![f] = Append(@, x)]
  <2>1. x.end = s.meter.lc.end
    BY <1>3, CapturedFacts
  <2>2. x.end \in Int /\ Since(n, x.end) > PostEndGrace
    BY <1>3, <2>1 DEF Files, Shaped, Sane, Ok, OkTimes, IsEnded
  <2>3. r.history = g /\ r.fight = f /\ Filed(h, f)
    BY <1>1, <1>3 DEF Files, Beside, Shaped
  <2> HIDE DEF h, f, x
  <2>4. DOMAIN g = DOMAIN h /\ (f \in DOMAIN h => Last(g[f]) = x)
    BY <2>3, TopRow
  <2> HIDE DEF g
  <2>5. QED
    BY <2>2, <2>3, <2>4 DEF Aged, Older, r
<1>4. QED
  BY <1>1, <1>2, <1>3 DEF Unended, Settled, HoldsBack, Files

(* An event that erases the fight files its row, and the next fight has    *)
(* none.                                                                   *)
LEMMA ApplyMappedAged ==
  ASSUME NEW s, NEW c, NEW n, Clocks(c, n), Prompt(c, n), Sound(s, c, n), Aged(s, n),
         NEW after, Applied(s.meter, after, c, n), s.change = NONE
  PROVE  Aged(ApplyMapped(s, after, n), n)
<1> DEFINE r == ApplyMapped(s, after, n)
<1>1. PICK x : r = RecordFightEnd(x, n) /\ Shaped(x, c, n) /\ Mapped(s, after, n, x)
  BY ApplyMappedIs
<1> HIDE DEF r
<1>2. Aged(x, n)
  <2> SUFFICES ASSUME after.lc.st # "idle" PROVE Older(x.history, x.fight, n)
    BY <1>1 DEF Aged, Mapped
  <2>1. CASE Starts(s.meter, after)
    <3>1. x.fight = s.fight + 1 /\ s.fight \in Nat
      BY <1>1, <2>1 DEF Mapped, Sound, Shaped
    <3>2. x.fight # s.fight /\ x.fight > s.fight
      BY <3>1
    <3>3. x.fight \in DOMAIN x.history => x.history[x.fight] = s.history[x.fight]
      BY <1>1, <3>2 DEF Mapped, WholeAt, Grown
    <3>4. x.fight \in DOMAIN x.history => s.history[x.fight] = <<>>
      BY <1>1, <3>2 DEF Mapped, Grown, Sound, Shaped, Filed
    <3>5. QED
      BY <3>3, <3>4 DEF Older
  <2>2. CASE ~ Starts(s.meter, after)
    <3>1. after.reason = "none" /\ s.meter.lc.st # "idle"
      BY <2>2 DEF Starts
    <3>2. x.history = s.history /\ x.fight = s.fight
      BY <1>1, <2>2, <3>1 DEF Mapped
    <3>3. QED
      BY <3>1, <3>2 DEF Aged
  <2>3. QED
    BY <2>1, <2>2
<1>3. QED
  BY <1>1, <1>2, RecordFightEndAged DEF Mapped, r

(* The parked server change. *)
LEMMA FlushServerChangeAged ==
  ASSUME NEW s, NEW c, NEW n, Clocks(c, n), Prompt(c, n), Sound(s, c, n), Calm(s.meter, c, n),
         Aged(s, n)
  PROVE  Aged(FlushServerChange(s, n), n)
<1>1. CASE s.change = NONE
  BY <1>1 DEF FlushServerChange
<1>2. CASE s.change # NONE
  <2> DEFINE z == [s EXCEPT !.change = NONE]
             after == ApplyServerChanged(s.meter, s.change)
  <2>1. /\ DOMAIN z = Fieldnames /\ z.meter = s.meter /\ z.fight = s.fight
        /\ z.recorded = s.recorded /\ z.pending = s.pending /\ z.held = s.held
        /\ z.change = NONE /\ z.history = s.history
    BY Zenon DEF Sound, Shaped, Fieldnames
  <2>2. FlushServerChange(s, n) = ApplyMapped(z, after, n)
    BY <1>2 DEF FlushServerChange
  <2> HIDE DEF z
  <2>3. Sound(z, c, n) /\ Aged(z, n)
    BY <2>1 DEF Sound, Shaped, Tied, AwaitsRow, Aged
  <2>4. s.change \in Int /\ s.meter.last_event <= s.change /\ s.change <= n
    BY <1>2 DEF Sound, Shaped
  <2>5. Applied(s.meter, after, c, n)
    BY <2>4, ServerChangedApplied
  <2> HIDE DEF after
  <2>6. Aged(ApplyMapped(z, after, n), n)
    BY <2>1, <2>3, <2>5, ApplyMappedAged
  <2>7. QED
    BY <2>2, <2>6
<1>3. QED
  BY <1>1, <1>2

(* publish. *)
LEMMA PublishAged ==
  ASSUME NEW s, NEW c, NEW n, Clocks(c, n), Prompt(c, n), Sound(s, c, n), Calm(s.meter, c, n),
         Aged(s, n)
  PROVE  Aged(Publish(s, n), n)
<1> DEFINE due == s.change # NONE /\ Since(n, s.change) >= ServerChangeGrace
           landed == IF due THEN FlushServerChange(s, n) ELSE s
           r == [landed EXCEPT !.meter = Pin(@, n)]
<1>1. Publish(s, n) = RecordFightEnd(r, n)
  BY Zenon DEF Publish
<1>2. Sound(landed, c, n) /\ Calm(landed.meter, c, n) /\ Aged(landed, n)
  BY FlushServerChangeSound, FlushServerChangeAged
<1> HIDE DEF landed
<1>3. Shaped(landed, c, n) /\ Tied(landed)
  BY <1>2 DEF Sound
<1>4. Swapped(landed, r) /\ r.meter = Pin(landed.meter, n) /\ Sane(Pin(landed.meter, n), c, n)
  BY <1>2, <1>3, PinSwaps
<1> HIDE DEF r
<1>5. Shaped(r, c, n) /\ Tied(r)
  BY <1>2, <1>3, <1>4, SwappedSound
<1>6. Aged(r, n)
  BY <1>2, <1>4 DEF Aged, Swapped
<1>7. QED
  BY <1>1, <1>5, <1>6, RecordFightEndAged

(* An adoption. *)
LEMMA ArmServerChangeAged ==
  ASSUME NEW s, NEW c, NEW n, Clocks(c, n), Sound(s, c, n), Aged(s, n)
  PROVE  Aged(ArmServerChange(s, n), n)
<1> DEFINE ch == IF s.change = NONE THEN n ELSE NONE
           z == [s EXCEPT !.change = ch]
<1>1. ArmServerChange(s, n) = RecordFightEnd(z, n)
  BY Zenon DEF ArmServerChange
<1>2. /\ DOMAIN z = Fieldnames /\ z.meter = s.meter /\ z.fight = s.fight
      /\ z.recorded = s.recorded /\ z.pending = s.pending /\ z.held = s.held
      /\ z.change = ch /\ z.history = s.history
  BY Zenon DEF Sound, Shaped, Fieldnames
<1>3. ch # NONE => ch \in Int /\ s.meter.last_event <= ch /\ ch <= n
  <2>1. n \in Int /\ n <= n /\ s.meter.last_event <= n
    BY DEF Sound, Shaped, Sane, Ok, OkTimes, Clocks
  <2>2. QED
    BY <2>1
<1> HIDE DEF ch, z
<1>4. Shaped(z, c, n) /\ Tied(z) /\ Aged(z, n)
  BY <1>2, <1>3 DEF Sound, Shaped, Tied, Aged
<1>5. QED
  BY <1>1, <1>4, RecordFightEndAged

(* Every step but the exit, after which there is none, leaves it aged.     *)
LEMMA StepAged ==
  ASSUME LagIsShort, PipelineInv, PipelineNext, ~ over', Aged(Fields, now)
  PROVE  Aged(Fields', now')
<1>0. /\ Clocks(clock, now) /\ now - clock <= MaxLag /\ Calm(meter, clock, now) /\ ~ over
      /\ Sound(Fields, clock, now) /\ Fields.meter = meter
  <2>1. ~ over
    BY DEF PipelineNext, Step, StepScene, StepServerChanged, PublishTick, UserReset, Quit,
           TimePasses
  <2>2. QED
    BY <2>1, FieldsAre DEF PipelineInv, Sound
<1>1. Prompt(clock, now)
  BY <1>0, WindowsAssumption DEF LagIsShort, Prompt, Clocks
<1>2. ASSUME NEW s, Shaped(s, clock, now), Aged(s, now), SetTo(s), now' = now
      PROVE  Aged(Fields', now')
  <2> DEFINE f == Fields'
  <2>1. f.meter = Uncalled(s.meter) /\ f.fight = s.fight /\ f.history = s.history
    BY <1>2 DEF SetTo, Fields
  <2>2. Uncalled(s.meter).lc = s.meter.lc
    BY <1>2, UncalledCalm DEF Shaped
  <2> HIDE DEF f
  <2>3. Aged(f, now)
    BY <1>2, <2>1, <2>2 DEF Aged
  <2>4. QED
    BY <1>2, <2>3 DEF f
<1> DEFINE landed == FlushServerChange(Fields, now)
<1>3. /\ Sound(landed, clock, now) /\ Calm(landed.meter, clock, now) /\ landed.change = NONE
      /\ Aged(landed, now)
  BY <1>0, <1>1, FlushServerChangeSound, FlushServerChangeAged
<1>4. CASE Step
  <2>1. PICK after \in Outcomes(landed.meter) : SetTo(ApplyMapped(landed, after, now))
    BY <1>4 DEF Step
  <2> HIDE DEF landed
  <2>2. Applied(landed.meter, after, clock, now)
    BY <1>0, <1>3, OutcomesApplied
  <2> DEFINE r == ApplyMapped(landed, after, now)
  <2>3. Shaped(r, clock, now) /\ Aged(r, now)
    BY <1>0, <1>1, <1>3, <2>2, ApplyMappedSound, ApplyMappedAged DEF Sound
  <2>4. SetTo(r) /\ now' = now
    BY <1>4, <2>1 DEF Step
  <2> HIDE DEF r
  <2>5. QED
    BY <1>2, <2>3, <2>4
<1>5. CASE StepScene
  <2>1. PICK scene \in Scenes :
          SetTo(ApplyMapped(IF landed.meter.scene \notin {NONE, scene}
                            THEN Refresh(landed) ELSE landed,
                            ApplyScene(landed.meter, scene), now))
    BY <1>5, Zenon DEF StepScene
  <2> HIDE DEF landed
  <2> DEFINE z == IF landed.meter.scene \notin {NONE, scene} THEN Refresh(landed) ELSE landed
             r == ApplyMapped(z, ApplyScene(landed.meter, scene), now)
  <2>2. Sound(z, clock, now) /\ z.meter = landed.meter /\ z.change = NONE /\ Aged(z, now)
    <3>1. /\ Sound(Refresh(landed), clock, now) /\ Beside(landed, Refresh(landed))
          /\ Refresh(landed).history = landed.history
      BY <1>3, RefreshSound, RefreshFields DEF Sound, Shaped
    <3>2. Aged(Refresh(landed), now)
      BY <1>3, <3>1 DEF Aged, Beside
    <3>3. QED
      BY <1>3, <3>1, <3>2 DEF Beside
  <2> HIDE DEF z
  <2>3. Applied(landed.meter, ApplyScene(landed.meter, scene), clock, now)
    BY <1>0, <1>3, SceneApplied
  <2>4. Shaped(r, clock, now) /\ Aged(r, now)
    BY <1>0, <1>1, <2>2, <2>3, ApplyMappedSound, ApplyMappedAged DEF Sound
  <2>5. SetTo(r) /\ now' = now
    BY <1>5, <2>1 DEF StepScene, z
  <2> HIDE DEF r
  <2>6. QED
    BY <1>2, <2>4, <2>5
<1>6. CASE StepServerChanged
  BY <1>0, <1>2, <1>6, ArmServerChangeSound, ArmServerChangeAged DEF StepServerChanged, Sound
<1>7. CASE PublishTick
  BY <1>0, <1>1, <1>2, <1>7, PublishSound, PublishAged DEF PublishTick, Sound
<1>8. CASE UserReset
  <2>1. SetTo(ResetByUser(Fields, now))
    BY <1>8 DEF UserReset
  <2> DEFINE saved == Flush(Refresh(Fields))
             m == Reset(saved.meter, now, "manual")
             f == Fields'
  <2>2. DOMAIN saved = Fieldnames /\ saved.meter = meter
    BY <1>0, RefreshFields, FlushFields DEF Sound, Shaped, Beside
  <2>3. ResetByUser(Fields, now).meter = m
    BY <2>2, Zenon DEF ResetByUser, Fieldnames
  <2>4. f.meter = Uncalled(m)
    BY <2>1, <2>3 DEF SetTo, Fields
  <2>5. From(meter, meter)
    BY <1>0 DEF Calm, Fresh
  <2> HIDE DEF saved, f
  <2>6. m.lc = Idle /\ DOMAIN m = DOMAIN NewMeter
    BY <2>2, <2>5, ResetHandsBack DEF From
  <2> HIDE DEF m
  <2>7. Uncalled(m).lc = m.lc
    BY <2>6, Zenon DEF Uncalled, NewMeter
  <2>8. f.meter.lc.st = "idle"
    BY <2>4, <2>6, <2>7 DEF Idle
  <2>9. QED
    BY <2>8 DEF Aged, f
<1>9. CASE Quit
  BY <1>9 DEF Quit
<1>10. CASE TimePasses
  <2>1. /\ fight' = fight /\ history' = history /\ meter' = Called
        /\ now \in Nat /\ now' \in Nat /\ now <= now'
    BY <1>0, <1>10 DEF TimePasses, Pass, Hear, Clocks
  <2>2. Called.lc = meter.lc
    BY <1>0, Zenon DEF Called, Calm, Ok, NewMeter
  <2>3. \A end \in Int : Since(now, end) > PostEndGrace => Since(now', end) > PostEndGrace
    BY <2>1, WindowsAssumption DEF Since
  <2> DEFINE e == Fields
             f == Fields'
  <2>4. /\ f.meter.lc = e.meter.lc /\ f.fight = e.fight /\ f.history = e.history
        /\ Aged(e, now)
    BY <2>1, <2>2, FieldsAre DEF Fields
  <2> HIDE DEF e, f
  <2>5. Aged(f, now')
    BY <2>3, <2>4 DEF Aged, Older
  <2>6. QED
    BY <2>5 DEF f
<1>11. QED
  BY <1>4, <1>5, <1>6, <1>7, <1>8, <1>9, <1>10 DEF PipelineNext

(* What makes the row of the board miss somebody. *)
Overtaken ==
  \/ clock < now /\ Since(clock, meter'.lc.end) <= PostEndGrace
  \/ /\ IsEnded(meter)
     /\ Fighters(meter') \ Fighters(meter) \subseteq RowsIn(meter, {"preloaded"})
  \/ IF history'[fight'] = <<>> THEN Fighters(meter) = {}
     ELSE Last(history'[fight']).end # meter'.lc.end

(* Every step leaves the row of the board complete, or is one of those.    *)
LEMMA StepComplete ==
  ASSUME LagIsShort, PipelineInv, PipelineNext, Complete(Fields), ~ over => Aged(Fields, now)
  PROVE  Complete(Fields') \/ Overtaken
<1>0. /\ Clocks(clock, now) /\ now - clock <= MaxLag /\ Calm(meter, clock, now)
      /\ ~ over => Sound(Fields, clock, now)
  BY FieldsAre DEF PipelineInv, Sound
<1>1. Prompt(clock, now)
  BY <1>0, WindowsAssumption DEF LagIsShort, Prompt, Clocks
<1>2. /\ Fields.meter = meter /\ Fields.recorded = recorded /\ Fields.fight = fight
      /\ Fields.history = history
      /\ Fields'.meter = meter' /\ Fields'.recorded = recorded' /\ Fields'.fight = fight'
      /\ Fields'.history = history'
  BY DEF Fields
<1>3. ASSUME NEW s, Shaped(s, clock, now), Complete(s), SetTo(s) PROVE Complete(Fields')
  <2> DEFINE f == Fields'
  <2>1. /\ f.meter = Uncalled(s.meter) /\ f.fight = s.fight /\ f.history = s.history
        /\ f.recorded = s.recorded
    BY <1>3 DEF SetTo, Fields
  <2>2. Fighters(Uncalled(s.meter)) = Fighters(s.meter) /\ Uncalled(s.meter).lc = s.meter.lc
    BY <1>3, UncalledCalm DEF Shaped
  <2> HIDE DEF f
  <2>3. Complete(f)
    BY <1>3, <2>1, <2>2 DEF Complete, IsEnded
  <2>4. QED
    BY <2>3 DEF f
<1>4. ASSUME ~ over
      PROVE  LET s == FlushServerChange(Fields, now)
             IN /\ Sound(s, clock, now) /\ Calm(s.meter, clock, now) /\ s.change = NONE
                /\ Complete(s) /\ Aged(s, now)
                /\ \/ s = Fields
                   \/ /\ RowsIn(s.meter, {"preloaded"}) = {}
                      /\ Fighters(s.meter) = Fighters(meter)
  BY <1>0, <1>1, <1>2, <1>4, FlushServerChangeSound, FlushServerChangeComplete,
     FlushServerChangeAged
<1>5. CASE Step
  <2> DEFINE s == FlushServerChange(Fields, now)
  <2>1. ~ over
    BY <1>5 DEF Step
  <2>2. PICK after \in Outcomes(s.meter) : SetTo(ApplyMapped(s, after, now))
    BY <1>5 DEF Step
  <2>3. /\ Sound(s, clock, now) /\ Calm(s.meter, clock, now) /\ s.change = NONE
        /\ Complete(s) /\ Aged(s, now)
        /\ \/ s.meter = meter
           \/ /\ RowsIn(s.meter, {"preloaded"}) = {}
              /\ Fighters(s.meter) = Fighters(meter)
    BY <1>2, <1>4, <2>1
  <2> HIDE DEF s
  <2> DEFINE r == ApplyMapped(s, after, now)
  <2>4. Applied(s.meter, after, clock, now)
    BY <1>0, <2>3, OutcomesApplied
  <2>5. Sound(r, clock, now) /\ r.meter = after
    BY <1>0, <1>1, <2>3, <2>4, ApplyMappedSound
  <2>6. CASE s.recorded /\ after.reason = "none" /\ IsEnded(after)
    <3>1. IsEnded(s.meter) /\ Trails(s.meter, after, clock)
      <4>1. IsEnded(s.meter)
        BY <2>3, <2>6 DEF Sound, Tied
      <4>2. QED
        BY <1>0, <2>3, <4>1, OutcomesTrail
    <3>2. r.fight = s.fight /\ r.recorded /\ r.history = s.history
      BY <1>0, <1>1, <2>3, <2>4, <2>6, StaysRecorded
    <3>3. /\ meter'.lc = after.lc /\ Fighters(meter') = Fighters(after)
          /\ history' = s.history /\ fight' = s.fight
      <4>1. meter' = Uncalled(after) /\ history' = r.history /\ fight' = r.fight
        BY <2>2, <2>5 DEF SetTo
      <4>2. Uncalled(after).lc = after.lc /\ Fighters(Uncalled(after)) = Fighters(after)
        BY <2>5, UncalledCalm DEF Sound, Shaped
      <4>3. QED
        BY <3>2, <4>1, <4>2
    <3>4. NoneJoins(s.meter, after) => Complete(Fields')
      <4>1. NoneJoins(s.meter, after) => Complete(r)
        BY <1>0, <1>1, <2>3, <2>4, ApplyMappedComplete
      <4>2. QED
        BY <1>3, <2>2, <2>5, <4>1 DEF Sound
    <3>5. CASE s.fight \notin DOMAIN s.history
      <4>1. Complete(r)
        BY <3>2, <3>5 DEF Complete
      <4>2. QED
        BY <1>3, <2>2, <2>5, <4>1 DEF Sound
    <3>6. CASE s.fight \in DOMAIN s.history /\ s.history[s.fight] = <<>>
      <4>1. Fighters(s.meter) = {}
        BY <2>3, <2>6, <3>1, <3>6 DEF Complete, HasRow
      <4>2. Fighters(meter) = {}
        BY <2>3, <4>1
      <4>3. QED
        BY <3>3, <3>6, <4>2 DEF Overtaken
    <3>7. CASE s.fight \in DOMAIN s.history /\ s.history[s.fight] # <<>>
      <4> DEFINE end == Last(s.history[s.fight]).end
      <4>1. end \in Int /\ Since(now, end) > PostEndGrace
        BY <2>3, <3>1, <3>7 DEF Aged, Older, IsEnded
      <4>2. CASE end # after.lc.end
        BY <3>3, <3>7, <4>2 DEF Overtaken
      <4>3. CASE end = after.lc.end /\ Since(clock, after.lc.end) <= PostEndGrace
        <5> HIDE DEF end
        <5>1. clock < now
          <6>1. end \in Int /\ Since(now, end) > PostEndGrace /\ Since(clock, end) <= PostEndGrace
            BY <4>1, <4>3
          <6>2. clock \in Nat /\ now \in Nat /\ clock <= now /\ PostEndGrace \in Nat
            BY <1>0, WindowsAssumption DEF Clocks
          <6>3. QED
            BY <6>1, <6>2 DEF Since
        <5>2. QED
          BY <3>3, <4>3, <5>1 DEF Overtaken
      <4>4. CASE Fighters(after) \subseteq Fighters(s.meter) \cup RowsIn(s.meter, {"preloaded"})
        <5>1. CASE s.meter = meter
          BY <3>1, <3>3, <4>4, <5>1 DEF Overtaken
        <5>2. CASE RowsIn(s.meter, {"preloaded"}) = {}
          BY <3>4, <4>4, <5>2 DEF NoneJoins
        <5>3. QED
          BY <2>3, <5>1, <5>2
      <4>5. QED
        BY <2>6, <3>1, <4>2, <4>3, <4>4 DEF Trails
    <3>8. QED
      BY <3>5, <3>6, <3>7
  <2>7. CASE ~ (s.recorded /\ after.reason = "none" /\ IsEnded(after))
    <3>1. Complete(r)
      BY <1>0, <1>1, <2>3, <2>4, <2>7, ApplyMappedComplete
    <3>2. QED
      BY <1>3, <2>2, <2>5, <3>1 DEF Sound
  <2>8. QED
    BY <2>6, <2>7
<1>6. CASE StepScene
  <2> DEFINE s == FlushServerChange(Fields, now)
  <2>1. ~ over
    BY <1>6 DEF StepScene
  <2>2. PICK scene \in Scenes :
          SetTo(ApplyMapped(IF s.meter.scene \notin {NONE, scene} THEN Refresh(s) ELSE s,
                            ApplyScene(s.meter, scene), now))
    BY <1>6, Zenon DEF StepScene
  <2>3. /\ Sound(s, clock, now) /\ Calm(s.meter, clock, now) /\ s.change = NONE
        /\ Complete(s)
    BY <1>4, <2>1
  <2> HIDE DEF s
  <2> DEFINE z == IF s.meter.scene \notin {NONE, scene} THEN Refresh(s) ELSE s
             r == ApplyMapped(z, ApplyScene(s.meter, scene), now)
  <2>4. Sound(z, clock, now) /\ z.meter = s.meter /\ z.change = NONE /\ Complete(z)
    <3>1. /\ Sound(Refresh(s), clock, now) /\ Beside(s, Refresh(s))
          /\ Refresh(s).history = s.history /\ Refresh(s).recorded = s.recorded
      BY <2>3, RefreshSound, RefreshFields DEF Sound, Shaped
    <3>2. Complete(Refresh(s))
      BY <2>3, <3>1 DEF Complete, Beside
    <3>3. QED
      BY <2>3, <3>1, <3>2 DEF Beside
  <2>5. Applied(s.meter, ApplyScene(s.meter, scene), clock, now)
    BY <1>0, <2>3, SceneApplied
  <2>6. NoneJoins(s.meter, ApplyScene(s.meter, scene))
    BY <2>3, ApplySceneJoins DEF Calm
  <2> HIDE DEF z
  <2>7. Shaped(r, clock, now) /\ Complete(r)
    BY <1>0, <1>1, <2>4, <2>5, <2>6, ApplyMappedSound, ApplyMappedComplete DEF Sound
  <2>8. SetTo(r)
    BY <2>2 DEF z
  <2> HIDE DEF r
  <2>9. QED
    BY <1>3, <2>7, <2>8
<1>7. CASE StepServerChanged
  BY <1>0, <1>3, <1>7, ArmServerChangeSound, ArmServerChangeComplete DEF StepServerChanged, Sound
<1>8. CASE PublishTick
  BY <1>0, <1>1, <1>2, <1>3, <1>8, PublishSound, PublishComplete DEF PublishTick, Sound
<1>9. CASE UserReset
  <2> DEFINE saved == Flush(Refresh(Fields))
             r == [saved EXCEPT !.held = NONE, !.recorded = FALSE,
                                !.meter = Reset(@, now, "manual")]
  <2>1. ~ over /\ SetTo(ResetByUser(Fields, now))
    BY <1>9 DEF UserReset
  <2>2. ResetByUser(Fields, now) = r
    BY Zenon DEF ResetByUser
  <2>3. Shaped(r, clock, now)
    BY <1>0, <2>1, <2>2, ResetByUserSound DEF Sound
  <2>4. DOMAIN saved = Fieldnames
    BY <1>0, <2>1, RefreshFields, FlushFields DEF Sound, Shaped, Beside
  <2> HIDE DEF saved
  <2>5. r.recorded = FALSE
    BY <2>4, Zenon DEF Fieldnames
  <2> HIDE DEF r
  <2>6. Complete(r)
    BY <2>5 DEF Complete
  <2>7. QED
    BY <1>3, <2>1, <2>2, <2>3, <2>6
<1>10. CASE Quit
  BY <1>0, <1>1, <1>2, <1>3, <1>10, QuitFinishes, QuitComplete DEF Quit, Finished
<1>11. CASE TimePasses
  <2>1. UNCHANGED <<fight, recorded, history>> /\ meter' = Called
    BY <1>11 DEF TimePasses, Pass, Hear
  <2>2. Called.lc = meter.lc /\ Fighters(Called) = Fighters(meter)
    <3>1. Called = Uncalled(meter)
      BY DEF Called, Uncalled
    <3>2. Sane(meter, clock, now)
      BY <1>2 DEF PipelineInv, Shaped
    <3>3. QED
      BY <3>1, <3>2, UncalledCalm
  <2> DEFINE f == Fields'
             e == Fields
  <2>3. /\ f.recorded = e.recorded /\ f.fight = e.fight /\ f.history = e.history
        /\ f.meter.lc = e.meter.lc /\ Fighters(f.meter) = Fighters(e.meter) /\ Complete(e)
    BY <1>2, <2>1, <2>2
  <2> HIDE DEF f, e
  <2>4. Complete(f)
    BY <2>3 DEF Complete, IsEnded
  <2>5. QED
    BY <2>4 DEF f
<1>12. QED
  BY <1>5, <1>6, <1>7, <1>8, <1>9, <1>10, <1>11 DEF PipelineNext

(* The row of the fight on the board keeps everyone the board shows, but    *)
(* for those reasons: a hit that waited in the queue comes when the        *)
(* pipeline's clock has closed the grace, a bystander dies into the fight, *)
(* an end that was recorded is taken back and the fight ended anew within  *)
(* one event, or nobody was left to record (pipeline.rs, record_fight_end  *)
(* and apply_mapped; encounter.rs, in_post_end_grace and record_death).    *)
THEOREM RowsStayComplete ==
  ASSUME LagIsShort PROVE PipelineSpec => RowStaysComplete
<1> DEFINE Inv == LedgerInv /\ (~ over => Aged(Fields, now))
           Staying == RowIsComplete /\ ~ RowIsComplete' => Overtaken
<1>1. PipelineInit => Inv
  <2> SUFFICES ASSUME PipelineInit PROVE Aged(Fields, now)
    BY LedgerInvInit
  <2>1. meter = NewMeter
    BY DEF PipelineInit, Init
  <2>2. meter.lc = Idle
    BY <2>1, Zenon DEF NewMeter
  <2>3. QED
    BY <2>2, FieldsAre DEF Aged, Idle
<1>2. Inv /\ [PipelineNext]_pvars => Inv'
  <2> SUFFICES ASSUME Inv, [PipelineNext]_pvars PROVE Inv'
    OBVIOUS
  <2>1. LedgerInv'
    BY LedgerInvKept
  <2>2. ASSUME PipelineNext, ~ over' PROVE Aged(Fields', now')
    <3>1. ~ over
      BY <2>2 DEF PipelineNext, Step, StepScene, StepServerChanged, PublishTick, UserReset, Quit,
                  TimePasses
    <3>2. QED
      BY <2>2, <3>1, StepAged DEF LedgerInv
  <2>3. ASSUME UNCHANGED pvars, ~ over' PROVE Aged(Fields', now')
    <3>1. Fields' = Fields /\ now' = now /\ over' = over
      BY <2>3 DEF pvars, Fields
    <3>2. QED
      BY <2>3, <3>1
  <2>4. QED
    BY <2>1, <2>2, <2>3
<1>3. LedgerInv => (RowIsComplete <=> Complete(Fields))
  <2> SUFFICES ASSUME LedgerInv PROVE RowIsComplete <=> Complete(Fields)
    OBVIOUS
  <2>1. /\ Fields.meter = meter /\ Fields.recorded = recorded /\ Fields.fight = fight
        /\ Fields.history = history
    BY DEF Fields
  <2>2. /\ fight \in Nat /\ fight <= MaxFights /\ DOMAIN history = 1 .. MaxFights
        /\ IsEnded(meter) => fight # 0
    BY <2>1 DEF LedgerInv, PipelineInv, Shaped, Filed, IsEnded
  <2>3. IsEnded(meter) => fight \in DOMAIN history
    BY <2>2, PipelineAssumption
  <2>4. QED
    BY <2>1, <2>3 DEF RowIsComplete, Complete, HasRow
<1>4. LedgerInv' => (RowIsComplete' <=> Complete(Fields)')
  BY <1>3, PTL
<1>5. Inv /\ Inv' /\ [PipelineNext]_pvars => [Staying]_pvars
  <2> SUFFICES ASSUME Inv, Inv', PipelineNext PROVE Staying
    OBVIOUS
  <2>1. Complete(Fields) => Complete(Fields') \/ Overtaken
    BY StepComplete DEF LedgerInv
  <2>2. QED
    BY <1>3, <1>4, <2>1
<1> HIDE DEF Inv, Staying
<1>6. PipelineSpec => [][Staying]_pvars
  BY <1>1, <1>2, <1>5, PTL DEF PipelineSpec
<1>7. QED
  BY <1>6 DEF Staying, Overtaken, RowStaysComplete

---------------------------------------------------------------------------
(* The clocks.  Whatever becomes of the records, the fields are timely: the *)
(* meter's times are in order, and a parked server change is stamped after *)
(* the last hit and not in the pipeline's future.                          *)
Timely(s, c, n) ==
  /\ DOMAIN s = Fieldnames /\ Ok(s.meter, c, n)
  /\ s.change # NONE => s.change \in Int /\ s.meter.last_event <= s.change /\ s.change <= n

(* What only rewrites the record and its flags keeps the times.            *)
Clerical(s, r) == DOMAIN r = Fieldnames /\ r.meter = s.meter /\ r.change = s.change

LEMMA ClericalTimely ==
  ASSUME NEW s, NEW r, NEW c, NEW n, Timely(s, c, n), Clerical(s, r) PROVE Timely(r, c, n)
BY DEF Timely, Clerical

(* Rewriting any field but the meter and the parked change is clerical.    *)
LEMMA FieldsClerical ==
  ASSUME NEW s, DOMAIN s = Fieldnames, NEW p, NEW h, NEW b, NEW f
  PROVE  /\ Clerical(s, [s EXCEPT !.pending = p]) /\ Clerical(s, [s EXCEPT !.held = h])
         /\ Clerical(s, [s EXCEPT !.recorded = b]) /\ Clerical(s, [s EXCEPT !.fight = f])
         /\ Clerical(s, [s EXCEPT !.held = h, !.recorded = b])
         /\ Clerical(s, [s EXCEPT !.recorded = b, !.held = h])
         /\ Clerical(s, [s EXCEPT !.held = h, !.pending = p])
         /\ Clerical(s, Flush(s)) /\ Clerical(s, Refresh(s)) /\ Clerical(s, Preserve(s, p))
<1>1. Clerical(s, [s EXCEPT !.pending = p])
  BY Zenon DEF Clerical, Fieldnames
<1>2. Clerical(s, [s EXCEPT !.held = h])
  BY Zenon DEF Clerical, Fieldnames
<1>3. Clerical(s, [s EXCEPT !.recorded = b])
  BY Zenon DEF Clerical, Fieldnames
<1>4. Clerical(s, [s EXCEPT !.fight = f])
  BY Zenon DEF Clerical, Fieldnames
<1>5. Clerical(s, [s EXCEPT !.held = h, !.recorded = b])
  BY Zenon DEF Clerical, Fieldnames
<1>6. Clerical(s, [s EXCEPT !.recorded = b, !.held = h])
  BY Zenon DEF Clerical, Fieldnames
<1>7. Clerical(s, [s EXCEPT !.held = h, !.pending = p])
  BY Zenon DEF Clerical, Fieldnames
<1>8. Clerical(s, Flush(s)) /\ Clerical(s, Refresh(s))
  BY FlushFields, RefreshFields DEF Clerical, Beside
<1>9. Clerical(s, Preserve(s, p))
  BY <1>1, Zenon DEF Preserve, Clerical
<1>10. QED
  BY <1>1, <1>2, <1>3, <1>4, <1>5, <1>6, <1>7, <1>8, <1>9

LEMMA ClericalTwice ==
  ASSUME NEW s, NEW r, NEW z, Clerical(s, r), Clerical(r, z) PROVE Clerical(s, z)
BY DEF Clerical

(* record_fight_end does not touch the meter. *)
LEMMA RecordFightEndClerical ==
  ASSUME NEW s, DOMAIN s = Fieldnames, NEW t PROVE Clerical(s, RecordFightEnd(s, t))
<1> DEFINE m == s.meter
           left == [s EXCEPT !.held = NONE]
           settled == IF s.held # NONE /\ m.lc.start = s.held
                      THEN [left EXCEPT !.pending = NoRecord] ELSE Flush(left)
           waits == [s EXCEPT !.held = m.lc.start, !.pending = Captured(s)]
           final == IF s.pending # NoRecord THEN Refresh(s)
                    ELSE [s EXCEPT !.pending = Captured(s)]
           closed == [final EXCEPT !.recorded = TRUE, !.held = NONE]
<1>1. \/ RecordFightEnd(s, t) \in {s, waits}
      \/ RecordFightEnd(s, t) = [settled EXCEPT !.recorded = FALSE]
      \/ RecordFightEnd(s, t) = Flush(closed)
  <2>1. \/ RecordFightEnd(s, t) = s \/ RecordFightEnd(s, t) = waits
        \/ RecordFightEnd(s, t) = [settled EXCEPT !.recorded = FALSE]
        \/ RecordFightEnd(s, t) = Flush(closed)
    BY Zenon DEF RecordFightEnd, Settle
  <2> HIDE DEF waits, settled, closed
  <2>2. QED
    BY <2>1
<1>2. Clerical(s, s)
  BY DEF Clerical
<1>3. Clerical(s, waits) /\ Clerical(s, left) /\ Clerical(s, final)
  BY FieldsClerical
<1>4. DOMAIN left = Fieldnames /\ DOMAIN final = Fieldnames
  BY <1>3 DEF Clerical
<1> HIDE DEF left, final
<1>5. Clerical(left, settled) /\ Clerical(final, closed)
  BY <1>4, FieldsClerical
<1>6. Clerical(s, settled) /\ Clerical(s, closed)
  BY <1>3, <1>5, ClericalTwice
<1> HIDE DEF settled, closed, waits
<1>7. /\ Clerical(settled, [settled EXCEPT !.recorded = FALSE])
      /\ Clerical(closed, Flush(closed))
  BY <1>6, FieldsClerical DEF Clerical
<1>8. /\ Clerical(s, [settled EXCEPT !.recorded = FALSE]) /\ Clerical(s, Flush(closed))
  BY <1>6, <1>7, ClericalTwice
<1>9. QED
  BY <1>1, <1>2, <1>3, <1>8

(* apply_mapped takes the meter apply leaves, when no change is parked.    *)
LEMMA ApplyMappedTimely ==
  ASSUME NEW s, NEW c, NEW n, Timely(s, c, n), s.change = NONE, NEW after, Ok(after, c, n),
         NEW t
  PROVE  /\ Timely(ApplyMapped(s, after, t), c, n) /\ ApplyMapped(s, after, t).change = NONE
         /\ ApplyMapped(s, after, t).meter = after
<1> DEFINE applied == [s EXCEPT !.meter = after]
           preserved == Preserve(applied, Record(s.fight, after.saved.rows, after.saved.lc))
           kept == IF ~ s.recorded /\ after.saved # Nothing THEN Flush(preserved) ELSE applied
           reset == IF after.reason = "none" THEN kept
                    ELSE [kept EXCEPT !.held = NONE, !.recorded = FALSE]
           next == [reset EXCEPT !.fight = IF Starts(s.meter, after) THEN @ + 1 ELSE @]
<1>1. ApplyMapped(s, after, t) = RecordFightEnd(next, t)
  BY Zenon DEF ApplyMapped
<1>2. DOMAIN applied = Fieldnames /\ applied.meter = after /\ applied.change = NONE
  BY Zenon DEF Timely, Fieldnames
<1> HIDE DEF applied
<1>3. Clerical(applied, preserved) /\ Clerical(applied, applied)
  BY <1>2, FieldsClerical DEF Clerical
<1> HIDE DEF preserved
<1>4. Clerical(preserved, Flush(preserved))
  BY <1>3, FieldsClerical DEF Clerical
<1>5. Clerical(applied, kept)
  BY <1>3, <1>4, ClericalTwice
<1> HIDE DEF kept
<1>6. Clerical(kept, reset)
  BY <1>5, FieldsClerical DEF Clerical
<1>7. Clerical(applied, reset)
  BY <1>5, <1>6, ClericalTwice
<1> HIDE DEF reset
<1>8. Clerical(reset, next)
  BY <1>7, FieldsClerical DEF Clerical
<1>9. Clerical(applied, next)
  BY <1>7, <1>8, ClericalTwice
<1> HIDE DEF next
<1>10. Clerical(next, RecordFightEnd(next, t))
  BY <1>9, RecordFightEndClerical DEF Clerical
<1>11. Clerical(applied, RecordFightEnd(next, t))
  BY <1>9, <1>10, ClericalTwice
<1>12. QED
  BY <1>1, <1>2, <1>11 DEF Clerical, Timely

(* The parked change lands at the time it was stamped with. *)
LEMMA FlushServerChangeTimely ==
  ASSUME NEW s, NEW c, NEW n, Clocks(c, n), Timely(s, c, n), NEW t
  PROVE  Timely(FlushServerChange(s, t), c, n) /\ FlushServerChange(s, t).change = NONE
<1>1. CASE s.change = NONE
  BY <1>1 DEF FlushServerChange
<1>2. CASE s.change # NONE
  <2> DEFINE free == [s EXCEPT !.change = NONE]
  <2>1. DOMAIN free = Fieldnames /\ free.meter = s.meter /\ free.change = NONE
    BY Zenon DEF Timely, Fieldnames
  <2>2. FlushServerChange(s, t) = ApplyMapped(free, ApplyServerChanged(s.meter, s.change), t)
    BY <1>2 DEF FlushServerChange
  <2> HIDE DEF free
  <2>3. Timely(free, c, n)
    BY <2>1 DEF Timely
  <2>4. Ok(ApplyServerChanged(s.meter, s.change), c, n)
    BY <1>2, ApplyServerChangedOk DEF Timely
  <2>5. QED
    BY <2>1, <2>2, <2>3, <2>4, ApplyMappedTimely
<1>3. QED
  BY <1>1, <1>2

(* publish: the poll ends a fight no later than now. *)
LEMMA PublishTimely ==
  ASSUME NEW s, NEW c, NEW n, Clocks(c, n), Timely(s, c, n)
  PROVE  Timely(Publish(s, n), c, n)
<1> DEFINE due == s.change # NONE /\ Since(n, s.change) >= ServerChangeGrace
           landed == IF due THEN FlushServerChange(s, n) ELSE s
           polled == [landed EXCEPT !.meter = Pin(@, n)]
<1>1. Publish(s, n) = RecordFightEnd(polled, n)
  BY Zenon DEF Publish
<1>2. Timely(landed, c, n)
  BY FlushServerChangeTimely
<1> HIDE DEF landed
<1>3. /\ DOMAIN polled = Fieldnames /\ polled.meter = Pin(landed.meter, n)
      /\ polled.change = landed.change
  BY <1>2, Zenon DEF Timely, Fieldnames
<1> HIDE DEF polled
<1>4. n \in Int /\ c <= n /\ n <= n
  BY DEF Clocks
<1>5. Ok(Pin(landed.meter, n), c, n) /\ Pin(landed.meter, n).last_event = landed.meter.last_event
  BY <1>2, <1>4, PinOk DEF Timely
<1>6. Timely(polled, c, n)
  BY <1>2, <1>3, <1>5 DEF Timely
<1>7. QED
  BY <1>1, <1>3, <1>6, RecordFightEndClerical, ClericalTimely

(* The adoption is stamped now, after every hit. *)
LEMMA ArmServerChangeTimely ==
  ASSUME NEW s, NEW c, NEW n, Clocks(c, n), Timely(s, c, n)
  PROVE  Timely(ArmServerChange(s, n), c, n)
<1> DEFINE armed == [s EXCEPT !.change = IF @ = NONE THEN n ELSE NONE]
<1>1. ArmServerChange(s, n) = RecordFightEnd(armed, n)
  BY DEF ArmServerChange
<1>2. /\ DOMAIN armed = Fieldnames /\ armed.meter = s.meter
      /\ armed.change = IF s.change = NONE THEN n ELSE NONE
  BY Zenon DEF Timely, Fieldnames
<1> HIDE DEF armed
<1>3. n \in Int /\ s.meter.last_event <= n
  BY DEF Timely, Ok, OkTimes, Clocks
<1>4. Timely(armed, c, n)
  BY <1>2, <1>3 DEF Timely
<1>5. QED
  BY <1>1, <1>2, <1>4, RecordFightEndClerical, ClericalTimely

(* The user's reset leaves the time of the last hit. *)
LEMMA ResetByUserTimely ==
  ASSUME NEW s, NEW c, NEW n, Timely(s, c, n) PROVE Timely(ResetByUser(s, n), c, n)
<1> DEFINE fresh == Refresh(s)
           saved == Flush(fresh)
           r == [saved EXCEPT !.held = NONE, !.recorded = FALSE,
                              !.meter = Reset(@, n, "manual")]
<1>1. ResetByUser(s, n) = r
  BY DEF ResetByUser
<1>2. Clerical(s, fresh)
  BY FieldsClerical DEF Timely
<1> HIDE DEF fresh
<1>3. Clerical(fresh, saved)
  BY <1>2, FieldsClerical DEF Clerical
<1>4. Timely(saved, c, n)
  BY <1>2, <1>3, ClericalTwice, ClericalTimely
<1> HIDE DEF saved
<1>5. DOMAIN r = Fieldnames /\ r.meter = Reset(saved.meter, n, "manual") /\ r.change = saved.change
  BY <1>4, Zenon DEF Timely, Fieldnames
<1> HIDE DEF r
<1>6. /\ Ok(Reset(saved.meter, n, "manual"), c, n)
      /\ Reset(saved.meter, n, "manual").last_event = saved.meter.last_event
  BY <1>4, ResetOk DEF Timely
<1>7. QED
  BY <1>1, <1>4, <1>5, <1>6 DEF Timely

LEMMA FinalizeTimely ==
  ASSUME NEW s, NEW c, NEW n, Clocks(c, n), Timely(s, c, n)
  PROVE  Timely(FinalizeForShutdown(s, n), c, n)
<1> DEFINE landed == FlushServerChange(s, n)
           fresh == Refresh(landed)
           last == RecordFightEnd(fresh, n)
           closed == [last EXCEPT !.recorded = TRUE, !.held = NONE]
<1>1. FinalizeForShutdown(s, n) = IF last.pending = NoRecord THEN last ELSE Flush(closed)
  BY Zenon DEF FinalizeForShutdown
<1>2. Timely(landed, c, n)
  BY FlushServerChangeTimely
<1> HIDE DEF landed
<1>3. Timely(fresh, c, n)
  BY <1>2, FieldsClerical, ClericalTimely DEF Timely
<1> HIDE DEF fresh
<1>4. Timely(last, c, n)
  BY <1>3, RecordFightEndClerical, ClericalTimely DEF Timely
<1> HIDE DEF last
<1>5. Timely(closed, c, n)
  BY <1>4, FieldsClerical, ClericalTimely DEF Timely
<1> HIDE DEF closed
<1>6. Timely(Flush(closed), c, n)
  BY <1>5, FieldsClerical, ClericalTimely DEF Timely
<1>7. QED
  BY <1>1, <1>4, <1>6

(* Every event but a change of scene or server. *)
LEMMA OutcomesOk ==
  ASSUME NEW m, NEW n, Clocks(clock, n), Ok(m, clock, n), NEW r \in Outcomes(m)
  PROVE  Ok(r, clock, n)
<1>1. ASSUME NEW d \in Damages, r = ApplyDamage(m, d, clock) PROVE Ok(r, clock, n)
  BY <1>1, ApplyDamageOk
<1>2. ASSUME NEW e, NEW id, NEW hp, r = ApplyEnemyHp(m, e, id, hp, clock) PROVE Ok(r, clock, n)
  BY <1>2, ApplyEnemyHpOk
<1>3. ASSUME NEW e, NEW reason, r = ApplyEnemyGone(m, e, reason) \/ r = EnemyDied(m, e, clock)
      PROVE  Ok(r, clock, n)
  BY <1>3, ApplyEnemyGoneOk, EnemyDiedOk
<1>4. ASSUME NEW p, r = PlayerDied(m, p, clock) \/ r = PlayerRevived(m, p) \/ r = ApplyPlayer(m, p)
      PROVE  Ok(r, clock, n)
  BY <1>4, PlayerStateOk, RowsOk
<1>5. ASSUME NEW members, r = Keep(m, members) PROVE Ok(r, clock, n)
  BY <1>5, RowsOk
<1>6. ASSUME NEW ds \in DungeonStates, r = ApplyDungeonState(m, ds) \/ r = CompletionSignal(m)
      PROVE  Ok(r, clock, n)
  BY <1>6, ApplyDungeonStateOk, CompletionSignalOk
<1>7. ASSUME NEW obj, NEW zero, NEW complete,
             \/ r = ApplyObjective(m, obj, zero, complete) \/ r = ApplyObjectiveRemoved(m, obj)
      PROVE  Ok(r, clock, n)
  BY <1>7, ApplyObjectiveOk
<1>8. QED
  BY <1>1, <1>2, <1>3, <1>4, <1>5, <1>6, <1>7 DEF Outcomes

(* The invariant of the clocks. *)
TimelyInv == Clocks(clock, now) /\ Timely(Fields, clock, now)

(* The step takes what apply last returned off the meter. *)
LEMMA SetToTimely ==
  ASSUME NEW s, Clocks(clock, now), Timely(s, clock, now), SetTo(s), UNCHANGED <<clock, now>>
  PROVE  TimelyInv'
<1>1. meter' = Uncalled(s.meter) /\ change' = s.change
  BY DEF SetTo
<1>2. /\ DOMAIN Uncalled(s.meter) = DOMAIN s.meter /\ Uncalled(s.meter).lc = s.meter.lc
      /\ Uncalled(s.meter).last_event = s.meter.last_event
  BY Zenon DEF Timely, Ok, Uncalled, NewMeter
<1>3. Ok(Uncalled(s.meter), clock, now)
  BY <1>2, SameOk DEF Timely, Same
<1>4. /\ DOMAIN (Fields') = Fieldnames /\ (Fields').meter = meter' /\ (Fields').change = change'
  BY DEF Fields, Fieldnames
<1>5. Timely(Fields', clock, now)
  BY <1>1, <1>2, <1>3, <1>4 DEF Timely
<1>6. QED
  BY <1>5 DEF TimelyInv, Clocks

LEMMA TimelyInvKept == TimelyInv /\ [PipelineNext]_pvars => TimelyInv'
<1> SUFFICES ASSUME TimelyInv, [PipelineNext]_pvars PROVE TimelyInv'
  OBVIOUS
<1>0. Clocks(clock, now) /\ Timely(Fields, clock, now)
  BY DEF TimelyInv
<1> DEFINE landed == FlushServerChange(Fields, now)
<1>1. Timely(landed, clock, now) /\ landed.change = NONE
  BY <1>0, FlushServerChangeTimely
<1> HIDE DEF landed
<1>2. CASE Step
  <2>1. PICK after \in Outcomes(landed.meter) : SetTo(ApplyMapped(landed, after, now))
    BY <1>2 DEF Step, landed
  <2>2. Ok(after, clock, now)
    BY <1>0, <1>1, OutcomesOk DEF Timely
  <2>3. Timely(ApplyMapped(landed, after, now), clock, now)
    BY <1>1, <2>2, ApplyMappedTimely
  <2>4. QED
    BY <1>0, <1>2, <2>1, <2>3, SetToTimely DEF Step
<1>3. CASE StepScene
  <2> DEFINE leaving(scene) == landed.meter.scene \notin {NONE, scene}
             left(scene) == IF leaving(scene) THEN Refresh(landed) ELSE landed
  <2>1. PICK scene \in Scenes :
          SetTo(ApplyMapped(left(scene), ApplyScene(landed.meter, scene), now))
    BY <1>3 DEF StepScene, landed
  <2>2. Ok(ApplyScene(landed.meter, scene), clock, now)
    BY <1>0, <1>1, ApplySceneOk DEF Timely
  <2>3. Clerical(landed, Refresh(landed))
    BY <1>1, FieldsClerical DEF Timely
  <2>4. Timely(left(scene), clock, now) /\ left(scene).change = NONE
    BY <1>1, <2>3, ClericalTimely DEF Clerical
  <2> HIDE DEF left
  <2>5. Timely(ApplyMapped(left(scene), ApplyScene(landed.meter, scene), now), clock, now)
    BY <2>2, <2>4, ApplyMappedTimely
  <2>6. QED
    BY <1>0, <1>3, <2>1, <2>5, SetToTimely DEF StepScene
<1>4. CASE StepServerChanged
  BY <1>0, <1>4, ArmServerChangeTimely, SetToTimely DEF StepServerChanged
<1>5. CASE PublishTick
  BY <1>0, <1>5, PublishTimely, SetToTimely DEF PublishTick
<1>6. CASE UserReset
  BY <1>0, <1>6, ResetByUserTimely, SetToTimely DEF UserReset
<1>7. CASE Quit
  <2>1. Timely(Publish(FinalizeForShutdown(Fields, now), now), clock, now)
    BY <1>0, FinalizeTimely, PublishTimely
  <2>2. QED
    BY <1>0, <1>7, <2>1, SetToTimely DEF Quit
<1>8. CASE TimePasses
  <2>1. clock' \in Nat /\ now' \in Nat /\ clock <= clock' /\ now <= now' /\ clock' <= now'
    BY <1>0, <1>8, WindowsAssumption DEF TimePasses, Pass, Hear, Clocks
  <2>2. meter' = Called /\ change' = change
    BY <1>8 DEF TimePasses, Pass, Hear
  <2>3. Ok(meter, clock, now)
    BY <1>0, FieldsAre DEF Timely
  <2>4. /\ DOMAIN Called = DOMAIN meter /\ Called.lc = meter.lc
        /\ Called.last_event = meter.last_event
    BY <2>3, Zenon DEF Ok, Called, NewMeter
  <2>5. Ok(Called, clock, now)
    BY <2>3, <2>4, SameOk DEF Same
  <2>6. Ok(Called, clock', now')
    BY <1>0, <2>1, <2>5, LaterOk
  <2>7. /\ DOMAIN (Fields') = Fieldnames /\ (Fields').meter = meter' /\ (Fields').change = change'
    BY DEF Fields, Fieldnames
  <2>8. change # NONE => change \in Int /\ meter.last_event <= change /\ change <= now'
    <3>1. change # NONE => change \in Int /\ meter.last_event <= change /\ change <= now
      BY <1>0, FieldsAre DEF Timely
    <3>2. now \in Int
      BY <1>0 DEF Clocks
    <3>3. QED
      BY <2>1, <3>1, <3>2
  <2>9. Timely(Fields', clock', now')
    BY <2>2, <2>4, <2>6, <2>7, <2>8 DEF Timely
  <2>10. QED
    BY <2>1, <2>9 DEF TimelyInv, Clocks
<1>9. CASE UNCHANGED pvars
  BY <1>0, <1>9 DEF TimelyInv, pvars, Fields
<1>10. QED
  BY <1>2, <1>3, <1>4, <1>5, <1>6, <1>7, <1>8, <1>9 DEF PipelineNext

(* The times of a fight are in order in the pipeline too, which calls the  *)
(* meter on clocks of its own: it applies what it decodes at the packets'  *)
(* time, polls and resets at now, and lands a parked server change at the  *)
(* moment it was parked, before any later event (pipeline.rs,              *)
(* flush_server_change, apply_mapped, publish and reset_by_user).  However  *)
(* late the packets are decoded, no fight ends before its last hit.        *)
THEOREM ClocksStayInOrderInThePipeline == PipelineSpec => []ClocksInOrder
<1>1. PipelineInit => TimelyInv
  <2> SUFFICES ASSUME PipelineInit PROVE TimelyInv
    OBVIOUS
  <2>1. Clocks(clock, now) /\ Ok(meter, clock, now)
    BY ClockInit DEF PipelineInit, ClockInv
  <2>2. change = NONE
    BY DEF PipelineInit
  <2>3. QED
    BY <2>1, <2>2, FieldsAre DEF TimelyInv, Timely
<1>2. TimelyInv => ClocksInOrder
  <2> SUFFICES ASSUME TimelyInv PROVE ClocksInOrder
    OBVIOUS
  <2>1. Clocks(clock, now) /\ Ok(meter, clock, now)
    BY FieldsAre DEF TimelyInv, Timely
  <2>2. QED
    BY <2>1 DEF ClocksInOrder, Clocks, Ok, OkTimes, Decoded, IsEnded
<1>3. QED
  BY <1>1, <1>2, TimelyInvKept, PTL DEF PipelineSpec

=============================================================================
