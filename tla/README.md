# Verification of ShinraMeter-BPSR

TLA+ models of the meter's core, checked with TLC on small instances, and
theorems about them checked with TLAPS for every value of the constants.
`PROJECT.json` says which lines of the source each definition stands for.

## 1. The system

ShinraMeter is a combat meter. It sniffs the game server's TCP packets,
reassembles the stream, decodes protocol frames into events, folds the events
into an encounter (who did what, when the fight began and ended), shows it in an
overlay and records every finished fight in a local history.

```
 capture thread                              pipeline thread             UI thread
 recv_loop -> detector -> TcpReassembler     Pipeline::step -> Meter     overlay
              -> Decoder  -- events, bounded queue -->  |  -- snapshot, one slot -->
 heartbeat thread: watchdog -- restart flag             |  <-- commands (reset, quit)
                                                        +-- history channel --> writer thread (SQLite)
                                                        +-- names channel ----> cache writer thread
```

| Component | State | Operations | What is hard | What makes it correct |
|---|---|---|---|---|
| TCP reassembler (`capture/src/tcp.rs`) | out-of-order cache and its cost, `next_seq`, ordered buffer, `loss`, stall guard | `push`, `resync`, `take_stream`, `take_loss` | reordering, repacketized retransmits, sequence wrap, gaps nobody fills, reconnects on the same 4-tuple, two caps | never an unreported break; every gap ends; the caps hold |
| Capture loop, watchdog (`win.rs`, `throughput.rs`, `restart.rs`, `backoff.rs`) | known server, game pids and their lookup, evidence of a stall, restart and stop flags | one packet; restart; wakeup | flag raised between packets, verdict and request in two steps, FIN with payload, stop during a blocking send | a wedged connection is given up; the game's connection is found again; it ends when told |
| Server detector (`detect.rs`, `owner.rs`) | known server, its subnet, the candidates tried | `decide_packet`, `adopt`, `reset` | reconnect without FIN, displacement, a stale set of pids | no swapping back and forth; the game's connection is never shut out for good |
| Event queue (`backpressure.rs`) | bounded channel | `try_send`, blocking send of `ServerChanged` | drops under load | events of two connections are always separated |
| Frame decoder (`protocol/src/frame.rs`, `decode.rs`) | partial frame, entity attributes | `push_stream`, `reset` | desynchronization after a loss | finds a frame boundary again |
| Fight lifecycle (`meter/src/fight.rs`) | Idle / Active / Ended with start, end, observation, cause, armed boss, hold | `start`, `end`, `resume`, `hold`, `arm_phase_resume`, ... | refused transitions | an end is final but for a resumption |
| Encounter tracker (`meter/src/encounter.rs`, `reset.rs`, `phase.rs`) | lifecycle, enemies, death order, tracked boss, roster, scene, dungeon state and objectives | one handler per event, `tick`, `reset` | orders of kill, completion, wipe, scene change, HP rollback, idle end; four clocks; holds and windows | no fight is erased unless it may be; no pull is swallowed; times in order |
| Pipeline (`app/src/pipeline.rs`) | the meter, `fight_end_recorded`, pending record, held start, parked server change | `step`, `tick`, `record_fight_end`, `reset`, `finalize_for_shutdown`, `publish` | a fight that ends and is erased in one step, trailing hits, resumption, adoption unconfirmed, quit | each fight is recorded once, with all its rows |
| Overlay (`ui/`, `platform.rs`) | last snapshot, banner, window state | drain, banners, commands | publisher and overlay race for one slot; permanent and transient banners; a quit that looks like a death | the newest snapshot and every death are shown, and no false alarm |
| Shutdown (`main.rs`, `CacheWriter`) | command channel, shared budget, joins | Quit, stop the capture, join with a deadline | threads that hang, writers with work left | the process ends; nothing is lost if every worker was joined |
| History (`app/src/history/`) | SQLite database, retention | record, list, load, delete, clear | writer gone, schema migration | one row per record sent |
| Dump ring (`dump.rs`) | rotated segments, byte budget | send, rotate, sweep | rotation across sessions | budget kept, newest kept |
| Updater (`update_check.rs`), single instance, settings | files beside the executable | stage, swap, clean up; lock; save | swap half done | a runnable executable is always in place |
| Tables, parsing, statistics, sanitizing, tools | - | pure | - | - |

Interactions: the capture thread calls the reassembler and the decoder
synchronously and sends events through a bounded queue (dropped when full, but
`ServerChanged` blocks). The pipeline thread alone owns the meter. It selects among
events, UI commands and a 100 ms ticker; history and names writers only receive.

## 2. Modules

| Module | Models |
|---|---|
| `TcpReassembler` | `tcp.rs`, and from `win.rs` how its caller uses it |
| `OrderedStream` | what a caller may rely on; `TcpReassembler` is shown to implement it |
| `ServerDetector` | `detect.rs`: the decisions, as operators |
| `Capture` | `recv_loop`, the monitor and its watchdog, the flags, the event queue; extends `ServerDetector` |
| `FightLifecycle` | `fight.rs`, one operator per transition |
| `Encounter` | `encounter.rs`, `reset.rs`, `phase.rs`; extends `FightLifecycle` |
| `Fights` | what the pipeline may rely on of the meter: a sequence of fights; `Encounter` is shown to implement it |
| `Pipeline` | the history side of `pipeline.rs`; extends `Encounter`, whose meter it drives |
| `Session` | the threads of one run of the program: select loop, `publish`, overlay, writers, shutdown |
| `MC*` | small instances for TLC |
| `*_proofs` | theorems |
| `Orbits` | iteration of a function and induction on finite sets, for the proofs about the reassembler's loops |

**TcpReassembler.** A byte is named by its place in the stream the server sent, so
that the invariants can speak of contiguity, and the payload of a segment is a
stretch of those names. `Arrive` is one `push`: the segment is absorbed
(`Absorb`), stale entries are reconciled, the cap is enforced, then exactly one of
`Progress`, `Wait` and `Trip` does what the stall guard does. `Adopt` is `resync`, `Take`
is `take_loss` then `take_stream`. The sequence space is `0 .. Mod - 1` and all
differences wrap as `wrapping_sub ... as i32` does. The stall clock is an age, since the
code only uses differences. The caller may push again before it takes the stream: the
interface allows it, the capture loop does not do it, and `batched` tells the two apart.

**OrderedStream.** The contract: bytes are only added behind the bytes in hand and fit there,
or a loss is announced. The refinement maps `pending` to `buffer`, `broken` to `loss` and `taken` to the last
byte handed over (`last`, which records what the code has given away).

**Capture.** The loop is a program counter: `top` (flags), `recv` (blocked in the driver), then for one
packet `announce` (the blocking send), `anchor` or `push`, `send` (one event at a time). A packet is
its connection, direction, flags and what its payload means to the detector. `Recv` is everything from the
clock reading to `decide_packet`'s effects; the watchdog's `Wake` decides under the monitor's lock and `AskRestart`
raises the flag after it is released, so the loop can move between the two. The reassembler is reduced to
whether a push delivers, and whether it is stuck; an adoption or a restart re-anchors it. `tried` is a history
variable: the connections adopted since the detector last forgot its subnet.

**Encounter.** The meter is one record. Every method that changes it is an operator
from a meter to a meter with the code's guards in the code's order, and every event is
an action that applies its whole handler. HP has three levels, told apart by the two
thresholds the code has (`Dead`, `Low` under the despawn-death bound, `Full` over the
rollback bound). A roster row is absent, preloaded, up or down. `clock` is the capture time of the
packet being decoded, `now` the pipeline's; the first trails the second by at most
`MaxLag`. `saved` and `reason` are what `apply_preserving_ended_fight` returns.

**Fights.** The contract, in terms of the fight on the board, the fight the last call handed back and the time of the
packets: a fight begins (`Begin`), runs, ends, stands as it ended or goes on with a next phase (`Go`), makes room
(`HandBack`), is thrown away by the dungeon or a re-pull (`Discard`) or cleared by the user (`Clear`). The mapping (`AsFight`)
keeps of `lc` its state, start, end and cause, and whether the armed boss has phases left (`open`); `handed` is
`meter.saved.lc` and `reason` the reset `apply` returned. Rows, enemies, scenes, holds and windows are the meter's own.

**Pipeline.** `Fields` is the `Pipeline` struct; `RecordFightEnd`, `ApplyMapped`,
`FlushServerChange`, ... are its methods. A record is the fight's number, its rows, and the cause and time of its
end. `Outcomes` is the set of meters an event can leave; an event that is a scene
has its own action because the pipeline looks at it first. No record is built when no
row is left (the code also builds none when the damage is zero; a row in the model stands for
one with damage). The rows of a record are the fighters of the board (`Fighters`, up or down); the code's snapshot also carries the
zero rows of the preloaded members, which are no fighters here, on the board or in a record.

**Session.** The meter is a version number here. The pipeline thread is a program counter over `select!`, the three
channel operations of `publish`, the last save and the join of the names writer; the overlay is one action per frame,
in the order of `ui()`: drain, banners of the drain, outcomes of background actions, expiry. `main` is the sequence
after `run_native`. Faults are actions: the capture thread dies or never started, the pipeline panics or hangs.
The wake-up is left out because a frame is painted anyway (`IDLE_HEARTBEAT`); it only makes the next one sooner. The
order of `publish`, which wakes the overlay before it sends the snapshot, is therefore not put to the test: `LatestIsShown` and
`DeathIsShown` speak of the race for the slot and of the banners.

Abstracted away: damage numbers, skills, buffs, casts, names, log lines, the cap on
preloaded rows, the debounce of death counts, and where a dungeon signal came from.

## 3. Runs

| Run | Instance | Shows |
|---|---|---|
| `reassembly` | two connections of 5 bytes on one 4-tuple, segments up to 3, space of 32 that wraps inside the first stream, the second's ISN behind the first's, caps of 4 and 8, a caller that may batch, fairness | it implements `OrderedStream` (`ImplementsOrderedStream`) and never hides a break (`NoSilentBreak`); an unbatched chunk is contiguous (`ChunkContiguous`); the guard only counts a genuine gap (`StallIsGenuine`) and never past its threshold (`StallBounded`); the cost is exact and capped (`CacheAccounted`); every gap ends (`EveryGapEnds`); the new connection is followed (`FollowsReconnect`) |
| `capture` | two connections of one subnet and two processes, a queue of one, restarts, teardowns | `NoMixedConnections`, `SubnetNeverReadopts`, `GameIsFollowed` |
| `watchdog` | one connection, a queue of one, a stall after 3 ticks, evidence good for 2, one receive error, a pipeline that exits, a stop | `WedgeIsEscaped`, `StopIsHonoured` |
| `wipes` | two players, one boss, which packets name, a town and a dungeon, packets up to one tick late | a pull counts (`PullIsCounted`), nothing is erased that may not be (`FightsEraseSafely`), rows freeze after the grace period (`FrozenAfterGrace`), `ClocksInOrder` |
| `phases` | one player, the two phases of one boss | `BossIsCurrent`, `NoHoldIsForever`, `EndIsFinal`; the meter implements `Fights` (`ImplementsFights`) |
| `dungeon` | one player, a phased boss, a dungeon that starts and ends, two objectives | `TerminalRunIsNotResumed`, `FightsEraseSafely` |
| `recording` | the pipeline: one player, two phases of a boss and a boss of one phase in one slot, a town and a dungeon, a parked server change, two fights, one tick, reset and quit | `PendingIsOfTheBoard`, `OneRowPerFight`, `NoFightIsLost`; the times stay in order on the pipeline's clocks too (`ClocksInOrder`) |
| `rows` | the pipeline: two players, one boss of one phase, a dungeon, packets up to one tick late, one tick | a row misses nobody when it is filed (`RowsAreWhole`), and goes stale later only by a packet that waited or by a bystander who dies (`RowStaysComplete`) |
| `session` | two changes of the board, a command channel of two, every fault | `NoFalseAlarm`, `CleanShutdown`, `DeathIsShown`, `LatestIsShown`, `ShutdownEnds` |

and three that end in a counterexample, each a disagreement of the code with its own comments:

| Run | Comment | What the code does |
|---|---|---|
| `stall_clock` | the stall clock is `None` when caught up | a stale cached segment left by a re-anchor keeps it running; the next gap starts with idle time on its budget |
| `held_resumption` | the wipe hold is only taken right after a wipe is latched; a held running fight is unreachable | an HP rollback after the boss's death takes the hold on a fight that is not a wipe, and the next phase resumes it, held |
| `rows_late` | the record is built after every trailing packet was absorbed | packets that wait in the queue are folded in after the row was sent |

Other disagreements met while modelling, without a run of their own:

- `end_fight_on_held_dungeon_finish` says it is called from every path that can kill an enemy (`encounter.rs` 1743);
  a death seen as a despawn (`apply_enemy_gone`, 2819) does not call it, so a held completion stays unresolved.
- `main.rs` 529-531 says sending `Quit` "guarantees a clean shutdown"; it is a `try_send`, lost when the command channel
  is full. The pipeline then reads the end of the capture as a death and is detached when the budget is spent. The
  model keeps this (`quit_lost`) and `NoFalseAlarm` names it as its exception.
- `note_detached` (`throughput.rs` 276-281) clears the evidence of a connection that is gone; a FIN that carries data is
  recorded right after it, so one packet of evidence survives. `WedgeIsEscaped` holds regardless.
- The overlay remembers a `SkillFocus` as sent although `try_send` may have refused it (`ui/mod.rs` 2255-2262).
- The banner of a capture that never started is documented as one "no later frame can undo" (`ui/mod.rs`, `with_status`), but
  `raise_transient_status` overwrites whatever is up: a failed export replaces it, and when that expires the general
  dead-capture banner takes its place. `DeathIsShown` asks that some permanent banner comes back, and it does.

- A fight that the idle timeout ended with a phased boss armed is recorded at once. If one hit then both resumes it and
  ends it again (it kills the next phase), `record_fight_end` never sees it running, and only that clears
  `fight_end_recorded` (`pipeline.rs` 933-943): the final end, with whoever joined by it, gets no row, where the comment
  (909-918) promises "a second, complete row when the fight really ends".

Corners of recording, which the properties name as exceptions:

- A fight from which everybody had left when it ended (a roster change removes the only row, then the boss dies) has its
  end held back without a record (`preserve_reset_fight` drops an empty one). A late hit in the grace period brings a row
  back, but only the end of the grace period files it: a reset or an exit before that files nothing. `NoFightIsLost` says what is
  owed (`Owed`) so that this is its one exception. If the grace is over without such a hit, the fight counts as recorded with no row.
- A packet that waited is folded in after the row was sent: `record_fight_end` closes the grace on the pipeline's clock, and the meter
  admits the hit by the packet's own time. `rows_late` shows that `RowIsComplete` fails so. `RowStaysComplete` says when a complete
  row may go stale, and its first exception is this one, bounded on both sides: the packet is late, and stamped within the grace.
- A preloaded member who dies after the fight was recorded gets a row on the board that the history does not have: a death is
  counted whenever it comes. It is the second exception of `RowStaysComplete`.
- An end that is not the armed boss's death is recorded at once, and the boss's next phase may take it back. If that happens and the fight ends anew
  within one event (above), the row is of the end before. It is the last exception of `RowStaysComplete`: the row and the board
  have different end times.

**Bounds.** `Horizon` bounds time, `MaxFights` the fights of a session; `StreamLen`, `SegLen` and
`ISNs` the traffic. Windows of 1 tick (2 for the wipe hold in `wipes`) and a horizon of 2
let each window open, end, and be overrun, in every order with the others; a grace of 0 is a
window of one tick, since it is inclusive. `dungeon` and `recording` have a horizon of 1: it
lets a fight idle out, its grace end and a parked server change land, but a phase-resume window does not
run out there (it does in `phases`). `rows` has a horizon of 1 and a lag of 1, so that a hit of the first tick can be decoded in
the second, when the grace is over, before the poll and after it; its idle timeout of 2 keeps it longer than the lag, as in the code. There
a packet that waited and a bystander are both met as exceptions of `RowStaysComplete`; its last one needs a phased boss and an idle end, and is left
to the proof, which holds for every horizon. `dungeon` is about the reports of a run and has no dungeon scene: what a handler does differently
in a dungeon scene is exercised in `wipes`, `recording` and `rows`. Two bosses are the fewest that can be phases of one
fight, two players the fewest of whom one may be down, or late. In the reassembler,
a space of 32 is larger than twice the stream, as the real one is, and the threshold can trip with
two pushes, then with four, then with a capped backoff of four. In `capture`, two connections and two processes are
the fewest between which the capture can swap; a queue of one is full as often as not. In `watchdog`, evidence good for 2 ticks and a stall after 3
keep the order of the code's 60 s and 180 s, with an instant in between. In `session`, a command channel of two fills with one command and a Quit. Not reached by these bounds:
dungeons with bosses chosen by the party (`BossSelect` is empty), a dungeon state `running` or `null`
reported in the middle of a run, packets that name no monster or no HP level, more than two fights, and HP
rollbacks inside the pipeline runs, which only see one HP level.

**Fairness.**

- `TcpReassembler!FairSpec`: weak fairness of `Arrive` and `Take`. A gap
  ends only if segments keep coming, which is what a live game connection does, and the capture
  loop takes the stream after each push in the same thread.
- `Capture!WatchSpec`, `FollowSpec`: threads run (weak fairness of the loop, of the watchdog's steps and of the
  pipeline taking events while it lives; `WinDivertShutdown` wakes a blocked receive), time passes (strong fairness of `Tick`, which a busy
  loop enables again and again), and the network: the tracked connection goes on carrying data (`WatchSpec`), or the
  game's connection carries the signature and a due lookup of the process succeeds again and again (`FollowSpec`).
  Nothing is assumed of the user, of errors or of the moment the reassembler gets stuck.
- `Session!FairSpec`: `select!` picks at random among the arms that are ready, so each arm that is ready again and again
  is taken (strong fairness); writers and `main` run; a frame is painted again and again, and not every frame falls
  between the eviction and the second send of `publish`. Nothing is assumed of the user or of the faults.

The meter claims no liveness: all its waits are windows that a later event or poll looks at, and
that these give way is stated as safety (`NoHoldIsForever`, `PullIsCounted`).
Deadlock is not looked for where the program ends: when the user quits (`Pipeline`, `Session`) or the capture
has stopped (`watchdog`).

## 4. Theorems

- `TcpStream_proofs!StallNeverExceedsThreshold` proves `StallBounded`. Inductive invariant: the count is
  below the threshold and the backoff is at least 1. The count only grows in
  `Wait`, whose guard is that the guard does not trip; the backoff only falls back to 1
  when the count is reset.
- `TcpStream_proofs!CountingIsTimed`: a positive count has a running clock, the
  converse of the comment that `stall_clock` refutes.
- `TcpStream_proofs!ReassemblerIsAnOrderedStream` proves the refinement `ImplementsOrderedStream`, and `NeverASilentBreak`, `ChunksAreWhole`,
  `StallsAreGenuine`, `CacheIsAccounted` and `TypeCorrect` the invariants of `reassembly`, for every sequence space, cap, threshold and set of
  connections. One invariant carries them all (`StreamInv`). `NoSilentBreak` is far from inductive: it says nothing of where the
  stream goes on. `StreamInv` adds that `next_seq` is a place of some connection's stream, that every cached segment is a
  stretch of one, that the last byte in hand, or else the last byte taken, is the one before `next_seq` (unless a loss is pending),
  that the cost is what the cache holds, that `next_seq` is never itself in the cache, and that a count in progress means nothing in the cache lies behind.
  `TcpLoops_proofs` shows what the loops do: a segment that reaches past `next_seq` is on its connection and is cut at the right
  byte (`Straddles`, `CutFits`: half the space is longer than a stream, so a signed difference is never misread); drain, reconcile and
  evict only ever move the stream on along one connection (`Extends`), each ending because every round shrinks the cache.
  The loops are `Iterate` of a body for a number of rounds; `Orbits` shows by induction, had from the well-foundedness of the naturals, that such an
  iteration is defined and reaches a state its body leaves alone. The sum over the cache is handled the same way, by induction on
  the subsets of its keys (`GapBytesOfTable`, `TablesAgree`).
- `Encounter_proofs!ClocksStayInOrder` proves `ClocksInOrder` for every roster, bestiary, scene
  table, window and lag. The invariant is not inductive alone: a hit writes its time into the
  lifecycle and `last_event` in different branches, so the proof carries `ClockInv`, which adds that the meter
  has its shape (`Ok`), and gives each transition, each helper and each handler a lemma of the form
  "from an `Ok` meter and a time not before its last hit, an `Ok` meter". The steps of `Next` follow from those.
- The action properties of the meter are proved from what a handler may do to the fight it finds: `From` (the same fight, its end
  final), `Resumed` (the armed boss's next phase), or `Erased` (reset and handed back), together `Went`. `StepInv` adds to `ClockInv`
  that a fight is armed only after an idle end, or after a kill in a run that is not over (`RightlyArmed`). From a lemma per
  handler follow `EndsAreFinal` (`EndIsFinal`), `FightsAreErasedSafely` (`FightsEraseSafely`), `RunsOverAreNotResumed`
  (`TerminalRunIsNotResumed`), `PullsAreCounted` (`PullIsCounted`) and `HoldsRunOut` (`NoHoldIsForever`).
- `Encounter_proofs!MeterIsASequenceOfFights` proves the refinement `ImplementsFights`: the first state maps to an empty board, and every
  step to one of the contract's or to a stutter. It is where the two halves meet: `Went` says which fight a handler leads to, and
  carries the times of it, for a fight begins and goes on at the packet's time (`Begins`, `Resumed`) and ends by it (`EndedBy`), but for the
  end of a server change, which is stamped before its packets are decoded (`Decoded`).
- `EncounterBoard_proofs!EndedRowsAreFrozen` proves `FrozenAfterGrace`, that nobody new appears in an ended fight after the grace. The lemmas
  say which rows a handler may add (`Crew`: those in `F` stay, only those in `U` can be up), and `RowsInv` is the invariant.
  `BossIsAlwaysCurrent` proves `BossIsCurrent` and `MeterIsTyped` `TypeOK`, from `BoardInv`: types, and that the tracked boss is the
  one the ranking picks in every state, although the code ranks again only on some events. That rests on what the ranking reads:
  an event that skips it must change nothing it reads.
- `Pipeline_proofs!PendingIsCurrent` proves `PendingIsOfTheBoard` and `FightsAreFiledOnce` `OneRowPerFight`, over the whole meter and not over
  a contract of it: `Applied` is what the lemmas of `Encounter` say of any event. `PipelineInv` ties record, flags and board (`Tied`), says that no fight
  after the one on the board has rows (`Filed`), and that as long as the one on the board may still get a row (`AwaitsRow`) those it has are of
  ends it can go on from (`Unsettled`). `OneRowPerFight` is not inductive: it does not say that a fight that may still be filed has not been.
- `Pipeline_proofs!NothingOwedIsLost` proves `NoFightIsLost`. A fight with rows that is not recorded is a debt (`Debt`). A method that
  keeps the fight on the board keeps the debt or files the row (`Quiet`); one that takes it off pays first (`Pays`), which is where `apply_mapped` files
  the fight that the meter hands back (`Erased` says its rows are those of the board). `LedgerInv` adds `Seen` to `PipelineInv`: no end goes unnoticed, so that when a
  reset or the exit finds an ended fight that is not recorded, a record is held back for it.
- `Pipeline_proofs!FiledRowsAreWhole` proves `RowsAreWhole`: no step files a row that misses a fighter of the board. Each method is shown to be
  `Wholly`: what it adds to the history has all the board showed before it or, if the fight is still there, all it shows after it. That
  a row is never the record as it was first held back rests on the refreshes before a scene change, a reset and the exit.
- `Pipeline_proofs!RowsStayComplete` proves `RowStaysComplete`, with dungeons, phases and packets that waited. A row is complete when it is
  filed (`RecordFightEndComplete`), so the question is what an event may do to a fight that is recorded and stays so. On the board's side
  (`EncounterBoard_proofs`, a lemma per handler) a handler that leaves an ended fight ended `Trails` it: the end is another one, or the hit came
  within the grace of it, or whoever joins was preloaded. On the pipeline's side the invariant adds `Aged`: a recorded fight has outlived its grace on the
  pipeline's clock, counted from the end its last row has. A hit within the grace of that very end is therefore a late packet. `StepComplete` puts the two
  together; every step that is not an event leaves a complete row complete. `RowIsComplete` itself is no theorem: `rows_late` refutes it.
- `Pipeline_proofs!ClocksStayInOrderInThePipeline` proves `ClocksInOrder` of the pipeline, with no hypothesis. The meter's own theorem is about
  steps that call it at the packets' time, or at `now` for the poll; the pipeline also lands a server change at the moment it was parked, which is
  after the last hit because whatever is decoded lands it first. `Timely` is that, and every method keeps it whatever it does with the
  records (`Clerical`).
- `Capture_proofs!ConnectionsAreNotMixed` proves `NoMixedConnections`, for any number of connections, processes and
  subnets and any capacity. What is in the queue says nothing of what is still to be sent, so the invariant
  (`StreamInv`) ties the end of the queue to the loop: between the announcement of a connection and the next, whatever is sent is of
  the packet in hand, which is of `known`; and the last event of a connection in the queue is of `known` too, unless the loop
  is about to announce, is between connections, or is done.
- `Capture_proofs!NoReadoption` proves `SubnetNeverReadopts`: `tried` stays within the candidates as long as they are below their cap, and
  at the cap the subnet path adopts nothing. `Capture_proofs!TypeCorrect` proves the type invariant the two rest on.
- `Session_proofs!AlarmsAreTrue` and `NothingIsLost` prove `NoFalseAlarm` and `CleanShutdown` from one invariant (`SessionInv`): a Quit that
  was not refused is in the command channel or was taken before `main` stops the capture; after it was taken the
  pipeline only moves towards its exit; from the last save on, the names file or the writer's slot holds the last version; and
  what was joined stays joined. `Session_proofs!TypeCorrect` is the type invariant.

The assumptions are those of the modules: windows and limits are naturals, the maximum HP of an
entity is a natural, the tables are subsets of their domains, an event that is no connection is none. The reassembler
has two about its traffic. `SpaceAssumption`: a stream is shorter than half the sequence space (2^31 bytes), and the cache can hold the largest
segment (2 MiB against 64 KiB). `StreamsAssumption`: no sequence number is a place of two connections' streams.
A segment carries nothing but its number, so where two streams on one 4-tuple overlap bytes of both are
joined unnoticed, by this reassembler or any other; what is proved holds of ISNs apart.

The theorems about the pipeline's records have two hypotheses on the constants (the one about its clocks has none). `LagIsShort`: a packet is decoded before the idle timeout (9 s) has passed since
its capture. If the hit with which the armed boss's next phase resumes a fight is itself older than that, the fight it resumes is idle at once, and
`record_fight_end` leaves the record of the end that was taken back where it is, of a fight that runs. The hypothesis holds in
`recording` and `rows`, and the theorems about the meter do without it. `GraceIsShort`, for `NothingOwedIsLost` alone: the grace (2 s) is shorter than the idle timeout. Both are
constants of the code, and `record_fight_end`'s comment relies on it (`pipeline.rs` 906-908): an idle end is out of its grace period when it is first
seen, so that the last `publish` of the exit files it at once.

Only model-checked: liveness under fairness (`EveryGapEnds`, `FollowsReconnect`, `GameIsFollowed`,
`WedgeIsEscaped`, `StopIsHonoured`, `DeathIsShown`, `LatestIsShown`, `ShutdownEnds`), which is out of the prover's reach. Every invariant
and action property of a passing run is a theorem.

## 5. Not modelled

- Frame decoder: `split_frames` searches for a frame boundary again after a loss. `Capture` only says whether bytes were delivered.
- Message parsing, sanitizing, statistics, tables, settings: functions of one message or record, without control.
- History storage (SQL, retention, migrations), the history view, everything drawn, the window system, scripts.
- The names file's temporary copy and rename, the updater's swap of the executable, the dump ring: sequences of file
  operations. What is known of the dump ring from reading it: after a failed reopen in `rotate` (`dump.rs` 697-722) the ring does not recover, and
  a shift that fails half way leaves a hole its comment (618-624) excludes.
- Driver setup and process lookup: calls into the operating system, here as choices (`found`, `owner`, `RecvError`).

## 6. What is left

Done of the plan: the reassembler and its contract, the capture loop, the meter and its contract, the pipeline, the session, and a proof of
every safety property. Left, in the order of their worth:

1. `split_frames` over `OrderedStream`: resynchronization after a loss.
2. The updater's swap, the names file and the dump ring, each with crashes between steps.
3. Boss-select scenes in the instances of `Encounter`; the property that tells a rollback of a former occupant of a slot from a real one.
4. `Pipeline` checked over `Fights` instead of the whole meter, for instances with more fights and more ticks; the proofs do not need it.
5. `RowStaysComplete` run with a phased boss and an idle end, which meets its last exception, once the meter is replaced by `Fights` (4).
6. The wake-up of the overlay, with an overlay that sleeps until it is woken or the heartbeat is due.
