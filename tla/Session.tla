----------------------------- MODULE Session -----------------------------
(***************************************************************************)
(* One session of the program as its threads see it: the pipeline thread's *)
(* select loop (pipeline.rs), the overlay's frames (ui/mod.rs), the names  *)
(* and history writers, and the shutdown that main drives (main.rs).       *)
(*                                                                         *)
(* What the meter holds is a version number, raised by whatever changes    *)
(* it, up to MaxVersion; Encounter and Pipeline say what is behind it.     *)
(* The overlay paints a frame at least once per IDLE_HEARTBEAT, so wake,   *)
(* which only hastens the next frame, is left out.                         *)
(***************************************************************************)
EXTENDS Integers, Sequences, SequencesExt

CONSTANTS
  NONE,           \* no snapshot, no outcome
  MaxVersion,     \* versions of the board told apart
  Capacity,       \* COMMAND_CAPACITY
  Faults          \* what may go wrong in the instance

ASSUME SessionAssumption ==
  /\ MaxVersion \in Nat
  /\ Capacity \in Nat \ {0}
  /\ Faults \subseteq {"capture_dies", "pipeline_panics", "pipeline_hangs", "action_fails", "no_driver"}

Snapshot == [version : 0 .. MaxVersion, alive : BOOLEAN]

ASSUME NoneAssumption == NONE \notin Snapshot \cup (0 .. MaxVersion)

Commands == {"reset", "quit"}

VARIABLES
  capture,         \* the capture thread
  events,          \* the pipeline's end of the event channel
  commands,        \* the command channel
  pl,              \* where the pipeline thread is
  final,           \* the publish under way is the last
  version,         \* the board's state
  capture_alive,   \* what snapshots say of the capture
  snap,            \* the snapshot publish has built
  slot,            \* the snapshot channel, of capacity one
  shown,           \* the overlay's snapshot
  status,          \* the overlay's banner
  quit_requested,  \* the overlay asked to quit itself
  names_slot,      \* the names writer's channel, of capacity one
  names_file,      \* the names file
  rows,            \* fights queued for the history thread
  main,            \* where main is
  quit_lost,       \* main's Quit found the command channel full, or closed
  joined           \* no worker had to be detached

pipe == <<pl, final, version, capture_alive, snap>>
names == <<names_slot, names_file>>
overlay == <<shown, status, quit_requested>>
process == <<main, quit_lost, joined>>
vars == <<capture, events, commands, pipe, slot, overlay, names, rows, process>>

Raised(n) == IF n < MaxVersion THEN n + 1 ELSE n
Gone == pl \in {"exited", "panicked"}

---------------------------------------------------------------------------
(* The pipeline thread. *)

(* select takes an event: Pipeline::step. *)
Step ==
  /\ pl = "select" /\ events = "open"
  /\ version' = Raised(version)
  /\ UNCHANGED <<capture, events, commands, pl, final, capture_alive, snap, slot, overlay, names, rows, process>>

(* Commands applied together: a reset raises the version and saves the     *)
(* names.                                                                  *)
Apply(cmds) ==
  IF "reset" \in ToSet(cmds)
  THEN version' = Raised(version) /\ names_slot' = Raised(version)
  ELSE UNCHANGED <<version, names_slot>>

\* finalize_for_shutdown and the publish after it record the fight in hand.
BeginFinal ==
  /\ pl' = "send" /\ final' = TRUE
  /\ snap' = [version |-> version', alive |-> capture_alive]
  /\ rows' = rows + 1

BeforeQuit == SelectSeq(commands, LAMBDA c : c # "quit")

\* Mutant: any disconnect is a dead capture.
DisconnectedIsDeath ==
  /\ pl = "select" /\ events = "open" /\ capture # "running"
  /\ capture_alive' = FALSE
  /\ events' = "never"
  /\ UNCHANGED <<commands, version, names_slot, pl, final, snap, rows>>
  /\ UNCHANGED <<capture, slot, overlay, names_file, process>>

(* The event channel is found closed: the commands are drained for a Quit, *)
(* which tells a shutdown from a dead capture.  A Quit is the last command  *)
(* anyone sends, so whatever else is queued is ahead of it.                 *)
Disconnected ==
  /\ pl = "select" /\ events = "open" /\ capture # "running"
  /\ commands' = <<>>
  /\ Apply(BeforeQuit)
  /\ IF "quit" \in ToSet(commands)
     THEN BeginFinal /\ UNCHANGED <<events, capture_alive>>
     ELSE /\ capture_alive' = FALSE
          /\ events' = "never"
          /\ UNCHANGED <<pl, final, snap, rows>>
  /\ UNCHANGED <<capture, slot, overlay, names_file, process>>

TakeCommand ==
  /\ pl = "select" /\ commands # <<>>
  /\ commands' = Tail(commands)
  /\ Apply(<<Head(commands)>>)
  /\ IF Head(commands) = "quit" THEN BeginFinal ELSE UNCHANGED <<pl, final, snap, rows>>
  /\ UNCHANGED <<capture, events, capture_alive, slot, overlay, names_file, process>>

(* The ticker fires: the snapshot is built, then sent. *)
Tick ==
  /\ pl = "select"
  /\ pl' = "send"
  /\ snap' = [version |-> version, alive |-> capture_alive]
  /\ UNCHANGED <<capture, events, commands, final, version, capture_alive, slot, overlay, names, rows, process>>

Published == pl' = (IF final THEN "save" ELSE "select") /\ snap' = NONE

(* try_send: nothing takes the snapshot once the overlay is gone. *)
TrySend ==
  /\ pl = "send"
  /\ IF main # "ui" THEN Published /\ UNCHANGED slot
     ELSE IF slot = NONE THEN Published /\ slot' = snap
     ELSE pl' = "evict" /\ UNCHANGED <<slot, snap>>
  /\ UNCHANGED <<capture, events, commands, final, version, capture_alive, overlay, names, rows, process>>

(* stale.try_recv; the overlay may have been faster. *)
Evict ==
  /\ pl = "evict"
  /\ slot' = NONE
  /\ pl' = "resend"
  /\ UNCHANGED <<capture, events, commands, final, version, capture_alive, snap, overlay, names, rows, process>>

Resend ==
  /\ pl = "resend"
  /\ Published
  /\ slot' = IF main = "ui" /\ slot = NONE THEN snap ELSE slot
  /\ UNCHANGED <<capture, events, commands, final, version, capture_alive, overlay, names, rows, process>>

\* Mutant: a pending snapshot is kept and the newer one is lost.
SaveNamesIfFree ==
  /\ pl = "save"
  /\ names_slot' = IF names_slot = NONE THEN version ELSE names_slot
  /\ pl' = "join_writer"
  /\ UNCHANGED <<capture, events, commands, final, version, capture_alive, snap, slot, overlay, names_file, rows, process>>

(* The last save_names_cache; CacheWriter replaces what still waits. *)
SaveNames ==
  /\ pl = "save"
  /\ names_slot' = version
  /\ pl' = "join_writer"
  /\ UNCHANGED <<capture, events, commands, final, version, capture_alive, snap, slot, overlay, names_file, rows, process>>

(* CacheWriter::shutdown: the writer drains its channel, then ends. *)
JoinWriter ==
  /\ pl = "join_writer"
  /\ names_slot = NONE
  /\ pl' = "exited"
  /\ UNCHANGED <<capture, events, commands, final, version, capture_alive, snap, slot, overlay, names, rows, process>>

(* The writer replaces the file; save_names_cache may fill the channel     *)
(* again at any time.                                                      *)
NamesWritten ==
  /\ names_slot # NONE
  /\ names_file' = names_slot
  /\ names_slot' = NONE
  /\ UNCHANGED <<capture, events, commands, pipe, slot, overlay, rows, process>>

(* The history thread stores a fight. *)
RowStored ==
  /\ rows > 0
  /\ rows' = rows - 1
  /\ UNCHANGED <<capture, events, commands, pipe, slot, overlay, names, process>>

---------------------------------------------------------------------------
(* The overlay. *)

Permanent == {"init", "capture", "pipeline"}

\* Only a permanent banner is in the way of a permanent one.
Raise(banner, st) == IF st \in Permanent THEN st ELSE banner
Clear(st) == IF st = "transient" THEN "ok" ELSE st

\* Mutant: the overlay does not remember that it asked to quit.
PipelineBannerAlways(st) == IF Gone THEN Raise("pipeline", st) ELSE st

(* The snapshot channel is disconnected once the pipeline thread is gone.  *)
PipelineBanner(st) == IF Gone /\ ~ quit_requested THEN Raise("pipeline", st) ELSE st

\* Mutant: a transient banner is in the way of a permanent one.
CaptureBannerTimid(st) == IF slot # NONE /\ ~ slot.alive /\ st = "ok" /\ shown.alive THEN "capture" ELSE st

CaptureBanner(st) == IF slot # NONE /\ ~ slot.alive THEN Raise("capture", st) ELSE st

\* Mutant: the numbers are left alone once a banner is up.
DrainedUntilBanner == IF slot # NONE /\ status = "ok" THEN slot ELSE shown

Drained == IF slot # NONE THEN slot ELSE shown

(* One frame: the slot is drained, then the outcome of a background action *)
(* of the user's (a screenshot, an export) raises or clears the transient  *)
(* banner, which also expires by itself.                                   *)
Frame(outcome, expires) ==
  /\ main = "ui"
  /\ LET drained == PipelineBanner(CaptureBanner(status))
         acted == CASE outcome = "fails" -> "transient"
                    [] outcome = "lands" -> Clear(drained)
                    [] outcome = NONE -> drained
     IN status' = IF expires THEN Clear(acted) ELSE acted
  /\ shown' = Drained
  /\ slot' = NONE
  /\ UNCHANGED <<capture, events, commands, pipe, quit_requested, names, rows, process>>

Outcomes == IF "action_fails" \in Faults THEN {NONE, "fails", "lands"} ELSE {NONE}
AnyFrame == \E outcome \in Outcomes, expires \in BOOLEAN :
              /\ outcome = "fails" => ~ expires
              /\ Frame(outcome, expires)

\* Mutant: the channel grows.
EnqueueUnbounded(cmd) == commands' = IF ~ Gone THEN Append(commands, cmd) ELSE commands

(* A command that finds the channel full is dropped.                       *)
Enqueue(cmd) == commands' = IF Len(commands) < Capacity /\ ~ Gone THEN Append(commands, cmd) ELSE commands

ClickReset ==
  /\ main = "ui" /\ ~ quit_requested
  /\ Enqueue("reset")
  /\ UNCHANGED <<capture, events, pipe, slot, overlay, names, rows, process>>

(* The quit button, or an installed update. *)
ClickQuit ==
  /\ main = "ui" /\ ~ quit_requested
  /\ Enqueue("quit")
  /\ quit_requested' = TRUE
  /\ UNCHANGED <<capture, events, pipe, slot, shown, status, names, rows, process>>

---------------------------------------------------------------------------
(* main, once run_native has returned. *)

(* The window is closed, by the button or not; Quit is sent before the     *)
(* capture is stopped.  The overlay is gone with what it showed.           *)
CloseWindow ==
  /\ main = "ui"
  /\ main' = "stop_capture"
  /\ Enqueue("quit")
  /\ quit_lost' = (commands' = commands)
  /\ slot' = NONE /\ shown' = NONE /\ status' = "ok" /\ quit_requested' = FALSE
  /\ UNCHANGED <<capture, events, pipe, names, rows, joined>>

(* stop_within: the thread ends, or the time is up and it is left alone.   *)
StopCapture ==
  /\ main = "stop_capture"
  /\ capture' \in IF capture = "running" THEN {"stopped", "running"} ELSE {capture}
  /\ main' = "join_pipeline"
  /\ UNCHANGED <<events, commands, pipe, slot, overlay, names, rows, quit_lost, joined>>

\* Mutant: main waits for the pipeline as long as it takes.
JoinPipelineForever ==
  /\ main = "join_pipeline" /\ Gone
  /\ main' = "join_history"
  /\ joined' = (joined /\ pl = "exited")
  /\ UNCHANGED <<capture, events, commands, pipe, slot, overlay, names, rows, quit_lost>>

(* join_with_timeout: a thread that has not ended by then is detached.     *)
JoinPipeline ==
  /\ main = "join_pipeline"
  /\ main' = "join_history"
  /\ joined' = (joined /\ pl = "exited")
  /\ UNCHANGED <<capture, events, commands, pipe, slot, overlay, names, rows, quit_lost>>

JoinHistory ==
  /\ main = "join_history"
  /\ main' = "exited"
  /\ joined' = (joined /\ rows = 0 /\ Gone)
  /\ UNCHANGED <<capture, events, commands, pipe, slot, overlay, names, rows, quit_lost>>

---------------------------------------------------------------------------
CaptureDies ==
  /\ "capture_dies" \in Faults /\ capture = "running" /\ main # "exited"
  /\ capture' = "dead"
  /\ UNCHANGED <<events, commands, pipe, slot, overlay, names, rows, process>>

PipelinePanics ==
  /\ "pipeline_panics" \in Faults /\ ~ Gone /\ pl # "hung"
  /\ pl' = "panicked" /\ snap' = NONE
  /\ UNCHANGED <<capture, events, commands, final, version, capture_alive, slot, overlay, names, rows, process>>

PipelineHangs ==
  /\ "pipeline_hangs" \in Faults /\ ~ Gone /\ pl # "hung"
  /\ pl' = "hung" /\ snap' = NONE
  /\ UNCHANGED <<capture, events, commands, final, version, capture_alive, slot, overlay, names, rows, process>>

Init ==
  /\ \/ capture = "running" /\ status = "ok"
     \/ "no_driver" \in Faults /\ capture = "failed" /\ status = "init"
  /\ events = "open"
  /\ commands = <<>>
  /\ pl = "select" /\ final = FALSE
  /\ version = 0 /\ capture_alive = TRUE
  /\ snap = NONE /\ slot = NONE
  /\ shown = [version |-> 0, alive |-> TRUE]
  /\ quit_requested = FALSE
  /\ names_slot = NONE /\ names_file = 0
  /\ rows = 0
  /\ main = "ui" /\ quit_lost = FALSE /\ joined = TRUE

PipelineNext ==
  Step \/ Disconnected \/ TakeCommand \/ Tick \/ TrySend \/ Evict \/ Resend \/ SaveNames \/ JoinWriter

WriterNext == NamesWritten \/ RowStored
MainNext == StopCapture \/ JoinPipeline \/ JoinHistory

Next ==
  /\ main # "exited"
  /\ \/ PipelineNext \/ WriterNext \/ MainNext
     \/ AnyFrame \/ ClickReset \/ ClickQuit \/ CloseWindow
     \/ CaptureDies \/ PipelinePanics \/ PipelineHangs

Spec == Init /\ [][Next]_vars

(* select! takes any arm that is ready, at random: none is passed over for *)
(* ever.  The ticker fires again and again, and a frame is painted at the  *)
(* latest after IDLE_HEARTBEAT; not every frame for ever falls between     *)
(* publish's eviction and its second send, or on the outcome of one of the *)
(* user's actions.  The user and the faults owe nothing.                   *)
Threads ==
  /\ WF_vars(PipelineNext)
  /\ SF_vars(Disconnected) /\ SF_vars(TakeCommand) /\ SF_vars(Tick)
  /\ WF_vars(NamesWritten) /\ WF_vars(RowStored)
  /\ WF_vars(MainNext) /\ SF_vars(Frame(NONE, FALSE) /\ slot # NONE) /\ WF_vars(AnyFrame)

FairSpec == Spec /\ Threads

---------------------------------------------------------------------------
TypeOK ==
  /\ capture \in {"running", "stopped", "dead", "failed"}
  /\ events \in {"open", "never"}
  /\ commands \in Seq(Commands) /\ Len(commands) <= Capacity
  /\ pl \in {"select", "send", "evict", "resend", "save", "join_writer", "exited", "panicked", "hung"}
  /\ final \in BOOLEAN /\ version \in 0 .. MaxVersion /\ capture_alive \in BOOLEAN
  /\ snap \in Snapshot \cup {NONE} /\ slot \in Snapshot \cup {NONE}
  /\ pl \in {"send", "evict", "resend"} => snap # NONE
  /\ shown \in Snapshot \cup {NONE} /\ (shown = NONE <=> main # "ui")
  /\ status \in {"ok", "transient"} \cup Permanent
  /\ quit_requested \in BOOLEAN /\ quit_lost \in BOOLEAN /\ joined \in BOOLEAN
  /\ {names_slot, names_file} \subseteq (0 .. MaxVersion) \cup {NONE}
  /\ names_file # NONE
  /\ rows \in 0 .. 1
  /\ main \in {"ui", "stop_capture", "join_pipeline", "join_history", "exited"}

(* No alarm without a fire: the frozen-meter banner only after the         *)
(* pipeline thread panicked, and the dead-capture mark only when the       *)
(* capture died or never started.  A shutdown also disconnects both        *)
(* channels; it is told apart by quit_requested on one and by the Quit     *)
(* that main queues before it stops the capture on the other, whichever    *)
(* arm select! takes first; unless the channel was full and refused it.    *)
NoFalseAlarm ==
  /\ status = "pipeline" => pl = "panicked"
  /\ capture_alive \/ capture \in {"dead", "failed"} \/ quit_lost

(* When every worker was joined, nothing the session learned was lost: the *)
(* names file is the board's last state, whatever the writer still had     *)
(* queued, and the fight in hand is stored.                                *)
CleanShutdown == main = "exited" /\ joined => names_file = version /\ rows = 0 /\ final

(* A dead capture or a panicked pipeline is on the screen in the end, and  *)
(* no screenshot or export that fails or succeeds takes the news away      *)
(* without its being raised again.                                         *)
Faulty == (capture \in {"dead", "failed"} /\ pl # "hung") \/ pl = "panicked"
Told == status \in Permanent \/ main # "ui" \/ pl = "hung" \/ quit_requested
DeathIsShown == Faulty ~> Told

(* What the board holds reaches the screen, although publisher and overlay *)
(* race for a channel of one slot and the publisher evicts what it finds   *)
(* there.                                                                  *)
LatestIsShown ==
  []<>(main # "ui" \/ shown.version = version \/ Gone \/ pl = "hung" \/ final)

(* Closing the window ends the process, even when a thread hangs.          *)
ShutdownEnds == main # "ui" ~> main = "exited"

=============================================================================
