-------------------------- MODULE Session_proofs --------------------------
(***************************************************************************)
(* Session's type, NoFalseAlarm and CleanShutdown, for every number of     *)
(* versions, capacity of the command channel and set of faults.            *)
(***************************************************************************)
EXTENDS Session, TLAPS

(* A Quit is in the channel, or being obeyed, only if somebody asked: the  *)
(* overlay, which remembers it, or main, once the overlay is gone.         *)
QuitWasAsked == main = "ui" /\ ("quit" \in ToSet(commands) \/ final) => quit_requested

(* The pipeline leaves its loop by the last publish alone.                 *)
LeavesByQuit ==
  /\ pl \in {"save", "join_writer", "exited"} => final
  /\ pl = "select" => ~ final
  /\ rows > 0 => final

(* From main's Quit on, unless it was lost, there is one to be found.      *)
QuitIsOnItsWay ==
  /\ main # "ui" /\ ~ quit_lost =>
       "quit" \in ToSet(commands) \/ final \/ pl \in {"panicked", "hung"}
  /\ main = "ui" => ~ quit_lost

StoppedByMain == capture = "stopped" => main \notin {"ui", "stop_capture"}

(* The last save of the names reaches the writer, then the file.           *)
NamesFollow ==
  /\ pl = "join_writer" => names_slot = version \/ (names_slot = NONE /\ names_file = version)
  /\ pl = "exited" => names_slot = NONE /\ names_file = version

JoinedHasEnded ==
  /\ main \in {"join_history", "exited"} /\ joined => pl = "exited"
  /\ main = "exited" /\ joined => rows = 0

SessionInv ==
  /\ TypeOK /\ NoFalseAlarm
  /\ QuitWasAsked /\ LeavesByQuit /\ QuitIsOnItsWay /\ StoppedByMain
  /\ NamesFollow /\ JoinedHasEnded

---------------------------------------------------------------------------
(* What the channel's operations do to the commands in it. *)

LEMMA AppendAdds ==
  ASSUME NEW s \in Seq(Commands), NEW c \in Commands
  PROVE  /\ Append(s, c) \in Seq(Commands)
         /\ Len(Append(s, c)) = Len(s) + 1
         /\ Append(s, c) # s
         /\ ToSet(Append(s, c)) = ToSet(s) \cup {c}
<1>1. Append(s, c) \in Seq(Commands) /\ Len(Append(s, c)) = Len(s) + 1
  OBVIOUS
<1>2. Append(s, c) # s
  BY <1>1
<1>3. ToSet(Append(s, c)) = ToSet(s) \cup {c}
  <2>1. \A i \in 1 .. Len(s) : Append(s, c)[i] = s[i]
    OBVIOUS
  <2>2. Append(s, c)[Len(s) + 1] = c
    OBVIOUS
  <2>3. DOMAIN Append(s, c) = 1 .. Len(s) \cup {Len(s) + 1}
    BY <1>1
  <2> QED
    BY <2>1, <2>2, <2>3 DEF ToSet
<1> QED
  BY <1>1, <1>2, <1>3

LEMMA TailTakes ==
  ASSUME NEW s \in Seq(Commands), s # <<>>
  PROVE  /\ Tail(s) \in Seq(Commands)
         /\ Len(Tail(s)) = Len(s) - 1
         /\ Head(s) \in Commands
         /\ ToSet(s) = ToSet(Tail(s)) \cup {Head(s)}
<1>1. Tail(s) \in Seq(Commands) /\ Len(Tail(s)) = Len(s) - 1 /\ Head(s) \in Commands
  OBVIOUS
<1>2. \A i \in 1 .. Len(s) - 1 : Tail(s)[i] = s[i + 1]
  OBVIOUS
<1>3. Head(s) = s[1] /\ Len(s) \in Nat \ {0}
  OBVIOUS
<1>4. ToSet(s) \subseteq ToSet(Tail(s)) \cup {Head(s)}
  <2> SUFFICES ASSUME NEW i \in 1 .. Len(s) PROVE s[i] \in ToSet(Tail(s)) \cup {Head(s)}
    BY DEF ToSet
  <2>1. CASE i = 1
    BY <2>1, <1>3
  <2>2. CASE i # 1
    <3>1. i - 1 \in 1 .. Len(s) - 1 /\ Tail(s)[i - 1] = s[i]
      BY <2>2, <1>2, <1>3
    <3>2. i - 1 \in DOMAIN Tail(s)
      BY <3>1, <1>1
    <3> QED
      BY <3>1, <3>2 DEF ToSet
  <2> QED
    BY <2>1, <2>2
<1>5. ToSet(Tail(s)) \cup {Head(s)} \subseteq ToSet(s)
  BY <1>1, <1>2, <1>3 DEF ToSet
<1> QED
  BY <1>1, <1>4, <1>5

LEMMA EmptyHasNone == ToSet(<<>>) = {}
BY DEF ToSet

LEMMA RaisedIsVersion ==
  ASSUME NEW n \in 0 .. MaxVersion
  PROVE  Raised(n) \in 0 .. MaxVersion
BY SessionAssumption, SMT DEF Raised

(* Enqueue drops the command or queues it behind the others.               *)
LEMMA EnqueueAdds ==
  ASSUME commands \in Seq(Commands), Len(commands) <= Capacity,
         NEW c \in Commands, Enqueue(c)
  PROVE  /\ commands' \in Seq(Commands) /\ Len(commands') <= Capacity
         /\ commands' = commands \/ ToSet(commands') = ToSet(commands) \cup {c}
         /\ commands' # commands => ToSet(commands') = ToSet(commands) \cup {c}
<1>1. CASE Len(commands) < Capacity /\ ~ Gone
  BY <1>1, AppendAdds, SessionAssumption DEF Enqueue
<1>2. CASE ~ (Len(commands) < Capacity /\ ~ Gone)
  BY <1>2 DEF Enqueue
<1> QED
  BY <1>1, <1>2

---------------------------------------------------------------------------
THEOREM InitHolds == Init => SessionInv
<1> SUFFICES ASSUME Init PROVE SessionInv
  OBVIOUS
<1>1. TypeOK
  <2>1. [version |-> 0, alive |-> TRUE] \in Snapshot
    BY SessionAssumption DEF Snapshot
  <2>2. shown \in Snapshot /\ shown # NONE
    BY <2>1, NoneAssumption DEF Init
  <2>3. names_file \in 0 .. MaxVersion /\ names_file # NONE
    BY SessionAssumption, NoneAssumption DEF Init
  <2>4. version \in 0 .. MaxVersion /\ commands \in Seq(Commands) /\ Len(commands) <= Capacity
    BY SessionAssumption DEF Init
  <2>5. status \in {"ok", "transient"} \cup Permanent /\ rows \in 0 .. 1
    BY DEF Init, Permanent
  <2>6. capture \in {"running", "stopped", "dead", "failed"}
    BY DEF Init
  <2>7. {names_slot, names_file} \subseteq (0 .. MaxVersion) \cup {NONE}
    BY <2>3 DEF Init
  <2> QED
    BY <2>2, <2>3, <2>4, <2>5, <2>6, <2>7 DEF Init, TypeOK
<1>2. ToSet(commands) = {}
  BY EmptyHasNone DEF Init
<1> QED
  BY <1>1, <1>2 DEF Init, SessionInv, NoFalseAlarm, QuitWasAsked, LeavesByQuit, QuitIsOnItsWay,
     StoppedByMain, NamesFollow, JoinedHasEnded

---------------------------------------------------------------------------
USE DEF SessionInv, NoFalseAlarm, QuitWasAsked, LeavesByQuit, QuitIsOnItsWay,
        StoppedByMain, NamesFollow, JoinedHasEnded, Gone, pipe, names, overlay, process

(* The rest of the pipeline's loop: what publish and shutdown do. *)
LEMMA StepHolds == SessionInv /\ Step => SessionInv'
BY RaisedIsVersion DEF TypeOK, Step

LEMMA EvictHolds == SessionInv /\ Evict => SessionInv'
BY DEF TypeOK, Evict

LEMMA SaveNamesHolds == SessionInv /\ SaveNames => SessionInv'
BY NoneAssumption DEF TypeOK, SaveNames

LEMMA JoinWriterHolds == SessionInv /\ JoinWriter => SessionInv'
<1> SUFFICES ASSUME SessionInv, JoinWriter PROVE SessionInv'
  OBVIOUS
<1>1. names_slot' = NONE /\ names_file' = version'
  BY NoneAssumption DEF TypeOK, JoinWriter
<1>2. TypeOK'
  BY DEF TypeOK, JoinWriter
<1> QED
  BY <1>1, <1>2 DEF TypeOK, JoinWriter

LEMMA NamesWrittenHolds == SessionInv /\ NamesWritten => SessionInv'
BY NoneAssumption DEF TypeOK, NamesWritten

LEMMA RowStoredHolds == SessionInv /\ RowStored => SessionInv'
BY DEF TypeOK, RowStored

LEMMA StopCaptureHolds == SessionInv /\ StopCapture => SessionInv'
BY DEF TypeOK, StopCapture

LEMMA JoinPipelineHolds == SessionInv /\ JoinPipeline => SessionInv'
<1> SUFFICES ASSUME SessionInv, JoinPipeline PROVE SessionInv'
  OBVIOUS
<1>1. joined' \in BOOLEAN /\ (joined' => joined)
  BY DEF TypeOK, JoinPipeline
<1>2. TypeOK'
  BY <1>1 DEF TypeOK, JoinPipeline
<1>3. JoinedHasEnded'
  BY DEF TypeOK, JoinPipeline
<1> QED
  BY <1>2, <1>3 DEF TypeOK, JoinPipeline

LEMMA JoinHistoryHolds == SessionInv /\ JoinHistory => SessionInv'
<1> SUFFICES ASSUME SessionInv, JoinHistory PROVE SessionInv'
  OBVIOUS
<1>1. joined' \in BOOLEAN /\ (joined' => joined)
  BY DEF TypeOK, JoinHistory
<1>2. TypeOK'
  BY <1>1 DEF TypeOK, JoinHistory
<1>3. JoinedHasEnded'
  BY DEF TypeOK, JoinHistory
<1> QED
  BY <1>2, <1>3 DEF TypeOK, JoinHistory

LEMMA CaptureDiesHolds == SessionInv /\ CaptureDies => SessionInv'
BY DEF TypeOK, CaptureDies

LEMMA PipelinePanicsHolds == SessionInv /\ PipelinePanics => SessionInv'
BY DEF TypeOK, PipelinePanics

LEMMA PipelineHangsHolds == SessionInv /\ PipelineHangs => SessionInv'
BY DEF TypeOK, PipelineHangs

LEMMA TickHolds == SessionInv /\ Tick => SessionInv'
<1> SUFFICES ASSUME SessionInv, Tick PROVE SessionInv'
  OBVIOUS
<1>1. snap' \in Snapshot /\ snap' # NONE
  BY NoneAssumption DEF TypeOK, Tick, Snapshot
<1> QED
  BY <1>1, NoneAssumption DEF TypeOK, Tick

LEMMA TrySendHolds == SessionInv /\ TrySend => SessionInv'
BY NoneAssumption DEF TypeOK, TrySend, Published

LEMMA ResendHolds == SessionInv /\ Resend => SessionInv'
BY NoneAssumption DEF TypeOK, Resend, Published

(* A frame shows what it finds, and raises no alarm that is not due. *)
LEMMA FrameHolds == ASSUME SessionInv, NEW outcome \in Outcomes, NEW expires, Frame(outcome, expires)
                   PROVE SessionInv'
<1>1. outcome \in {NONE, "fails", "lands"}
  BY DEF Outcomes
<1>2. PipelineBanner(CaptureBanner(status)) \in {"ok", "transient"} \cup Permanent
  BY DEF TypeOK, PipelineBanner, CaptureBanner, Raise, Permanent
<1>3. PipelineBanner(CaptureBanner(status)) = "pipeline" => pl = "panicked"
  BY DEF TypeOK, PipelineBanner, CaptureBanner, Raise, Permanent, Frame
<1>4. status' \in {"ok", "transient"} \cup Permanent /\ (status' = "pipeline" => pl' = "panicked")
  BY <1>1, <1>2, <1>3 DEF Frame, Clear, Permanent
<1>5. shown' \in Snapshot /\ shown' # NONE
  BY NoneAssumption DEF TypeOK, Frame, Drained
<1>6. TypeOK'
  BY <1>4, <1>5 DEF TypeOK, Frame
<1>7. NoFalseAlarm' /\ QuitWasAsked' /\ QuitIsOnItsWay'
  BY <1>4 DEF TypeOK, Frame
<1>8. LeavesByQuit' /\ StoppedByMain' /\ NamesFollow' /\ JoinedHasEnded'
  BY DEF TypeOK, Frame
<1> QED
  BY <1>6, <1>7, <1>8

(* What is applied of a list of commands leaves version and names in range. *)
LEMMA ApplyTypes ==
  ASSUME SessionInv, NEW cmds, Apply(cmds)
  PROVE  /\ version' \in 0 .. MaxVersion
         /\ names_slot' \in 0 .. MaxVersion \cup {NONE}
BY RaisedIsVersion DEF TypeOK, Apply

LEMMA BeginFinalTypes ==
  ASSUME SessionInv, pl = "select", version' \in 0 .. MaxVersion, BeginFinal
  PROVE  snap' \in Snapshot /\ snap' # NONE /\ rows' \in 0 .. 1
BY NoneAssumption DEF TypeOK, BeginFinal, Snapshot

(* The channel of a dead capture and that of a stopped one look alike; the *)
(* Quit main queued first tells them apart.                                *)
LEMMA DisconnectedHolds == SessionInv /\ Disconnected => SessionInv'
<1> SUFFICES ASSUME SessionInv, Disconnected PROVE SessionInv'
  OBVIOUS
<1>1. version' \in 0 .. MaxVersion /\ names_slot' \in 0 .. MaxVersion \cup {NONE}
  BY ApplyTypes DEF Disconnected
<1>2. commands' = <<>> /\ ToSet(commands') = {}
  BY EmptyHasNone DEF Disconnected
<1>3. CASE "quit" \in ToSet(commands)
  <2>1. BeginFinal /\ UNCHANGED <<events, capture_alive>>
    BY <1>3 DEF Disconnected
  <2>2. snap' \in Snapshot /\ snap' # NONE /\ rows' \in 0 .. 1
    BY <2>1, <1>1, BeginFinalTypes DEF Disconnected
  <2>3. TypeOK'
    BY <1>1, <1>2, <2>1, <2>2, SessionAssumption DEF TypeOK, Disconnected, BeginFinal
  <2> QED
    BY <1>3, <2>1, <2>3 DEF TypeOK, Disconnected, BeginFinal
<1>4. CASE "quit" \notin ToSet(commands)
  <2>1. capture_alive' = FALSE /\ events' = "never" /\ UNCHANGED <<pl, final, snap, rows>>
    BY <1>4 DEF Disconnected
  <2>2. TypeOK'
    <3>1. commands' \in Seq(Commands) /\ Len(commands') <= Capacity
      BY <1>2, SessionAssumption
    <3>2. {names_slot', names_file'} \subseteq 0 .. MaxVersion \cup {NONE} /\ names_file' # NONE
      BY <1>1 DEF TypeOK, Disconnected
    <3> QED
      BY <1>1, <2>1, <3>1, <3>2 DEF TypeOK, Disconnected
  <2>3. capture = "stopped" => quit_lost
    BY <1>4 DEF TypeOK, Disconnected
  <2>4. NoFalseAlarm'
    BY <2>1, <2>3 DEF TypeOK, Disconnected
  <2>5. QuitWasAsked' /\ LeavesByQuit' /\ StoppedByMain' /\ JoinedHasEnded'
    BY <1>2, <2>1 DEF Disconnected
  <2>6. QuitIsOnItsWay'
    BY <1>4, <2>1 DEF Disconnected
  <2>7. NamesFollow'
    BY <2>1 DEF Disconnected
  <2> QED
    BY <2>2, <2>4, <2>5, <2>6, <2>7
<1> QED
  BY <1>3, <1>4

LEMMA TakeCommandHolds == SessionInv /\ TakeCommand => SessionInv'
<1> SUFFICES ASSUME SessionInv, TakeCommand PROVE SessionInv'
  OBVIOUS
<1>1. version' \in 0 .. MaxVersion /\ names_slot' \in 0 .. MaxVersion \cup {NONE}
  BY ApplyTypes DEF TakeCommand
<1>2. /\ commands' \in Seq(Commands) /\ Len(commands') <= Capacity
      /\ ToSet(commands) = ToSet(commands') \cup {Head(commands)}
  BY TailTakes, SessionAssumption DEF TypeOK, TakeCommand
<1>3. CASE Head(commands) = "quit"
  <2>1. BeginFinal
    BY <1>3 DEF TakeCommand
  <2>2. snap' \in Snapshot /\ snap' # NONE /\ rows' \in 0 .. 1
    BY <2>1, <1>1, BeginFinalTypes DEF TakeCommand
  <2>3. TypeOK'
    BY <1>1, <1>2, <2>1, <2>2 DEF TypeOK, TakeCommand, BeginFinal
  <2> QED
    BY <1>2, <1>3, <2>1, <2>3 DEF TypeOK, TakeCommand, BeginFinal
<1>4. CASE Head(commands) # "quit"
  <2>1. UNCHANGED <<pl, final, snap, rows>>
    BY <1>4 DEF TakeCommand
  <2>2. TypeOK'
    BY <1>1, <1>2, <2>1 DEF TypeOK, TakeCommand
  <2> QED
    BY <1>2, <1>4, <2>1, <2>2 DEF TypeOK, TakeCommand
<1> QED
  BY <1>3, <1>4

LEMMA ClickResetHolds == SessionInv /\ ClickReset => SessionInv'
<1> SUFFICES ASSUME SessionInv, ClickReset PROVE SessionInv'
  OBVIOUS
<1>1. /\ commands' \in Seq(Commands) /\ Len(commands') <= Capacity
      /\ commands' = commands \/ ToSet(commands') = ToSet(commands) \cup {"reset"}
  BY EnqueueAdds DEF TypeOK, ClickReset, Commands
<1> QED
  BY <1>1 DEF TypeOK, ClickReset

LEMMA ClickQuitHolds == SessionInv /\ ClickQuit => SessionInv'
<1> SUFFICES ASSUME SessionInv, ClickQuit PROVE SessionInv'
  OBVIOUS
<1>1. commands' \in Seq(Commands) /\ Len(commands') <= Capacity
  BY EnqueueAdds DEF TypeOK, ClickQuit, Commands
<1> QED
  BY <1>1 DEF TypeOK, ClickQuit

LEMMA CloseWindowHolds == SessionInv /\ CloseWindow => SessionInv'
<1> SUFFICES ASSUME SessionInv, CloseWindow PROVE SessionInv'
  OBVIOUS
<1>1. /\ commands' \in Seq(Commands) /\ Len(commands') <= Capacity
      /\ commands' # commands => ToSet(commands') = ToSet(commands) \cup {"quit"}
  BY EnqueueAdds DEF TypeOK, CloseWindow, Commands
<1>2. quit_lost' \in BOOLEAN /\ (~ quit_lost' => "quit" \in ToSet(commands'))
  BY <1>1 DEF CloseWindow
<1>3. TypeOK'
  BY <1>1, <1>2, NoneAssumption DEF TypeOK, CloseWindow, Permanent
<1>4. NoFalseAlarm'
  BY DEF TypeOK, CloseWindow
<1> QED
  BY <1>2, <1>3, <1>4 DEF TypeOK, CloseWindow

---------------------------------------------------------------------------
THEOREM NextHolds == SessionInv /\ [Next]_vars => SessionInv'
<1> SUFFICES ASSUME SessionInv, [Next]_vars PROVE SessionInv'
  OBVIOUS
<1>1. CASE PipelineNext
  BY <1>1, StepHolds, DisconnectedHolds, TakeCommandHolds, TickHolds, TrySendHolds, EvictHolds,
     ResendHolds, SaveNamesHolds, JoinWriterHolds DEF PipelineNext
<1>2. CASE WriterNext \/ MainNext
  BY <1>2, NamesWrittenHolds, RowStoredHolds, StopCaptureHolds, JoinPipelineHolds, JoinHistoryHolds
     DEF WriterNext, MainNext
<1>3. CASE AnyFrame
  BY <1>3, FrameHolds DEF AnyFrame
<1>4. CASE ClickReset \/ ClickQuit \/ CloseWindow
  BY <1>4, ClickResetHolds, ClickQuitHolds, CloseWindowHolds
<1>5. CASE CaptureDies \/ PipelinePanics \/ PipelineHangs
  BY <1>5, CaptureDiesHolds, PipelinePanicsHolds, PipelineHangsHolds
<1>6. CASE UNCHANGED vars
  BY <1>6 DEF vars, TypeOK
<1> QED
  BY <1>1, <1>2, <1>3, <1>4, <1>5, <1>6 DEF Next

HIDE DEF SessionInv, NoFalseAlarm

(* The state of a session keeps its shape: channels within their capacity, *)
(* at most one fight in hand when it ends.                                 *)
THEOREM TypeCorrect == Spec => []TypeOK
<1>1. SessionInv => TypeOK
  BY DEF SessionInv
<1> QED
  BY <1>1, InitHolds, NextHolds, PTL DEF Spec

(* No banner ever tells of a fault there was not (ui/mod.rs, pipeline.rs). *)
THEOREM AlarmsAreTrue == Spec => []NoFalseAlarm
<1>1. SessionInv => NoFalseAlarm
  BY DEF SessionInv
<1> QED
  BY <1>1, InitHolds, NextHolds, PTL DEF Spec

(* A session whose workers all ended in time has stored everything.        *)
THEOREM NothingIsLost == Spec => []CleanShutdown
<1>1. SessionInv => CleanShutdown
  BY DEF SessionInv, CleanShutdown
<1> QED
  BY <1>1, InitHolds, NextHolds, PTL DEF Spec

=============================================================================
