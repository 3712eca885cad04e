----------------------------- MODULE Capture -----------------------------
(***************************************************************************)
(* The capture loop (win.rs) with what it shares with other threads: the   *)
(* monitor its watchdog reads (throughput.rs), the restart flag            *)
(* (restart.rs) and the bounded queue of events to the pipeline            *)
(* (backpressure.rs).  The reassembler is here only by what it does to the *)
(* loop: a payload delivers bytes or it does not, and it may be stuck,     *)
(* delivering nothing until it is re-anchored; TcpReassembler has the rest.*)
(*                                                                         *)
(* An instant is its age in ticks, up to the first age that decides        *)
(* something; a tick is half a HEARTBEAT_INTERVAL at most, and the watchdog,*)
(* which wakes every 250 ms, does so at least once in a tick.              *)
(***************************************************************************)
EXTENDS ServerDetector, Sequences

CONSTANTS
  Games,          \* the connections the game uses, one after another
  Initial,        \* GAME_PID_LOOKUP_INITIAL_INTERVAL, in ticks
  MaxInterval,    \* MAX_GAME_PID_LOOKUP_INTERVAL
  Interval,       \* HEARTBEAT_INTERVAL
  StallAfter,     \* STALL_RESTART_AFTER
  MaxErrors,      \* MAX_CONSECUTIVE_RECV_ERRORS
  Capacity,       \* EVENT_CAPACITY
  Events          \* what else the instance lets happen

Never == -1         \* the age of an instant that is None
Changed == "changed"

ASSUME CaptureAssumption ==
  /\ Changed \notin Conns
  /\ Games \in Seq(Conns) /\ Games # <<>>
  /\ Initial \in Nat /\ MaxInterval \in Nat /\ Initial <= MaxInterval
  /\ Interval \in Nat \ {0} /\ StallAfter \in Nat /\ Interval <= StallAfter
  /\ MaxErrors \in Nat \ {0} /\ Capacity \in Nat \ {0}
  /\ Events \subseteq {"restart", "stop", "error", "quit", "move", "tick"}

VARIABLES
  pc,             \* where the capture loop is
  pkt,            \* the packet in hand
  now_age,        \* ticks since the loop read the clock for it
  known,          \* known_server, and the monitor's tracked connection
  det,            \* the detector
  pids,           \* game_pids
  looked,         \* age of last_game_pid_lookup
  interval,       \* game_pid_lookup_interval
  errors,         \* consecutive_errors
  stuck,          \* the reassembler delivers nothing, whatever it is pushed
  undelivered,    \* packets_since_delivery > 0
  packet_age,     \* age of last_packet
  silent_for,     \* age of last_delivery
  restart,        \* the CaptureRestart flag
  verdict,        \* the watchdog found a restart due and has yet to ask for it
  beat,           \* the watchdog has woken since the last tick
  watching,       \* the watchdog runs
  stop,           \* the stop flag
  queue,          \* the event channel
  alive,          \* the pipeline holds the other end
  seen,           \* connection of the last event it took, NONE past a change
  game,           \* position in Games of the connection the game is using
  tried           \* connections adopted since the detector forgot its subnet

detection == <<known, det, pids, looked, interval, tried>>
monitor == <<undelivered, packet_age, silent_for>>
watchdog == <<verdict, beat, watching>>
channel == <<queue, alive, seen>>
vars == <<pc, pkt, now_age, detection, errors, stuck, monitor, restart, watchdog, stop, channel, game>>

\* What the loop still needs of a packet it goes on with.
InHand(p) == [conn |-> p.conn, data |-> p.kind # "empty", signed |-> BySignature(p)]
NoPacket == [conn |-> NONE]
Live == Games[game]

---------------------------------------------------------------------------
(* What the loop keeps up to date for itself. *)

\* Mutant: only an empty set of pids is looked up again.
RefreshOnlyEmpty(ps, age) == age = Never \/ (ps = {} /\ age >= interval)

ShouldRefresh(ps, age) ==
  age = Never \/ age >= IF ps = {} THEN interval ELSE MaxInterval

Doubled(n) == IF 2 * n < MaxInterval THEN 2 * n ELSE MaxInterval

\* next_game_pids: an empty answer keeps a set that was not.
NextPids(previous, found) == IF found = {} THEN previous ELSE found
NextInterval(previous, found) ==
  IF found # {} THEN Initial ELSE IF previous # {} THEN interval ELSE Doubled(interval)

\* A torn down connection and a restart both forget the game's process.
ForgetPids == pids' = {} /\ looked' = Never /\ interval' = Initial

NoteDetached == undelivered' = FALSE /\ packet_age' = Never /\ UNCHANGED silent_for

\* Mutant: the loop leaves without telling.
ExitSilently == pc' = "done" /\ UNCHANGED stop

\* StopOnExit: the watchdog is told whatever made the loop leave.
Exit == pc' = "done" /\ stop' = TRUE

---------------------------------------------------------------------------
(* The loop. *)

LoopTop ==
  /\ pc = "top" /\ ~ stop /\ ~ restart
  /\ pc' = "recv"
  /\ UNCHANGED <<pkt, now_age, detection, errors, stuck, monitor, restart, watchdog, stop, channel, game>>

LoopExit ==
  /\ pc = "top" /\ stop
  /\ Exit
  /\ UNCHANGED <<pkt, now_age, detection, errors, stuck, monitor, restart, watchdog, channel, game>>

(* take_requested: the tracked connection, the detector, the reassembler   *)
(* and the stall evidence all go.                                          *)
TakeRestart ==
  /\ pc = "top" /\ ~ stop /\ restart
  /\ restart' = FALSE
  /\ known' = NONE
  /\ det' = ForgottenDetector
  /\ tried' = {}
  /\ ForgetPids
  /\ stuck' = FALSE
  /\ NoteDetached
  /\ pc' = "recv"
  /\ UNCHANGED <<pkt, now_age, errors, watchdog, stop, channel, game>>

(* WinDivertRecv fails: at shutdown, or MaxErrors times in a row, the loop *)
(* leaves; otherwise it sleeps and starts over.                            *)
RecvError ==
  /\ pc = "recv"
  /\ \/ stop /\ Exit /\ UNCHANGED errors
     \/ /\ ~ stop /\ "error" \in Events
        /\ errors' = errors + 1
        /\ IF errors' >= MaxErrors THEN Exit ELSE pc' = "top" /\ UNCHANGED stop
  /\ UNCHANGED <<pkt, now_age, detection, stuck, monitor, restart, watchdog, channel, game>>

(* A packet p arrives.  The game's pids are refreshed first: found is what  *)
(* find_game_pids answers, owner what the connection table says of p's      *)
(* connection, and each may fail.                                           *)
Recv(p, found, owner) ==
  /\ pc = "recv"
  /\ errors' = 0
  /\ LET due == ShouldRefresh(pids, looked)
         ps == IF due THEN NextPids(pids, found) ELSE pids
         d == Decide(p, known, det, owner, ps)
     IN /\ found # {} => due
        /\ known' = d.known
        /\ det' = d.det
        /\ tried' = (IF d.det.subnet = det.subnet THEN tried ELSE {})
                    \cup (IF d.adopted THEN {p.conn} ELSE {})
        /\ IF d.torn THEN ForgetPids ELSE
             /\ pids' = ps
             /\ looked' = IF due THEN 0 ELSE looked
             /\ interval' = IF due THEN NextInterval(pids, found) ELSE interval
        /\ IF d.torn THEN NoteDetached ELSE UNCHANGED monitor
        /\ stuck' = (stuck /\ ~ d.adopted)
        /\ pkt' = IF d.skip THEN NoPacket ELSE InHand(p)
        /\ now_age' = 0
        /\ pc' = CASE d.skip -> "top"
                   [] d.adopted -> "announce"
                   [] OTHER -> "push"
  /\ UNCHANGED <<restart, watchdog, stop, channel, game>>

(* Packets that are not IPv4 TCP are left out: they refresh the pids only.  *)
Answers == IF ShouldRefresh(pids, looked) THEN {{}, {OwnerOf[Live]}} ELSE {{}}
AnyPacket ==
  \E p \in Packets, found \in Answers, owner \in {NONE} \cup {OwnerOf[c] : c \in Conns} :
    /\ owner \in {NONE, OwnerOf[p.conn]}
    /\ Recv(p, found, owner)

Send(event) == queue' = Append(queue, event) /\ UNCHANGED <<alive, seen>>

\* Mutant: the change is announced like any other event, and may be dropped.
AnnounceOrDrop ==
  /\ pc = "announce" /\ alive
  /\ IF Len(queue) < Capacity THEN Send(Changed) ELSE UNCHANGED channel
  /\ pc' = "anchor"
  /\ UNCHANGED <<pkt, now_age, detection, errors, stuck, monitor, restart, watchdog, stop, game>>

\* Mutant: the queue has no bound.
AnnounceAnyway ==
  /\ pc = "announce" /\ alive
  /\ Send(Changed)
  /\ pc' = "anchor"
  /\ UNCHANGED <<pkt, now_age, detection, errors, stuck, monitor, restart, watchdog, stop, game>>

(* tx.send(ServerChanged) waits for a place in the queue. *)
Announce ==
  /\ pc = "announce" /\ alive
  /\ Len(queue) < Capacity
  /\ Send(Changed)
  /\ pc' = "anchor"
  /\ UNCHANGED <<pkt, now_age, detection, errors, stuck, monitor, restart, watchdog, stop, game>>

AnnounceFails ==
  /\ pc = "announce" /\ ~ alive
  /\ Exit
  /\ UNCHANGED <<pkt, now_age, detection, errors, stuck, monitor, restart, watchdog, channel, game>>

\* Mutant: a packet that delivered nothing counts as a delivery of no bytes.
RecordDelivery(delivered) ==
  /\ undelivered' = FALSE
  /\ packet_age' = IF pkt.data THEN now_age ELSE packet_age
  /\ silent_for' = now_age

(* monitor.record, under one lock: the packet first, then its delivery. *)
Record(delivered) ==
  /\ undelivered' = (~ delivered /\ (undelivered \/ pkt.data))
  /\ packet_age' = IF pkt.data THEN now_age ELSE packet_age
  /\ silent_for' = IF delivered THEN now_age ELSE silent_for

(* push and take_stream.  The segment a connection is adopted with always   *)
(* delivers, an empty one never; any other may, unless the reassembler is   *)
(* stuck, which it may become.                                              *)
Push ==
  /\ pc \in {"anchor", "push"}
  /\ \E delivered \in BOOLEAN :
       /\ pc = "anchor" => delivered
       /\ delivered => pkt.data /\ ~ stuck
       /\ Record(delivered)
       /\ pc' = IF delivered THEN "send" ELSE "top"
       /\ pkt' = IF delivered THEN pkt ELSE NoPacket
  /\ stuck' \in IF pkt.data THEN {stuck, TRUE} ELSE {stuck}
  /\ now_age' = 0
  /\ UNCHANGED <<detection, errors, restart, watchdog, stop, channel, game>>

(* What push_stream decodes from the delivered bytes, event by event: a     *)
(* full queue drops it, a pipeline that is gone ends the loop.              *)
SendEvent ==
  /\ pc = "send"
  /\ IF alive
     THEN /\ Len(queue) < Capacity
          /\ Send(pkt.conn)
          /\ UNCHANGED <<pc, stop>>
     ELSE Exit /\ UNCHANGED channel
  /\ UNCHANGED <<pkt, now_age, detection, errors, stuck, monitor, restart, watchdog, game>>

SendDone ==
  /\ pc = "send"
  /\ pc' = "top"
  /\ pkt' = NoPacket
  /\ UNCHANGED <<now_age, detection, errors, stuck, monitor, restart, watchdog, stop, channel, game>>

---------------------------------------------------------------------------
(* The other threads. *)

RestartDue ==
  /\ undelivered
  /\ packet_age \in 0 .. Interval - 1
  /\ silent_for >= StallAfter

(* One wakeup of the watchdog: the verdict is reached under the monitor's   *)
(* lock, the restart is asked for after it is released.                     *)
Wake ==
  /\ watching /\ ~ stop /\ ~ verdict
  /\ beat' = TRUE
  /\ verdict' = RestartDue
  /\ undelivered' = (undelivered /\ ~ RestartDue)
  /\ silent_for' = IF RestartDue THEN 0 ELSE silent_for
  /\ UNCHANGED <<pc, pkt, now_age, detection, errors, stuck, packet_age, restart, watching, stop, channel, game>>

AskRestart ==
  /\ verdict
  /\ restart' = TRUE
  /\ verdict' = FALSE
  /\ UNCHANGED <<pc, pkt, now_age, detection, errors, stuck, monitor, beat, watching, stop, channel, game>>

WatchdogEnds ==
  /\ watching /\ stop /\ ~ verdict
  /\ watching' = FALSE
  /\ UNCHANGED <<pc, pkt, now_age, detection, errors, stuck, monitor, restart, verdict, beat, stop, channel, game>>

UserRestart ==
  /\ "restart" \in Events
  /\ restart' = TRUE
  /\ UNCHANGED <<pc, pkt, now_age, detection, errors, stuck, monitor, watchdog, stop, channel, game>>

Stop ==
  /\ "stop" \in Events
  /\ stop' = TRUE
  /\ UNCHANGED <<pc, pkt, now_age, detection, errors, stuck, monitor, restart, watchdog, channel, game>>

PipelineTakes ==
  /\ alive /\ queue # <<>>
  /\ seen' = IF Head(queue) = Changed THEN NONE ELSE Head(queue)
  /\ queue' = Tail(queue)
  /\ UNCHANGED <<pc, pkt, now_age, detection, errors, stuck, monitor, restart, watchdog, stop, alive, game>>

PipelineExits ==
  /\ "quit" \in Events
  /\ alive
  /\ alive' = FALSE
  /\ queue' = <<>>
  /\ UNCHANGED <<pc, pkt, now_age, detection, errors, stuck, monitor, restart, watchdog, stop, seen, game>>

(* The game goes on over another connection: a channel switch, or a new    *)
(* process where the owner differs.                                        *)
GameMoves ==
  /\ "move" \in Events
  /\ game < Len(Games)
  /\ game' = game + 1
  /\ UNCHANGED <<pc, pkt, now_age, detection, errors, stuck, monitor, restart, watchdog, stop, channel>>

Older(age, last) == IF age = Never \/ age >= last THEN age ELSE age + 1

(* Time passes while the loop waits, for a packet or for the queue: what it *)
(* does with one packet takes much less than a tick.                        *)
Tick ==
  /\ "tick" \in Events
  /\ beat \/ ~ watching
  /\ pc \in {"recv", "announce", "done"}
  /\ beat' = FALSE
  /\ now_age' = IF pc = "announce" THEN Older(now_age, StallAfter) ELSE now_age
  /\ looked' = Older(looked, MaxInterval)
  /\ packet_age' = Older(packet_age, Interval)
  /\ silent_for' = Older(silent_for, StallAfter)
  /\ UNCHANGED <<pc, pkt, known, det, pids, interval, tried, errors, stuck, undelivered,
                 restart, verdict, watching, stop, channel, game>>

---------------------------------------------------------------------------
Init ==
  /\ pc = "top"
  /\ pkt = NoPacket
  /\ now_age = 0
  /\ known = NONE
  /\ det = ForgottenDetector
  /\ pids = {}
  /\ looked = Never
  /\ interval = Initial
  /\ tried = {}
  /\ errors = 0
  /\ stuck = FALSE
  /\ undelivered = FALSE
  /\ packet_age = Never
  /\ silent_for = 0
  /\ restart = FALSE
  /\ verdict = FALSE
  /\ beat = FALSE
  /\ watching = TRUE
  /\ stop = FALSE
  /\ queue = <<>>
  /\ alive = TRUE
  /\ seen = NONE
  /\ game = 1

Next ==
  \/ LoopTop \/ LoopExit \/ TakeRestart \/ RecvError \/ AnyPacket
  \/ Announce \/ AnnounceFails \/ Push \/ SendEvent \/ SendDone
  \/ Wake \/ AskRestart \/ WatchdogEnds \/ UserRestart \/ Stop
  \/ PipelineTakes \/ PipelineExits \/ GameMoves \/ Tick

Spec == Init /\ [][Next]_vars

(* What the threads and the machine give:                                  *)
(*  - the loop and the watchdog run, the pipeline takes events while it     *)
(*    lives, WinDivertShutdown wakes a blocked receive, and time passes;    *)
(*  - the tracked connection goes on carrying data, the live one carries    *)
(*    the signature again and again, and a due lookup of the game's process *)
(*    succeeds again and again.                                             *)
ShutdownWakes == stop /\ RecvError
Segment(c, kind) == [conn |-> c, rev |-> FALSE, kind |-> kind, flag |-> "none"]
DataArrives == known # NONE /\ Recv(Segment(known, "other"), {}, NONE)
SignatureArrives == Recv(Segment(Live, "signature"), {}, OwnerOf[Live])
LookupSucceeds == Recv(Segment(Live, "empty"), {OwnerOf[Live]}, NONE)

Threads ==
  /\ WF_vars(LoopTop \/ LoopExit \/ TakeRestart \/ Announce \/ AnnounceFails \/ Push)
  /\ WF_vars(SendDone)
  /\ WF_vars(Wake) /\ WF_vars(AskRestart) /\ WF_vars(WatchdogEnds)
  /\ WF_vars(PipelineTakes)
  /\ WF_vars(ShutdownWakes)
  /\ SF_vars(Tick)

WatchSpec == Spec /\ Threads /\ SF_vars(DataArrives)
FollowSpec == Spec /\ Threads /\ SF_vars(SignatureArrives) /\ SF_vars(LookupSucceeds)

---------------------------------------------------------------------------
(* The state every step keeps the shape of. *)
TypeOK ==
  /\ pc \in {"top", "recv", "announce", "anchor", "push", "send", "done"}
  /\ pkt \in {InHand(p) : p \in Packets} \cup {NoPacket}
  /\ now_age \in 0 .. StallAfter
  /\ known \in Conns \cup {NONE}
  /\ det \in Detector
  /\ pids \in SUBSET {OwnerOf[c] : c \in Conns}
  /\ looked \in 0 .. MaxInterval \cup {Never}
  /\ interval \in Initial .. MaxInterval
  /\ errors \in 0 .. MaxErrors
  /\ stuck \in BOOLEAN /\ undelivered \in BOOLEAN
  /\ packet_age \in 0 .. StallAfter \cup {Never}
  /\ silent_for \in 0 .. StallAfter
  /\ restart \in BOOLEAN /\ verdict \in BOOLEAN /\ beat \in BOOLEAN
  /\ watching \in BOOLEAN /\ stop \in BOOLEAN /\ alive \in BOOLEAN
  /\ queue \in Seq(Conns \cup {Changed}) /\ Len(queue) <= Capacity
  /\ seen \in Conns \cup {NONE}
  /\ game \in DOMAIN Games
  /\ tried \subseteq Conns

(* Whatever is dropped from a full queue, restarted, torn down, displaced  *)
(* or adopted, the pipeline never takes events of two connections in a row *)
(* without a ServerChanged between them: it would go on with the entities  *)
(* and the fight of a server the game has left.                            *)
NoMixedConnections ==
  LET taken == <<seen>> \o queue
  IN \A i \in 1 .. Len(queue) :
       {taken[i], taken[i + 1]} \subseteq Conns => taken[i] = taken[i + 1]

(* The reconnect path adopts a connection once: two connections of one     *)
(* subnet, or the late segments of one that was torn down, never take the  *)
(* capture back and forth, each swap wiping the meter.                     *)
SubnetNeverReadopts ==
  [][pc' = "announce" /\ pc # "announce" /\ ~ pkt'.signed => pkt'.conn \notin tried]_vars

(* A tracked connection whose data arrives and delivers nothing is given   *)
(* up: the watchdog sees it, whatever races with it, and the loop re-anchors.*)
WedgeIsEscaped == (stuck /\ known # NONE) ~> (~ stuck \/ known = NONE \/ pc = "done")

(* The capture comes back to the connection the game uses, after a channel *)
(* switch nobody saw the end of, a new process, a failed lookup, a restart *)
(* or the adoption of another program's connection.                        *)
GameIsFollowed == []<>(known = Live \/ pc = "done")

(* Once told to stop, or once it gave up by itself, the capture ends, its  *)
(* watchdog included, even if the queue is full and the pipeline is gone.  *)
StopIsHonoured == (stop \/ pc = "done") ~> (pc = "done" /\ ~ watching)

=============================================================================
