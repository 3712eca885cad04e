-------------------------- MODULE Capture_proofs --------------------------
(***************************************************************************)
(* Two promises of the capture loop, for every set of connections, owner   *)
(* table, queue capacity and limit: events of two connections are never    *)
(* mixed, and the reconnect path never adopts the same connection twice.   *)
(* Both rest on what the loop does between its packets; the restarts, the  *)
(* watchdog and the clock may come at any time.                            *)
(***************************************************************************)
EXTENDS Capture, FiniteSetTheorems, TLAPS

(* The event before the queue's i-th, in the order the pipeline takes them. *)
Before(i) == IF i = 1 THEN seen ELSE queue[i - 1]
LastTaken == IF queue = <<>> THEN seen ELSE queue[Len(queue)]

Unmixed ==
  \A i \in 1 .. Len(queue) :
    Before(i) \in Conns /\ queue[i] \in Conns => Before(i) = queue[i]

Shape ==
  /\ known \in Conns \cup {NONE}
  /\ queue \in Seq(Conns \cup {Changed}) /\ Len(queue) <= Capacity
  /\ seen \in Conns \cup {NONE}
  /\ alive \in BOOLEAN
  /\ ~ alive => queue = <<>>

(* What is queued last is of the connection in hand, of the one tracked, or *)
(* a change; only where the next thing queued is a change may it be another. *)
Anchored ==
  /\ pc \in {"announce", "anchor", "push", "send"} => pkt.conn \in Conns /\ known \in {NONE, pkt.conn}
  /\ alive /\ pc \in {"anchor", "push", "send"} => LastTaken \in {NONE, Changed, pkt.conn}
  /\ alive /\ pc \in {"top", "recv"} /\ known # NONE => LastTaken \in {NONE, Changed, known}

StreamInv == Shape /\ Unmixed /\ Anchored

---------------------------------------------------------------------------
LEMMA SameStatement == ASSUME Shape PROVE Unmixed <=> NoMixedConnections
<1> DEFINE taken == <<seen>> \o queue
<1>1. queue \in Seq(Conns \cup {Changed}) /\ Len(queue) \in Nat
  BY DEF Shape
<1>2. ASSUME NEW i \in 1 .. Len(queue)
      PROVE  taken[i] = Before(i) /\ taken[i + 1] = queue[i]
  BY <1>1, <1>2 DEF Before
<1> QED
  BY <1>2 DEF Unmixed, NoMixedConnections

(* An event is queued behind those of its own connection, or is a change.  *)
LEMMA SendKeeps ==
  ASSUME Shape, Unmixed, NEW e \in Conns \cup {Changed}, Send(e), Len(queue) < Capacity,
         alive,
         e = Changed \/ LastTaken \in {NONE, Changed, e}
  PROVE  /\ queue' \in Seq(Conns \cup {Changed}) /\ Len(queue') <= Capacity
         /\ alive' /\ seen' = seen
         /\ Unmixed' /\ LastTaken' = e
<1>1. queue \in Seq(Conns \cup {Changed}) /\ Len(queue) \in Nat
  BY DEF Shape
<1>2. /\ queue' = Append(queue, e) /\ seen' = seen /\ alive' = alive
  BY DEF Send
<1>3. /\ queue' \in Seq(Conns \cup {Changed})
      /\ Len(queue') = Len(queue) + 1
      /\ queue'[Len(queue) + 1] = e
      /\ \A i \in 1 .. Len(queue) : queue'[i] = queue[i]
  BY <1>1, <1>2
<1>4. LastTaken' = e
  BY <1>1, <1>3 DEF LastTaken
<1>5. Unmixed'
  <2> SUFFICES ASSUME NEW i \in 1 .. Len(queue) + 1,
                      Before(i)' \in Conns, queue'[i] \in Conns
               PROVE  Before(i)' = queue'[i]
    BY <1>3 DEF Unmixed
  <2>1. CASE i \in 1 .. Len(queue)
    <3>1. Before(i)' = Before(i) /\ queue'[i] = queue[i]
      BY <2>1, <1>1, <1>2, <1>3 DEF Before
    <3> QED
      BY <2>1, <3>1 DEF Unmixed
  <2>2. CASE i = Len(queue) + 1
    <3>1. Before(i)' = LastTaken
      BY <2>2, <1>1, <1>2, <1>3 DEF Before, LastTaken
    <3> QED
      BY <2>2, <3>1, <1>3, DetectorAssumption, CaptureAssumption
  <2> QED
    BY <2>1, <2>2
<1> QED
  BY <1>1, <1>2, <1>3, <1>4, <1>5, CaptureAssumption

(* The pipeline takes the queue's first event. *)
LEMMA TakeKeeps ==
  ASSUME StreamInv, PipelineTakes
  PROVE  StreamInv'
<1>1. /\ queue \in Seq(Conns \cup {Changed}) /\ Len(queue) \in Nat \ {0}
      /\ queue' = Tail(queue)
      /\ seen' = IF queue[1] = Changed THEN NONE ELSE queue[1]
  BY DEF StreamInv, Shape, PipelineTakes
<1>2. /\ queue' \in Seq(Conns \cup {Changed}) /\ Len(queue') = Len(queue) - 1
      /\ \A i \in 1 .. Len(queue) - 1 : queue'[i] = queue[i + 1]
  BY <1>1
<1>3. Shape'
  BY <1>1, <1>2, CaptureAssumption DEF StreamInv, Shape, PipelineTakes, detection
<1>4. Unmixed'
  <2> SUFFICES ASSUME NEW i \in 1 .. Len(queue) - 1,
                      Before(i)' \in Conns, queue'[i] \in Conns
               PROVE  Before(i)' = queue'[i]
    BY <1>2 DEF Unmixed
  <2>1. i + 1 \in 1 .. Len(queue) /\ queue'[i] = queue[i + 1]
    BY <1>1, <1>2
  <2>2. Before(i)' = Before(i + 1)
    BY <1>1, <1>2, <2>1, DetectorAssumption DEF Before
  <2> QED
    BY <2>1, <2>2 DEF StreamInv, Unmixed
<1>5. LastTaken' \in {NONE, LastTaken}
  BY <1>1, <1>2 DEF LastTaken
<1>6. Anchored'
  BY <1>5 DEF StreamInv, Anchored, PipelineTakes, detection
<1> QED
  BY <1>3, <1>4, <1>6 DEF StreamInv

(* The loop's steps that queue nothing. *)
LEMMA QueueUntouched ==
  ASSUME StreamInv, UNCHANGED channel, known' \in Conns \cup {NONE}
  PROVE  Shape' /\ Unmixed' /\ LastTaken' = LastTaken
<1>1. queue' = queue /\ seen' = seen /\ alive' = alive
  BY DEF channel
<1> QED
  BY <1>1 DEF StreamInv, Shape, Unmixed, Before, LastTaken

LEMMA DecideTypes ==
  ASSUME NEW p \in Packets, known \in Conns \cup {NONE}, NEW owner, NEW ps
  PROVE  LET d == Decide(p, known, det, owner, ps) IN
         /\ p.conn \in Conns
         /\ d.known \in Conns \cup {NONE}
         /\ ~ d.skip /\ d.adopted => d.known = p.conn
         /\ ~ d.skip /\ ~ d.adopted => known = p.conn /\ d.known \in {NONE, known}
         /\ d.skip => d.known \in {NONE, known}
<1>1. p.conn \in Conns
  BY DEF Packets
<1> QED
  BY <1>1, DetectorAssumption DEF Decide, Role, TornDown

LEMMA RecvKeeps ==
  ASSUME StreamInv, NEW p \in Packets, NEW found, NEW owner, Recv(p, found, owner)
  PROVE  StreamInv'
<1> DEFINE d == Decide(p, known, det, owner, IF ShouldRefresh(pids, looked) THEN NextPids(pids, found) ELSE pids)
<1>0. ~ (d.skip /\ d.adopted)
  BY DEF Decide
<1> HIDE DEF d
<1>a. /\ known' = d.known
      /\ pkt' = IF d.skip THEN NoPacket ELSE InHand(p)
      /\ pc' = CASE d.skip -> "top" [] d.adopted -> "announce" [] OTHER -> "push"
      /\ pc = "recv" /\ UNCHANGED channel
  BY Zenon DEF Recv, d
<1>1. /\ known' = d.known
      /\ pkt' = IF d.skip THEN NoPacket ELSE InHand(p)
      /\ pc' = IF d.skip THEN "top" ELSE IF d.adopted THEN "announce" ELSE "push"
      /\ pc = "recv" /\ UNCHANGED channel
  BY <1>0, <1>a
<1>2. /\ p.conn \in Conns
      /\ d.known \in Conns \cup {NONE}
      /\ ~ d.skip /\ d.adopted => d.known = p.conn
      /\ ~ d.skip /\ ~ d.adopted => known = p.conn /\ d.known \in {NONE, known}
      /\ d.skip => d.known \in {NONE, known}
  BY DecideTypes DEF StreamInv, Shape, d
<1>3. Shape' /\ Unmixed' /\ LastTaken' = LastTaken /\ alive' = alive
  BY <1>1, <1>2, QueueUntouched DEF channel
<1>4. ~ d.skip => pkt'.conn = p.conn
  BY <1>1 DEF InHand
<1>5. Anchored'
  BY <1>1, <1>2, <1>3, <1>4, DetectorAssumption DEF StreamInv, Anchored
<1> QED
  BY <1>3, <1>5 DEF StreamInv

LEMMA AnnounceKeeps == ASSUME StreamInv, Announce PROVE StreamInv'
<1>1. /\ queue' \in Seq(Conns \cup {Changed}) /\ Len(queue') <= Capacity
      /\ alive' /\ seen' = seen /\ alive' = alive
      /\ Unmixed' /\ LastTaken' = Changed
  BY SendKeeps DEF StreamInv, Announce, Send
<1>2. pc = "announce" /\ pc' = "anchor" /\ pkt' = pkt /\ known' = known
  BY DEF Announce, detection
<1> QED
  BY <1>1, <1>2 DEF StreamInv, Shape, Anchored

LEMMA SendEventKeeps == ASSUME StreamInv, SendEvent PROVE StreamInv'
<1>1. pc = "send" /\ pkt' = pkt /\ known' = known /\ pkt.conn \in Conns
  BY DEF StreamInv, Anchored, SendEvent, detection
<1>2. CASE alive
  <2>1. /\ queue' \in Seq(Conns \cup {Changed}) /\ Len(queue') <= Capacity
        /\ alive' /\ seen' = seen /\ alive' = alive
        /\ Unmixed' /\ LastTaken' = pkt.conn
    BY <1>1, <1>2, SendKeeps DEF StreamInv, Anchored, SendEvent, Send
  <2>2. pc' = pc
    BY <1>2 DEF SendEvent
  <2> QED
    BY <1>1, <1>2, <2>1, <2>2 DEF StreamInv, Shape, Anchored
<1>3. CASE ~ alive
  <2>1. pc' = "done" /\ UNCHANGED channel
    BY <1>3 DEF SendEvent, Exit
  <2>2. Shape' /\ Unmixed'
    BY <1>1, <2>1, QueueUntouched DEF StreamInv, Shape
  <2> QED
    BY <2>1, <2>2 DEF StreamInv, Anchored
<1> QED
  BY <1>2, <1>3 DEF StreamInv, Shape

(* Where the loop is, and what it tracks, after the steps that queue nothing. *)
LEMMA LoopKeeps ==
  ASSUME StreamInv,
         LoopTop \/ LoopExit \/ TakeRestart \/ RecvError \/ AnnounceFails \/ Push \/ SendDone
  PROVE  StreamInv'
<1>1. UNCHANGED channel /\ known' \in {NONE, known}
  BY DEF LoopTop, LoopExit, TakeRestart, RecvError, AnnounceFails, Push, SendDone, detection
<1>2. Shape' /\ Unmixed' /\ LastTaken' = LastTaken /\ alive' = alive
  BY <1>1, QueueUntouched DEF StreamInv, Shape, channel
<1>3. CASE LoopTop \/ TakeRestart
  <2>1. pc = "top" /\ pc' = "recv"
    BY <1>3 DEF LoopTop, TakeRestart
  <2> QED
    BY <1>1, <1>2, <2>1 DEF StreamInv, Anchored
<1>4. CASE LoopExit \/ AnnounceFails
  <2>1. pc' = "done"
    BY <1>4 DEF LoopExit, AnnounceFails, Exit
  <2> QED
    BY <1>2, <2>1 DEF StreamInv, Anchored
<1>5. CASE RecvError
  <2>1. pc = "recv" /\ pc' \in {"top", "done"} /\ known' = known
    BY <1>5 DEF RecvError, Exit, detection
  <2> QED
    BY <1>2, <2>1 DEF StreamInv, Anchored
<1>6. CASE Push
  <2>1. PICK delivered \in BOOLEAN :
          /\ pc' = IF delivered THEN "send" ELSE "top"
          /\ pkt' = IF delivered THEN pkt ELSE NoPacket
    BY <1>6 DEF Push
  <2>2. pc \in {"anchor", "push"} /\ known' = known
    BY <1>6 DEF Push, detection
  <2> QED
    BY <1>2, <2>1, <2>2, DetectorAssumption DEF StreamInv, Anchored
<1>7. CASE SendDone
  <2>1. pc = "send" /\ pc' = "top" /\ known' = known
    BY <1>7 DEF SendDone, detection
  <2> QED
    BY <1>2, <2>1, DetectorAssumption DEF StreamInv, Anchored
<1> QED
  BY <1>3, <1>4, <1>5, <1>6, <1>7

LEMMA ExitKeeps == ASSUME StreamInv, PipelineExits PROVE StreamInv'
<1>1. queue' = <<>> /\ ~ alive' /\ alive' \in BOOLEAN /\ seen' = seen /\ known' = known /\ pkt' = pkt /\ pc' = pc
  BY DEF PipelineExits, detection
<1>2. Shape' /\ Unmixed'
  BY <1>1, CaptureAssumption DEF StreamInv, Shape, Unmixed
<1> QED
  BY <1>1, <1>2 DEF StreamInv, Anchored

(* The other threads leave the loop where it is. *)
LEMMA OthersKeep ==
  ASSUME StreamInv, Wake \/ AskRestart \/ WatchdogEnds \/ UserRestart \/ Stop \/ GameMoves \/ Tick \/ UNCHANGED vars
  PROVE  StreamInv'
<1>1. UNCHANGED channel /\ known' = known /\ pkt' = pkt /\ pc' = pc
  BY DEF Wake, AskRestart, WatchdogEnds, UserRestart, Stop, GameMoves, Tick, vars, detection
<1>2. Shape' /\ Unmixed' /\ LastTaken' = LastTaken /\ alive' = alive
  BY <1>1, QueueUntouched DEF StreamInv, Shape, channel
<1> QED
  BY <1>1, <1>2 DEF StreamInv, Anchored

THEOREM StreamInitial == Init => StreamInv
BY DetectorAssumption, CaptureAssumption
   DEF Init, StreamInv, Shape, Unmixed, Anchored

THEOREM StreamStep == StreamInv /\ [Next]_vars => StreamInv'
<1> SUFFICES ASSUME StreamInv, [Next]_vars PROVE StreamInv'
  OBVIOUS
<1>1. CASE AnyPacket
  BY <1>1, RecvKeeps DEF AnyPacket
<1>2. CASE LoopTop \/ LoopExit \/ TakeRestart \/ RecvError \/ AnnounceFails \/ Push \/ SendDone
  BY <1>2, LoopKeeps
<1>3. CASE Announce \/ SendEvent
  BY <1>3, AnnounceKeeps, SendEventKeeps
<1>4. CASE PipelineTakes \/ PipelineExits
  BY <1>4, TakeKeeps, ExitKeeps
<1>5. CASE Wake \/ AskRestart \/ WatchdogEnds \/ UserRestart \/ Stop \/ GameMoves \/ Tick \/ UNCHANGED vars
  BY <1>5, OthersKeep
<1> QED
  BY <1>1, <1>2, <1>3, <1>4, <1>5 DEF Next

(* However many connections there are and whatever is dropped, restarted   *)
(* or torn down between two packets (win.rs), a ServerChanged stands       *)
(* between the events of any two of them.                                  *)
THEOREM ConnectionsAreNotMixed == Spec => []NoMixedConnections
<1>1. StreamInv => NoMixedConnections
  BY SameStatement DEF StreamInv
<1> QED
  BY <1>1, StreamInitial, StreamStep, PTL DEF Spec

---------------------------------------------------------------------------
(* A connection tried on this subnet is a candidate, or the subnet's list  *)
(* is full and admits no more.                                             *)
Listed ==
  /\ IsFiniteSet(det.candidates)
  /\ tried \subseteq det.candidates \/ Cardinality(det.candidates) >= MaxCandidates

LEMMA AdoptLists ==
  ASSUME Listed, NEW c \in Conns
  PROVE  LET d == Adopt(det, c) IN
         /\ IsFiniteSet(d.candidates)
         /\ \/ (IF d.subnet = det.subnet THEN tried ELSE {}) \cup {c} \subseteq d.candidates
            \/ Cardinality(d.candidates) >= MaxCandidates
<1> DEFINE kept == IF det.subnet = SubnetOf[c] THEN det.candidates ELSE {}
<1>1. IsFiniteSet(kept) /\ Cardinality(kept) \in Nat /\ Cardinality({}) = 0
  BY FS_EmptySet, FS_CardinalityType DEF Listed
<1>2. IsFiniteSet(kept \cup {c})
  BY <1>1, FS_AddElement
<1>3. /\ Adopt(det, c).subnet = SubnetOf[c]
      /\ Adopt(det, c).candidates = IF Cardinality(kept) < MaxCandidates THEN kept \cup {c} ELSE kept
  BY DEF Adopt
<1>4. MaxCandidates \in Nat \ {0}
  BY DetectorAssumption
<1>5. CASE Cardinality(kept) < MaxCandidates
  <2>1. (IF SubnetOf[c] = det.subnet THEN tried ELSE {}) \subseteq kept
    <3>1. CASE SubnetOf[c] = det.subnet
      <4>1. kept = det.candidates
        BY <3>1
      <4>2. ~ (Cardinality(det.candidates) >= MaxCandidates)
        BY <1>1, <1>4, <1>5, <4>1
      <4> QED
        BY <3>1, <4>1, <4>2 DEF Listed
    <3>2. CASE SubnetOf[c] # det.subnet
      BY <3>2
    <3> QED
      BY <3>1, <3>2
  <2> QED
    BY <1>2, <1>3, <1>5, <2>1
<1>6. CASE ~ (Cardinality(kept) < MaxCandidates)
  BY <1>1, <1>3, <1>4, <1>6
<1> QED
  BY <1>5, <1>6

LEMMA RecvLists ==
  ASSUME Listed, NEW p \in Packets, NEW found, NEW owner, Recv(p, found, owner)
  PROVE  Listed'
<1> DEFINE d == Decide(p, known, det, owner, IF ShouldRefresh(pids, looked) THEN NextPids(pids, found) ELSE pids)
<1>1. /\ det' = d.det
      /\ tried' = (IF d.det.subnet = det.subnet THEN tried ELSE {})
                  \cup (IF d.adopted THEN {p.conn} ELSE {})
  BY DEF Recv
<1>2. d.det = IF d.adopted THEN Adopt(det, p.conn) ELSE det
  BY DEF Decide
<1>3. p.conn \in Conns
  BY DEF Packets
<1> QED
  BY <1>1, <1>2, <1>3, AdoptLists DEF Listed

LEMMA RecvReadoptsNone ==
  ASSUME Listed, NEW p \in Packets, NEW found, NEW owner, Recv(p, found, owner),
         pc' = "announce", ~ pkt'.signed
  PROVE  pkt'.conn \notin tried
<1> DEFINE ps == IF ShouldRefresh(pids, looked) THEN NextPids(pids, found) ELSE pids
           d == Decide(p, known, det, owner, ps)
<1>1. ~ d.skip /\ d.adopted /\ pkt' = InHand(p)
  <2>1. ~ (d.skip /\ d.adopted)
    BY DEF Decide
  <2> HIDE DEF d
  <2>2. /\ pc' = CASE d.skip -> "top" [] d.adopted -> "announce" [] OTHER -> "push"
        /\ pkt' = IF d.skip THEN NoPacket ELSE InHand(p)
    BY Zenon DEF Recv, d, ps
  <2> QED
    BY <2>1, <2>2
<1>2. pkt'.conn = p.conn /\ ~ BySignature(p)
  BY <1>1 DEF InHand
<1>3. BySubnet(p, known, det)
  BY <1>1, <1>2 DEF Decide, Detects
<1>4. p.conn \notin det.candidates /\ Cardinality(det.candidates) < MaxCandidates
  BY <1>3 DEF BySubnet
<1>5. Cardinality(det.candidates) \in Nat
  BY FS_CardinalityType DEF Listed
<1> QED
  BY <1>2, <1>4, <1>5, DetectorAssumption DEF Listed

LEMMA OthersAnnounceNothing ==
  ASSUME [Next]_vars, ~ AnyPacket
  PROVE  /\ pc' = "announce" => pc = "announce"
         /\ \/ det' = det /\ tried' = tried
            \/ det' = ForgottenDetector /\ tried' = {}
<1>1. CASE LoopTop \/ LoopExit \/ TakeRestart \/ RecvError \/ Announce \/ AnnounceFails
  BY <1>1 DEF LoopTop, LoopExit, TakeRestart, RecvError, Announce, AnnounceFails, Exit, detection
<1>2. CASE Push \/ SendEvent \/ SendDone
  BY <1>2 DEF Push, SendEvent, SendDone, Exit, detection
<1>3. CASE Wake \/ AskRestart \/ WatchdogEnds \/ UserRestart \/ Stop \/ PipelineTakes \/ PipelineExits
             \/ GameMoves \/ Tick \/ UNCHANGED vars
  BY <1>3 DEF Wake, AskRestart, WatchdogEnds, UserRestart, Stop, PipelineTakes, PipelineExits,
     GameMoves, Tick, vars, detection
<1> QED
  BY <1>1, <1>2, <1>3 DEF Next

(* Whatever the tables and the limit on candidates (detect.rs), a          *)
(* connection adopted for its subnet alone is one the detector has not     *)
(* adopted before on that subnet.                                          *)
THEOREM NoReadoption == Spec => SubnetNeverReadopts
<1>1. Init => Listed
  BY FS_EmptySet DEF Init, Listed, ForgottenDetector
<1>2. Listed /\ [Next]_vars => Listed'
  <2> SUFFICES ASSUME Listed, [Next]_vars PROVE Listed'
    OBVIOUS
  <2>1. CASE AnyPacket
    BY <2>1, RecvLists DEF AnyPacket
  <2>2. CASE ~ AnyPacket
    BY <2>2, OthersAnnounceNothing, FS_EmptySet DEF Listed, ForgottenDetector
  <2> QED
    BY <2>1, <2>2
<1>3. Listed /\ [Next]_vars =>
        [pc' = "announce" /\ pc # "announce" /\ ~ pkt'.signed => pkt'.conn \notin tried]_vars
  <2> SUFFICES ASSUME Listed, [Next]_vars, pc' = "announce", pc # "announce", ~ pkt'.signed
               PROVE  pkt'.conn \notin tried
    OBVIOUS
  <2>1. AnyPacket
    BY OthersAnnounceNothing
  <2> QED
    BY <2>1, RecvReadoptsNone DEF AnyPacket
<1> QED
  BY <1>1, <1>2, <1>3, PTL DEF Spec, SubnetNeverReadopts

---------------------------------------------------------------------------
(* The type invariant, with the packet in hand where the loop needs it and *)
(* the error count below its limit while the loop goes on.                 *)
TypeInv ==
  /\ TypeOK
  /\ pc \in {"announce", "anchor", "push", "send"} => pkt \in {InHand(p) : p \in Packets}
  /\ pc # "done" => errors < MaxErrors

LEMMA DetectorTypes ==
  ASSUME NEW p \in Packets, known \in Conns \cup {NONE}, det \in Detector, NEW owner, NEW ps
  PROVE  LET d == Decide(p, known, det, owner, ps) IN
         d.known \in Conns \cup {NONE} /\ d.det \in Detector
<1>1. p.conn \in Conns
  BY DEF Packets
<1>2. Adopt(det, p.conn) \in Detector
  BY <1>1 DEF Adopt, Detector
<1> QED
  BY <1>1, <1>2 DEF Decide

LEMMA RecvTypes ==
  ASSUME TypeInv, NEW p \in Packets, NEW found \in SUBSET {OwnerOf[c] : c \in Conns}, NEW owner,
         Recv(p, found, owner)
  PROVE  TypeInv'
<1> DEFINE due == ShouldRefresh(pids, looked)
           ps == IF due THEN NextPids(pids, found) ELSE pids
           d == Decide(p, known, det, owner, ps)
<1>1. p.conn \in Conns
  BY DEF Packets
<1>2. d.known \in Conns \cup {NONE} /\ d.det \in Detector
  BY DetectorTypes DEF TypeInv, TypeOK
<1>3. ps \in SUBSET {OwnerOf[c] : c \in Conns}
  BY DEF TypeInv, TypeOK, NextPids
<1>4. NextInterval(pids, found) \in Initial .. MaxInterval
  BY CaptureAssumption DEF TypeInv, TypeOK, NextInterval, Doubled
<1>5. d.torn \in BOOLEAN
  BY DEF Decide, TornDown
<1>6. ~ (d.skip /\ d.adopted)
  BY DEF Decide
<1> HIDE DEF d, ps, due
<1>7. /\ known' = d.known /\ det' = d.det
      /\ tried' = (IF d.det.subnet = det.subnet THEN tried ELSE {}) \cup (IF d.adopted THEN {p.conn} ELSE {})
      /\ IF d.torn THEN ForgetPids ELSE
           /\ pids' = ps
           /\ looked' = IF due THEN 0 ELSE looked
           /\ interval' = IF due THEN NextInterval(pids, found) ELSE interval
      /\ IF d.torn THEN NoteDetached ELSE UNCHANGED monitor
      /\ stuck' = (stuck /\ ~ d.adopted)
      /\ pkt' = IF d.skip THEN NoPacket ELSE InHand(p)
      /\ pc' = CASE d.skip -> "top" [] d.adopted -> "announce" [] OTHER -> "push"
  BY Zenon DEF Recv, d, ps, due
<1>8. /\ errors' = 0 /\ now_age' = 0
      /\ UNCHANGED <<restart, watchdog, stop, channel, game>>
  BY DEF Recv
<1>9. /\ pc' \in {"top", "announce", "push"} /\ (pc' # "top" => pkt' = InHand(p))
      /\ pkt' \in {InHand(q) : q \in Packets} \cup {NoPacket}
  BY <1>6, <1>7
<1>10. /\ pids' \in SUBSET {OwnerOf[c] : c \in Conns}
       /\ looked' \in 0 .. MaxInterval \cup {Never}
       /\ interval' \in Initial .. MaxInterval
  BY <1>3, <1>4, <1>5, <1>7, CaptureAssumption DEF TypeInv, TypeOK, ForgetPids
<1>11. tried' \subseteq Conns
  BY <1>1, <1>7 DEF TypeInv, TypeOK
<1>12. /\ undelivered' \in BOOLEAN /\ packet_age' \in 0 .. StallAfter \cup {Never}
       /\ silent_for' \in 0 .. StallAfter
  BY <1>5, <1>7 DEF TypeInv, TypeOK, NoteDetached, monitor
<1>13. errors' \in 0 .. MaxErrors /\ errors' < MaxErrors /\ now_age' \in 0 .. StallAfter
  BY <1>8, CaptureAssumption
<1>14. stuck' \in BOOLEAN
  BY <1>7
<1> QED
  BY <1>2, <1>7, <1>8, <1>9, <1>10, <1>11, <1>12, <1>13, <1>14
     DEF TypeInv, TypeOK, watchdog, channel

(* Queueing an event keeps the queue within its capacity. *)
LEMMA SendTypes ==
  ASSUME TypeOK, NEW e \in Conns \cup {Changed}, Send(e), Len(queue) < Capacity
  PROVE  queue' \in Seq(Conns \cup {Changed}) /\ Len(queue') <= Capacity /\ alive' = alive /\ seen' = seen
BY CaptureAssumption DEF TypeOK, Send

LEMMA InHandTypes ==
  ASSUME NEW x \in {InHand(p) : p \in Packets}
  PROVE  x.conn \in Conns /\ x.data \in BOOLEAN
<1>1. PICK p \in Packets : x = InHand(p)
  OBVIOUS
<1>2. p.conn \in Conns
  BY DEF Packets
<1> QED
  BY <1>1, <1>2 DEF InHand

LEMMA LoopTypes ==
  ASSUME TypeInv,
         LoopTop \/ LoopExit \/ TakeRestart \/ RecvError \/ Announce \/ AnnounceFails \/ SendDone
  PROVE  TypeInv'
<1> USE DEF TypeInv, TypeOK, detection, monitor, watchdog, channel, Exit
<1>1. CASE LoopTop
  BY <1>1 DEF LoopTop
<1>2. CASE LoopExit
  BY <1>2 DEF LoopExit
<1>3. CASE TakeRestart
  <2>1. ForgottenDetector \in Detector
    BY DEF ForgottenDetector, Detector
  <2>2. /\ pids' \in SUBSET {OwnerOf[c] : c \in Conns} /\ tried' \subseteq Conns
        /\ looked' \in 0 .. MaxInterval \cup {Never} /\ interval' \in Initial .. MaxInterval
    BY <1>3, CaptureAssumption DEF TakeRestart, ForgetPids
  <2>3. /\ undelivered' \in BOOLEAN /\ packet_age' \in 0 .. StallAfter \cup {Never}
        /\ silent_for' \in 0 .. StallAfter
    BY <1>3 DEF TakeRestart, NoteDetached
  <2> QED
    BY <1>3, <2>1, <2>2, <2>3 DEF TakeRestart
<1>4. CASE RecvError
  <2>1. errors \in 0 .. MaxErrors /\ errors < MaxErrors /\ MaxErrors \in Nat
    BY <1>4, CaptureAssumption DEF RecvError
  <2>2. \/ errors' = errors
        \/ errors' = errors + 1 /\ (errors' < MaxErrors \/ pc' = "done")
    BY <1>4, <2>1 DEF RecvError
  <2>3. errors' \in 0 .. MaxErrors /\ (pc' # "done" => errors' < MaxErrors)
    BY <2>1, <2>2
  <2>4. pc' \in {"top", "done"} /\ stop' \in BOOLEAN
    BY <1>4 DEF RecvError
  <2> QED
    BY <1>4, <2>3, <2>4 DEF RecvError
<1>5. CASE Announce
  <2>1. queue' \in Seq(Conns \cup {Changed}) /\ Len(queue') <= Capacity /\ alive' = alive /\ seen' = seen
    BY <1>5, SendTypes DEF Announce
  <2> QED
    BY <1>5, <2>1 DEF Announce
<1>6. CASE AnnounceFails
  BY <1>6 DEF AnnounceFails
<1>7. CASE SendDone
  BY <1>7 DEF SendDone
<1> QED
  BY <1>1, <1>2, <1>3, <1>4, <1>5, <1>6, <1>7

LEMMA PushTypes == ASSUME TypeInv, Push PROVE TypeInv'
<1>1. PICK delivered \in BOOLEAN :
        /\ Record(delivered)
        /\ pc' = IF delivered THEN "send" ELSE "top"
        /\ pkt' = IF delivered THEN pkt ELSE NoPacket
  BY DEF Push
<1>2. pkt \in {InHand(p) : p \in Packets} /\ pc # "done"
  BY DEF Push, TypeInv
<1>3. pkt.data \in BOOLEAN
  BY <1>2, InHandTypes
<1>4. /\ undelivered' \in BOOLEAN /\ packet_age' \in 0 .. StallAfter \cup {Never}
      /\ silent_for' \in 0 .. StallAfter
  BY <1>1, <1>3 DEF Record, TypeInv, TypeOK
<1>5. stuck' \in BOOLEAN /\ now_age' \in 0 .. StallAfter
  <2>1. stuck' \in {stuck, TRUE} /\ now_age' = 0
    BY <1>3 DEF Push
  <2> QED
    <3>1. stuck' \in BOOLEAN
      BY <2>1, Zenon DEF TypeInv, TypeOK
    <3> QED
      BY <2>1, <3>1, CaptureAssumption
<1> QED
  BY <1>1, <1>2, <1>4, <1>5 DEF Push, TypeInv, TypeOK, detection, watchdog, channel

LEMMA SendEventTypes == ASSUME TypeInv, SendEvent PROVE TypeInv'
<1>1. pkt.conn \in Conns
  BY InHandTypes DEF SendEvent, TypeInv
<1>2. /\ queue' \in Seq(Conns \cup {Changed}) /\ Len(queue') <= Capacity /\ alive' = alive /\ seen' = seen
      /\ pc' \in {pc, "done"} /\ stop' \in BOOLEAN
  BY <1>1, SendTypes DEF SendEvent, TypeInv, TypeOK, Exit, channel
<1> QED
  BY <1>2 DEF SendEvent, TypeInv, TypeOK, detection, monitor, watchdog

LoopOK ==
  /\ pc \in {"top", "recv", "announce", "anchor", "push", "send", "done"}
  /\ pkt \in {InHand(p) : p \in Packets} \cup {NoPacket}
  /\ errors \in 0 .. MaxErrors /\ stuck \in BOOLEAN /\ game \in DOMAIN Games
  /\ pc \in {"announce", "anchor", "push", "send"} => pkt \in {InHand(p) : p \in Packets}
  /\ pc # "done" => errors < MaxErrors
DetectionOK ==
  /\ known \in Conns \cup {NONE} /\ det \in Detector
  /\ pids \in SUBSET {OwnerOf[c] : c \in Conns}
  /\ interval \in Initial .. MaxInterval /\ tried \subseteq Conns
AgesOK ==
  /\ now_age \in 0 .. StallAfter /\ looked \in 0 .. MaxInterval \cup {Never}
  /\ packet_age \in 0 .. StallAfter \cup {Never} /\ silent_for \in 0 .. StallAfter
FlagsOK ==
  /\ undelivered \in BOOLEAN /\ restart \in BOOLEAN /\ verdict \in BOOLEAN /\ beat \in BOOLEAN
  /\ watching \in BOOLEAN /\ stop \in BOOLEAN
ChannelOK ==
  /\ queue \in Seq(Conns \cup {Changed}) /\ Len(queue) <= Capacity
  /\ alive \in BOOLEAN /\ seen \in Conns \cup {NONE}

(* The parts of the type invariant, by who changes them. *)
LEMMA Parts ==
  /\ TypeInv <=> LoopOK /\ DetectionOK /\ AgesOK /\ FlagsOK /\ ChannelOK
  /\ TypeInv' <=> (LoopOK /\ DetectionOK /\ AgesOK /\ FlagsOK /\ ChannelOK)'
BY DEF TypeInv, TypeOK, LoopOK, DetectionOK, AgesOK, FlagsOK, ChannelOK

LEMMA TickTypes == ASSUME TypeInv, Tick PROVE TypeInv'
<1>1. /\ now_age \in 0 .. StallAfter /\ looked \in 0 .. MaxInterval \cup {Never}
      /\ packet_age \in 0 .. StallAfter \cup {Never} /\ silent_for \in 0 .. StallAfter
  BY DEF TypeInv, TypeOK
<1>2. StallAfter \in Nat /\ Interval \in Nat /\ Interval <= StallAfter /\ MaxInterval \in Nat
  BY CaptureAssumption
<1>3. /\ now_age' \in {now_age, Older(now_age, StallAfter)}
      /\ looked' = Older(looked, MaxInterval)
      /\ packet_age' = Older(packet_age, Interval)
      /\ silent_for' = Older(silent_for, StallAfter)
  BY DEF Tick
<1>4. now_age' \in 0 .. StallAfter
  BY <1>1, <1>2, <1>3 DEF Older, Never
<1>5. looked' \in 0 .. MaxInterval \cup {Never}
  BY <1>1, <1>2, <1>3 DEF Older, Never
<1>6. packet_age' \in 0 .. StallAfter \cup {Never}
  BY <1>1, <1>2, <1>3 DEF Older, Never
<1>7. silent_for' \in 0 .. StallAfter
  BY <1>1, <1>2, <1>3 DEF Older, Never
<1>8. AgesOK'
  BY <1>4, <1>5, <1>6, <1>7 DEF AgesOK
<1>9. LoopOK' /\ DetectionOK'
  BY Parts DEF Tick, LoopOK, DetectionOK
<1>10. FlagsOK' /\ ChannelOK'
  BY Parts DEF Tick, FlagsOK, ChannelOK, channel
<1> QED
  BY <1>8, <1>9, <1>10, Parts

LEMMA OtherTypes ==
  ASSUME TypeInv,
         \/ Wake \/ AskRestart \/ WatchdogEnds \/ UserRestart \/ Stop
         \/ PipelineTakes \/ PipelineExits \/ GameMoves \/ UNCHANGED vars
  PROVE  TypeInv'
<1> USE DEF detection, monitor, watchdog, channel
<1>1. CASE Wake \/ AskRestart \/ WatchdogEnds \/ UserRestart \/ Stop
  <2>1. FlagsOK'
    <3>1. RestartDue \in BOOLEAN
      BY DEF RestartDue
    <3> QED
      BY <1>1, <3>1, Parts DEF Wake, AskRestart, WatchdogEnds, UserRestart, Stop, FlagsOK
  <2>2. AgesOK'
    BY <1>1, Parts, CaptureAssumption DEF Wake, AskRestart, WatchdogEnds, UserRestart, Stop, AgesOK
  <2>3. LoopOK' /\ DetectionOK' /\ ChannelOK'
    BY <1>1, Parts DEF Wake, AskRestart, WatchdogEnds, UserRestart, Stop, LoopOK, DetectionOK, ChannelOK
  <2> QED
    BY <2>1, <2>2, <2>3, Parts
<1>2. CASE PipelineTakes \/ PipelineExits
  <2>1. ChannelOK'
    <3>1. CASE PipelineTakes
      <4>1. queue \in Seq(Conns \cup {Changed}) /\ queue # <<>> /\ Len(queue) <= Capacity /\ Capacity \in Nat
        BY <3>1, Parts, CaptureAssumption DEF PipelineTakes, ChannelOK
      <4>2. queue' = Tail(queue) /\ alive' = alive /\ seen' = IF Head(queue) = Changed THEN NONE ELSE Head(queue)
        BY <3>1 DEF PipelineTakes
      <4>3. queue' \in Seq(Conns \cup {Changed}) /\ Len(queue') <= Capacity /\ seen' \in Conns \cup {NONE}
        BY <4>1, <4>2
      <4>4. alive' \in BOOLEAN
        BY <4>2, Parts DEF ChannelOK
      <4> QED
        BY <4>3, <4>4 DEF ChannelOK
    <3>2. CASE PipelineExits
      <4>1. queue' = <<>> /\ alive' = FALSE /\ seen' = seen
        BY <3>2 DEF PipelineExits
      <4>2. queue' \in Seq(Conns \cup {Changed}) /\ Len(queue') <= Capacity
        <5>1. Capacity \in Nat
          BY CaptureAssumption
        <5> QED
          BY <4>1, <5>1
      <4>3. seen' \in Conns \cup {NONE}
        BY <4>1, Parts DEF ChannelOK
      <4> QED
        BY <4>1, <4>2, <4>3 DEF ChannelOK
    <3> QED
      BY <1>2, <3>1, <3>2
  <2>2. LoopOK' /\ DetectionOK' /\ AgesOK' /\ FlagsOK'
    BY <1>2, Parts DEF PipelineTakes, PipelineExits, LoopOK, DetectionOK, AgesOK, FlagsOK
  <2> QED
    BY <2>1, <2>2, Parts
<1>3. CASE GameMoves
  <2>1. LoopOK'
    BY <1>3, Parts, CaptureAssumption DEF GameMoves, LoopOK
  <2>2. DetectionOK' /\ AgesOK' /\ FlagsOK' /\ ChannelOK'
    BY <1>3, Parts DEF GameMoves, DetectionOK, AgesOK, FlagsOK, ChannelOK
  <2> QED
    BY <2>1, <2>2, Parts
<1>4. CASE UNCHANGED vars
  BY <1>4, Parts DEF vars, LoopOK, DetectionOK, AgesOK, FlagsOK, ChannelOK
<1> QED
  BY <1>1, <1>2, <1>3, <1>4

(* The shape of the capture's state: counts and ages within their limits,  *)
(* the queue within its capacity.                                          *)
THEOREM TypeCorrect == Spec => []TypeOK
<1>1. Init => TypeInv
  <2>1. ForgottenDetector \in Detector
    BY DEF ForgottenDetector, Detector
  <2>2. ASSUME Games \in Seq(Conns), Games # <<>> PROVE 1 \in DOMAIN Games
    BY <2>2
  <2>3. ASSUME Init PROVE /\ queue \in Seq(Conns \cup {Changed}) /\ Len(queue) <= Capacity
                          /\ interval \in Initial .. MaxInterval /\ errors \in 0 .. MaxErrors /\ errors < MaxErrors
                          /\ silent_for \in 0 .. StallAfter /\ now_age \in 0 .. StallAfter
    BY <2>3, CaptureAssumption DEF Init
  <2> SUFFICES ASSUME Init PROVE TypeInv
    OBVIOUS
  <2> QED
    BY <2>1, <2>2, <2>3, CaptureAssumption DEF Init, TypeInv, TypeOK
<1>2. TypeInv /\ [Next]_vars => TypeInv'
  <2> SUFFICES ASSUME TypeInv, [Next]_vars PROVE TypeInv'
    OBVIOUS
  <2>1. CASE AnyPacket
    <3>1. game \in DOMAIN Games => Live \in Conns
      BY CaptureAssumption DEF Live
    <3>2. \A found \in Answers : found \in SUBSET {OwnerOf[c] : c \in Conns}
      BY <3>1 DEF Answers, TypeInv, TypeOK
    <3> QED
      BY <2>1, <3>2, RecvTypes DEF AnyPacket
  <2>2. CASE LoopTop \/ LoopExit \/ TakeRestart \/ RecvError \/ Announce \/ AnnounceFails \/ SendDone
    BY <2>2, LoopTypes
  <2>3. CASE Push \/ SendEvent
    BY <2>3, PushTypes, SendEventTypes
  <2>4. CASE \/ Wake \/ AskRestart \/ WatchdogEnds \/ UserRestart \/ Stop
             \/ PipelineTakes \/ PipelineExits \/ GameMoves \/ Tick \/ UNCHANGED vars
    BY <2>4, OtherTypes, TickTypes
  <2> QED
    BY <2>1, <2>2, <2>3, <2>4 DEF Next
<1>3. TypeInv => TypeOK
  BY DEF TypeInv
<1> QED
  BY <1>1, <1>2, <1>3, PTL DEF Spec
=============================================================================
