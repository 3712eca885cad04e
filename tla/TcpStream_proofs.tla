-------------------------- MODULE TcpStream_proofs --------------------------
(***************************************************************************)
(* The promises of TcpReassembler, for every sequence space, stream, cap   *)
(* and threshold.                                                          *)
(*                                                                         *)
(* First the stall guard.  What the stream loops (drain, reconcile, evict) *)
(* do to the bytes is never used there: the guard's promises follow from   *)
(* the order in which push looks at progress, counts and trips.            *)
(*                                                                         *)
(* Then the stream: the state keeps its types, no break between delivered  *)
(* bytes goes unreported, chunks taken after each push are whole, a gap    *)
(* that is waited on is really a gap, the cache is paid for to the byte,   *)
(* and the reassembler implements OrderedStream. All of that follows from  *)
(* one inductive invariant, StreamInv: the bytes in hand end where the     *)
(* stream goes on, wherever the last loss or adoption left it.             *)
(***************************************************************************)
EXTENDS TcpLoops_proofs

(* The inductive invariant of the guard: StallBounded with the ranges the  *)
(* threshold and its doubling need, and with the clock of the time budget. *)
GuardInv ==
  /\ stall_pushes \in Nat
  /\ stall_backoff \in Nat \ {0}
  /\ stall_backoff <= MaxBackoff
  /\ stalled_for \in Nat \cup {NONE}
  /\ stall_pushes > 0 => stalled_for # NONE
  /\ StallBounded

(* A trip threshold is at least one push.                                  *)
LEMMA ThresholdPositive ==
  ASSUME NEW b \in Nat \ {0}
  PROVE  MaxStallPushes * b \in Nat /\ MaxStallPushes * b > 0
BY LimitsAssumption

(* A new guard has counted nothing.                                        *)
LEMMA GuardInit == Init => GuardInv
<1> SUFFICES ASSUME Init PROVE GuardInv
  OBVIOUS
<1>1. Threshold > 0
  BY ThresholdPositive DEF Init, Threshold
<1> QED
  BY <1>1, LimitsAssumption DEF Init, GuardInv, StallBounded

(* A push that made progress restarts the count. *)
LEMMA ProgressKeepsGuard ==
  ASSUME GuardInv, NEW s, Progress(s)
  PROVE  GuardInv'
<1>1. stall_backoff' \in Nat \ {0} /\ stall_backoff' <= MaxBackoff
  BY LimitsAssumption DEF GuardInv, Progress
<1>2. Threshold' > 0
  BY <1>1, ThresholdPositive DEF Threshold
<1>3. stall_pushes' = 0 /\ stalled_for' \in Nat \cup {NONE}
  BY DEF Progress, Clock, NONE
<1> QED
  BY <1>1, <1>2, <1>3 DEF GuardInv, StallBounded

(* A push that waits stays below the threshold, with the clock running. *)
LEMMA WaitKeepsGuard ==
  ASSUME GuardInv, NEW s, Wait(s)
  PROVE  GuardInv'
<1>1. stall_backoff' = stall_backoff /\ Threshold' = Threshold
  BY DEF Wait, Threshold
<1>2. Threshold \in Nat
  BY ThresholdPositive DEF GuardInv, Threshold
<1>3. stall_pushes' < Threshold
  BY <1>2 DEF Wait, Trips, GuardInv
<1>4. stalled_for' \in Nat /\ stalled_for' # NONE
  BY DEF Wait, StalledFor, GuardInv, NONE
<1> QED
  BY <1>1, <1>3, <1>4 DEF GuardInv, StallBounded, Wait

(* A trip doubles the backoff within its cap and restarts the count. *)
LEMMA TripKeepsGuard ==
  ASSUME GuardInv, NEW s, NEW seq, NEW payload, Trip(s, seq, payload)
  PROVE  GuardInv'
<1>1. stall_backoff' \in Nat \ {0} /\ stall_backoff' <= MaxBackoff
  BY LimitsAssumption DEF GuardInv, Trip, Doubled
<1>2. Threshold' > 0
  BY <1>1, ThresholdPositive DEF Threshold
<1>3. stall_pushes' = 0 /\ stalled_for' \in Nat \cup {NONE}
  BY DEF Trip, Clock, NONE
<1> QED
  BY <1>1, <1>2, <1>3 DEF GuardInv, StallBounded

(* A step that leaves the guard alone keeps its invariant.                 *)
LEMMA GuardUnchanged ==
  ASSUME GuardInv, UNCHANGED guard
  PROVE  GuardInv'
BY DEF GuardInv, StallBounded, Threshold, guard

(* A push makes progress, waits, trips or leaves the guard alone.          *)
LEMMA PushKeepsGuard ==
  ASSUME GuardInv, NEW seq, NEW payload, Push(seq, payload)
  PROVE  GuardInv'
<1>1. PICK s : \/ Progress(s)
               \/ Wait(s)
               \/ Trip(s, seq, payload)
               \/ UNCHANGED guard
  BY DEF Push
<1> QED
  BY <1>1, ProgressKeepsGuard, WaitKeepsGuard, TripKeepsGuard, GuardUnchanged

(* resync starts the guard over.                                           *)
LEMMA ResyncKeepsGuard ==
  ASSUME GuardInv, NEW seq, Resync(seq)
  PROVE  GuardInv'
<1>1. Threshold' > 0
  BY ThresholdPositive DEF Resync, Threshold
<1> QED
  BY <1>1, LimitsAssumption DEF Resync, GuardInv, StallBounded

(* Every step keeps the guard.                                             *)
LEMMA GuardStep == GuardInv /\ [Next]_vars => GuardInv'
<1> SUFFICES ASSUME GuardInv, [Next]_vars PROVE GuardInv'
  OBVIOUS
<1>1. CASE Arrive
  BY <1>1, PushKeepsGuard DEF Arrive
<1>2. CASE Adopt
  BY <1>2, ResyncKeepsGuard DEF Adopt
<1>3. CASE Take
  BY <1>3, GuardUnchanged DEF Take
<1>4. CASE Reconnect
  BY <1>4, GuardUnchanged DEF Reconnect
<1>5. CASE Tick
  <2>1. stalled_for' \in Nat /\ stalled_for' # NONE
    BY <1>5 DEF Tick, GuardInv, NONE
  <2>2. Threshold' = Threshold
    BY <1>5 DEF Tick, Threshold
  <2> QED
    BY <1>5, <2>1, <2>2 DEF Tick, GuardInv, StallBounded
<1>6. CASE UNCHANGED vars
  BY <1>6, GuardUnchanged DEF vars, guard
<1> QED
  BY <1>1, <1>2, <1>3, <1>4, <1>5, <1>6 DEF Next

(* The clock of a gap stops counting at the first tick over the budget.      *)
ClockInRange == stalled_for \in 0 .. TimeBudget + 1 \cup {NONE}

(* A new reassembler times nothing.                                        *)
LEMMA ClockInit == Init => ClockInRange
BY DEF Init, ClockInRange

(* A push stops the clock, starts it at zero or leaves it running.         *)
LEMMA PushKeepsClock ==
  ASSUME ClockInRange, NEW seq, NEW payload, Push(seq, payload)
  PROVE  ClockInRange'
<1>1. StalledFor \in 0 .. TimeBudget + 1
  BY LimitsAssumption DEF ClockInRange, StalledFor, NONE
<1>2. \A s : Clock(s) \in 0 .. TimeBudget + 1 \cup {NONE}
  BY LimitsAssumption DEF Clock
<1>3. \/ \E s : stalled_for' = Clock(s)
      \/ stalled_for' = StalledFor
      \/ stalled_for' = stalled_for
  BY DEF Push, Progress, Wait, Trip, guard
<1> QED
  BY <1>1, <1>2, <1>3 DEF ClockInRange

(* Every step keeps the clock in range.                                    *)
LEMMA ClockStep == ClockInRange /\ [Next]_vars => ClockInRange'
<1> SUFFICES ASSUME ClockInRange, [Next]_vars PROVE ClockInRange'
  OBVIOUS
<1>1. CASE Arrive
  BY <1>1, PushKeepsClock DEF Arrive
<1>2. CASE Tick
  BY <1>2, LimitsAssumption DEF Tick, ClockInRange, NONE
<1>3. CASE Adopt
  BY <1>3 DEF Adopt, Resync, ClockInRange
<1>4. CASE UNCHANGED guard
  BY <1>4 DEF guard, ClockInRange
<1> QED
  BY <1>1, <1>2, <1>3, <1>4 DEF Next, Take, Reconnect, vars

(* Whatever arrives, the guard never counts past its threshold: no gap is   *)
(* waited on longer than MaxStallPushes times the backoff earned, and the   *)
(* backoff is never above its cap (tcp.rs, the trip test and the doubling). *)
THEOREM StallNeverExceedsThreshold == Spec => []StallBounded
<1>1. Spec => []GuardInv
  BY GuardInit, GuardStep, PTL DEF Spec
<1>2. GuardInv => StallBounded
  BY DEF GuardInv
<1> QED
  BY <1>1, <1>2, PTL

(* While the guard counts pushes, the clock of the time budget runs: a gap  *)
(* that is being waited on is always timed, so the budget can end it.       *)
GapIsTimed == stall_pushes > 0 => stalled_for # NONE

(* Whatever arrives, a gap that is being waited on is timed (tcp.rs, the   *)
(* stall clock set with the first push that counts).                       *)
THEOREM CountingIsTimed == Spec => []GapIsTimed
<1>1. Spec => []GuardInv
  BY GuardInit, GuardStep, PTL DEF Spec
<1>2. GuardInv => GapIsTimed
  BY DEF GuardInv, GapIsTimed
<1> QED
  BY <1>1, <1>2, PTL

---------------------------------------------------------------------------
(* Only a number itself is at distance zero.                               *)
LEMMA SameSeq ==
  ASSUME NEW k \in SeqNum, NEW n \in SeqNum
  PROVE  Signed(k, n) = 0 <=> k = n
<1>1. k - n \in Int /\ k - n > -Mod /\ k - n < Mod
  BY HalfSpace DEF SeqNum
<1>2. Ahead(k, n) = IF k >= n THEN k - n ELSE k - n + Mod
  BY <1>1, WrapOf, HalfSpace DEF Ahead, SeqNum
<1>3. Signed(k, n) = 0 => Ahead(k, n) = 0
  BY <1>1, <1>2, HalfSpace DEF Signed, SeqNum
<1>4. Ahead(k, n) = 0 => Signed(k, n) = 0
  BY HalfSpace DEF Signed
<1>5. Ahead(k, n) = 0 <=> k = n
  BY <1>1, <1>2, HalfSpace DEF SeqNum
<1> QED
  BY <1>3, <1>4, <1>5

(* What the caller is owed of stream s once it has taken byte l. *)
NoBreak(s, l) ==
  ~ s.loss => Contiguous(s.buffer) /\ (l # NONE /\ s.buffer # <<>> => s.buffer[1] = l + 1)
Resumes(s, l) == s.buffer = <<>> /\ ~ s.loss /\ l # NONE => EndsAt(l, s.next)
Sound(s, l) == Settled(s) /\ Tied(s) /\ NoBreak(s, l) /\ Resumes(s, l)

(* A stream that goes on from a sound one is sound: nothing it adds leaves *)
(* a break behind what the caller took.                                    *)
LEMMA ExtendsSound ==
  ASSUME NEW r, NEW s, NEW l, Sound(r, l), Settled(s), Extends(r, s)
  PROVE  Sound(s, l)
<1>1. PICK e \in Connections, p \in Places, q \in Places : GoesOn(r, s, e, p, q)
  BY DEF Extends
<1>2. r \in Streams /\ s \in Streams /\ r.buffer \in Seq(Int) /\ s.buffer \in Seq(Int)
  BY DEF Sound, Settled, Streams
<1>3. ASSUME ~ s.loss
      PROVE  /\ ~ r.loss /\ Appends(r.buffer, s.buffer, e, p, q)
             /\ Len(s.buffer) = Len(r.buffer) + (q - p) /\ p <= q
  BY <1>1, <1>3 DEF GoesOn, Appends
<1>4. Tied(s)
  BY ExtendsTied DEF Sound
<1>5. Resumes(s, l)
  <2> SUFFICES ASSUME s.buffer = <<>>, ~ s.loss, l # NONE PROVE EndsAt(l, s.next)
    BY DEF Resumes
  <2>1. p = q /\ r.buffer = <<>>
    <3>1. Len(s.buffer) = 0 /\ Len(r.buffer) \in Nat
      BY <1>2
    <3>2. p = q
      BY <3>1, <1>3 DEF Places
    <3> QED
      BY <3>2, <1>1 DEF GoesOn
  <2>2. s.next = r.next
    BY <2>1, <1>1 DEF GoesOn
  <2> QED
    BY <1>3, <2>1, <2>2 DEF Sound, Resumes
<1>6. NoBreak(s, l)
  <2> SUFFICES ASSUME ~ s.loss
               PROVE  Contiguous(s.buffer) /\ (l # NONE /\ s.buffer # <<>> => s.buffer[1] = l + 1)
    BY DEF NoBreak
  <2>1. Contiguous(s.buffer)
    BY <1>1, <1>3 DEF Sound, NoBreak, GoesOn
  <2>2. ASSUME l # NONE, s.buffer # <<>> PROVE s.buffer[1] = l + 1
    <3>1. CASE r.buffer # <<>>
      <4>1. 1 \in 1 .. Len(r.buffer)
        BY <1>2, <3>1
      <4>2. s.buffer[1] = r.buffer[1]
        BY <1>3, <4>1 DEF Appends
      <4> QED
        BY <1>3, <2>2, <3>1, <4>2 DEF Sound, NoBreak
    <3>2. CASE r.buffer = <<>>
      <4>1. Len(r.buffer) = 0 /\ Len(s.buffer) > 0
        BY <1>2, <2>2, <3>2
      <4>2. 1 \in 1 .. q - p
        BY <1>3, <4>1 DEF Places
      <4>3. s.buffer[0 + 1] = Byte(e, p + 1 - 1)
        BY <1>3, <4>1, <4>2 DEF Appends
      <4>4. PICK f \in Connections, x \in Places : x > 0 /\ r.next = Seq32(f, x) /\ l = Byte(f, x - 1)
        BY <1>3, <2>2, <3>2 DEF Sound, Resumes, EndsAt
      <4>5. Seq32(f, x) = Seq32(e, p)
        BY <1>1, <4>4 DEF GoesOn
      <4>6. f = e /\ x = p
        BY <4>5, PlaceIsUnique
      <4>7. p - 1 \in Int /\ (p - 1) + 1 = p /\ p + 1 - 1 = p
        BY DEF Places
      <4>8. Byte(e, p) = l + 1
        BY <4>4, <4>6, <4>7, NextByte
      <4> QED
        BY <4>3, <4>7, <4>8
    <3> QED
      BY <3>1, <3>2
  <2> QED
    BY <2>1, <2>2
<1> QED
  BY <1>4, <1>5, <1>6 DEF Sound

(* A gap given up on: the stream goes on at the nearest cached segment. *)
LEMMA ResyncSound ==
  ASSUME NEW s, Settled(s), s.cache # <<>>, NEW l
  PROVE  LET t == ResyncToCached(s, Nearest(s.cache, s.next))
         IN /\ Sound(t, l) /\ t.loss /\ t.cost <= s.cost
            /\ s.buffer = <<>> => Contiguous(t.buffer)
<1> DEFINE k == Nearest(s.cache, s.next)
           r == [s EXCEPT !.next = k, !.loss = TRUE]
           t == DrainContiguous(r)
<1>1. s \in Streams /\ s.cache \in Caches /\ s.next \in SeqNum /\ s.buffer \in Seq(Int)
  BY DEF Settled, Streams
<1>2. k \in DOMAIN s.cache
  BY <1>1, ExtremesAreCached
<1>3. ResyncToCached(s, k) = t
  BY DEF ResyncToCached
<1> HIDE DEF k
<1>4. k \in SeqNum
  BY <1>1, <1>2, CachesFinite
<1>5. /\ r \in Streams /\ r.cache = s.cache /\ r.next = k
      /\ r.buffer = s.buffer /\ r.loss = TRUE /\ r.cost = s.cost
  BY <1>1, <1>4 DEF Streams
<1> HIDE DEF r
<1>6. WellHeld(r) /\ OnPlace(r)
  <2>1. Placed(k, s.cache[k])
    BY <1>2 DEF Settled, WellHeld
  <2> QED
    BY <1>5, <2>1 DEF Settled, WellHeld, Placed, OnPlace
<1>7. From(r, t) /\ t.next \notin DOMAIN t.cache /\ (t.next = r.next => t = r)
  BY <1>5, <1>6, DrainFrom
<1> HIDE DEF t
<1>8. t.next # r.next
  BY <1>2, <1>5, <1>7
<1>9. Tied(t)
  BY <1>7, <1>8, MovedOnTied DEF From
<1>10. Settled(t)
  BY <1>7, ExtendsOnPlace DEF Settled, From
<1>11. t.loss /\ t.cost <= s.cost
  BY <1>5, <1>7 DEF From, Extends, GoesOn
<1>12. ASSUME s.buffer = <<>> PROVE Contiguous(t.buffer)
  <2>1. Tied(r) /\ Contiguous(r.buffer)
    BY <1>5, <1>12 DEF Tied, Contiguous
  <2> QED
    BY <1>7, <2>1 DEF From, Extends, GoesOn
<1>13. Sound(t, l)
  BY <1>9, <1>10, <1>11 DEF Sound, NoBreak, Resumes
<1> QED
  BY <1>3, <1>11, <1>12, <1>13 DEF k

(* An empty buffer keeps to its cap.                                       *)
LEMMA EmptyBuffer == BufferSound(<<>>)
BY StreamsAssumption DEF BufferSound

(* A stream the peer re-anchored: it starts over at the segment in hand. *)
LEMMA ReAnchorSound ==
  ASSUME NEW s, NEW data, NEW e \in Connections, NEW p \in Places, Stretch(data, e, p), NEW l
  PROVE  LET t == ReAnchor(s, Seq32(e, p), data)
         IN Sound(t, l) /\ t.loss /\ t.cost <= 0 /\ Contiguous(t.buffer)
<1> DEFINE k == Seq32(e, p)
           clean == [cache |-> <<>>, cost |-> 0, next |-> k, buffer |-> <<>>, loss |-> FALSE]
           a == AdvanceWith(clean, data)
           t == [a EXCEPT !.loss = TRUE]
<1>1. k \in SeqNum
  BY SeqOfPlace
<1>2. <<>> \in Caches
  BY EmptyIsCache
<1>3. /\ clean \in Streams /\ clean.next = Seq32(e, p) /\ clean.buffer = <<>>
      /\ DOMAIN clean.cache = {} /\ clean.cache = <<>> /\ clean.cost = 0
  BY <1>1, <1>2 DEF Streams
<1>4. ReAnchor(s, Seq32(e, p), data) = t
  BY DEF ReAnchor
<1> HIDE DEF clean
<1>5. WellHeld(clean) /\ Tied(clean) /\ Contiguous(clean.buffer)
  BY <1>3, CostOfEmpty, EmptyBuffer DEF WellHeld, Tied, Contiguous
<1>6. From(clean, a) /\ a.next # clean.next /\ a.next \notin DOMAIN a.cache
  BY <1>3, <1>5, AdvanceFrom
<1> HIDE DEF a
<1>7. /\ a \in Streams /\ Tied(a) /\ Contiguous(a.buffer) /\ WellHeld(a) /\ OnPlace(a)
      /\ a.cost <= 0
  <2>1. Contiguous(a.buffer)
    BY <1>5, <1>6 DEF From, Extends, GoesOn
  <2> QED
    BY <1>3, <1>6, <2>1, MovedOnTied, ExtendsOnPlace DEF From
<1>8. /\ t \in Streams /\ t.cache = a.cache /\ t.cost = a.cost /\ t.next = a.next
      /\ t.buffer = a.buffer /\ t.loss = TRUE
  BY <1>7 DEF Streams
<1> HIDE DEF t
<1>9. Settled(t) /\ Tied(t) /\ Contiguous(t.buffer)
  BY <1>6, <1>7, <1>8 DEF Settled, Tied, WellHeld, OnPlace
<1> QED
  BY <1>4, <1>7, <1>8, <1>9 DEF Sound, NoBreak, Resumes

(* The inductive invariant: between two steps the stream is sound, and a    *)
(* cache that is being waited on holds only what lies ahead.                *)
StreamInv ==
  /\ epoch \in Connections
  /\ stall_pushes \in Nat
  /\ IF next_seq = NONE
     THEN cache = <<>> /\ cache_cost = 0 /\ buffer = <<>> /\ loss = FALSE /\ last = NONE /\ stall_pushes = 0
     ELSE Sound(Stream, last)
  /\ cache_cost <= MaxCache
  /\ last \in Bytes \cup {NONE}
  /\ batched \in BOOLEAN
  /\ stall_pushes > 0 => Stale(Stream) = {}
  /\ ~ batched => Contiguous(buffer)

(* NONE is no sequence number.                                             *)
LEMMA NoneIsNoSeq == NONE \notin SeqNum
BY DEF NONE, SeqNum

(* The payload of Arrive is a stretch of the current connection.           *)
LEMMA SequenceOfPieces ==
  ASSUME NEW p \in Places, NEW n \in Nat \ {0}, p + n <= StreamLen, NEW e \in Connections
  PROVE  Stretch([i \in 1 .. n |-> Byte(e, p + i - 1)], e, p)
<1> DEFINE d == [i \in 1 .. n |-> Byte(e, p + i - 1)]
<1>1. \A i \in 1 .. n : Byte(e, p + i - 1) \in Int
  <2>1. ASSUME NEW i \in 1 .. n PROVE Byte(e, p + i - 1) \in Int
    <3>1. p + i - 1 \in Int
      BY DEF Places
    <3> QED
      BY <3>1, NextByte
  <2> QED
    BY <2>1
<1>2. d \in Seq(Int) /\ Len(d) = n
  BY <1>1
<1>3. \A i \in 1 .. Len(d) : d[i] = Byte(e, p + i - 1)
  BY <1>2
<1> HIDE DEF d
<1>4. d # <<>>
  BY <1>2
<1> QED
  BY <1>2, <1>3, <1>4 DEF Stretch, d

(* The stream a push works on. *)
LEMMA BeforePush ==
  ASSUME StreamInv, NEW p \in Places
  PROVE  LET k == Seq32(epoch, p)
             s == [Stream EXCEPT !.next = IF next_seq = NONE THEN k ELSE next_seq]
         IN /\ Sound(s, last)
            /\ s.buffer = buffer /\ s.loss = loss
            /\ s.next = IF next_seq = NONE THEN k ELSE next_seq
<1> DEFINE k == Seq32(epoch, p)
           s == [Stream EXCEPT !.next = IF next_seq = NONE THEN k ELSE next_seq]
<1>1. epoch \in Connections /\ k \in SeqNum
  BY SeqOfPlace DEF StreamInv
<1>2. /\ s.cache = cache /\ s.cost = cache_cost /\ s.buffer = buffer /\ s.loss = loss
      /\ s.next = IF next_seq = NONE THEN k ELSE next_seq
      /\ s = [cache |-> cache, cost |-> cache_cost, next |-> IF next_seq = NONE THEN k ELSE next_seq,
              buffer |-> buffer, loss |-> loss]
  BY DEF Stream
<1>3. CASE next_seq # NONE
  <2>1. s = Stream
    BY <1>2, <1>3 DEF Stream
  <2> HIDE DEF s
  <2> QED
    BY <1>2, <1>3, <2>1 DEF StreamInv
<1>4. CASE next_seq = NONE
  <2> HIDE DEF k
  <2>1. cache = <<>> /\ cache_cost = 0 /\ buffer = <<>> /\ loss = FALSE /\ last = NONE
    BY <1>4 DEF StreamInv
  <2>2. <<>> \in Caches /\ <<>> \in Seq(Int)
    BY EmptyIsCache
  <2>3. s \in Streams /\ s.next = k /\ DOMAIN s.cache = {}
    <3>1. s = [cache |-> <<>>, cost |-> 0, next |-> k, buffer |-> <<>>, loss |-> FALSE]
      BY <1>2, <1>4, <2>1
    <3> HIDE DEF s
    <3> QED
      BY <1>1, <2>2, <3>1 DEF Streams
  <2> HIDE DEF s
  <2>4. OnPlace(s)
    BY <1>1, <2>3 DEF OnPlace, k
  <2>5. Settled(s) /\ Tied(s)
    BY <1>2, <2>1, <2>3, <2>4, CostOfEmpty, EmptyBuffer DEF Settled, WellHeld, Tied
  <2>6. NoBreak(s, last) /\ Resumes(s, last)
    BY <1>2, <2>1 DEF NoBreak, Resumes, Contiguous
  <2> QED
    BY <1>2, <2>5, <2>6 DEF Sound, k, s
<1> QED
  BY <1>2, <1>3, <1>4

(* SetStream sets the whole of the stream half.                            *)
LEMMA SetStreamIsStream ==
  ASSUME NEW s \in Streams, SetStream(s)
  PROVE  Stream' = s
BY DEF SetStream, Stream, Streams

(* One push: the stream stays sound, grows from what it was or is announced *)
(* as broken, and the bytes put into an empty buffer are one stretch.       *)
LEMMA PushSound ==
  ASSUME StreamInv, NEW p \in Places, NEW n \in Nat \ {0}, p + n <= StreamLen,
         Push(Seq32(epoch, p), [i \in 1 .. n |-> Byte(epoch, p + i - 1)])
  PROVE  /\ Sound(Stream, last)' /\ next_seq' # NONE
         /\ UNCHANGED <<last, epoch>>
         /\ stall_pushes' \in Nat /\ cache_cost' <= MaxCache
         /\ stall_pushes' > 0 => Stale(Stream') = {}
         /\ ~ loss' => ~ loss
                /\ \E e \in Connections, x \in Places, y \in Places :
                     x <= y /\ Appends(buffer, buffer', e, x, y)
         /\ ~ loss /\ buffer = <<>> => Contiguous(buffer')
<1> DEFINE k == Seq32(epoch, p)
           data == [i \in 1 .. n |-> Byte(epoch, p + i - 1)]
           before == IF next_seq = NONE THEN k ELSE next_seq
           r == [Stream EXCEPT !.next = before]
           s == Receive(r, k, data)
<1>1. epoch \in Connections /\ stall_pushes \in Nat /\ Stretch(data, epoch, p)
  BY SequenceOfPieces DEF StreamInv
<1>2. Sound(r, last) /\ r.buffer = buffer /\ r.loss = loss /\ r.next = before
  BY BeforePush
<1>3. /\ UNCHANGED <<epoch, last>>
      /\ \/ s.next # before /\ Progress(s)
         \/ s.next = before /\ Wait(s)
         \/ s.next = before /\ Trip(s, k, data)
         \/ s.next = before /\ s.cache = <<>> /\ SetStream(s) /\ UNCHANGED guard
  BY DEF Push
<1> HIDE DEF r, data, before
<1>4. Settled(s) /\ Extends(r, s) /\ Stale(s) = {} /\ s.cost <= MaxCache
  BY <1>1, <1>2, ReceiveExtends DEF Sound
<1> HIDE DEF s
<1>5. Sound(s, last) /\ s \in Streams /\ s.next # NONE
  BY <1>2, <1>4, ExtendsSound, NoneIsNoSeq DEF Settled, Streams
<1>6. /\ ~ s.loss => ~ loss
             /\ \E e \in Connections, x \in Places, y \in Places :
                  x <= y /\ Appends(buffer, s.buffer, e, x, y)
      /\ ~ loss /\ buffer = <<>> => Contiguous(s.buffer)
      /\ s.next = before => s.buffer = buffer /\ s.loss = loss
  <2>1. PICK e \in Connections, x \in Places, y \in Places : GoesOn(r, s, e, x, y)
    BY <1>4 DEF Extends
  <2>2. ~ s.loss => ~ loss /\ x <= y /\ Appends(buffer, s.buffer, e, x, y)
    BY <1>2, <2>1 DEF GoesOn
  <2>3. buffer = <<>> => Contiguous(s.buffer)
    <3>1. buffer = <<>> => Tied(r) /\ Contiguous(r.buffer)
      BY <1>2 DEF Tied, Contiguous
    <3> QED
      BY <2>1, <3>1 DEF GoesOn
  <2>4. s.next = before => s.buffer = buffer /\ s.loss = loss
    <3> SUFFICES ASSUME s.next = before PROVE s.buffer = buffer /\ s.loss = loss
      OBVIOUS
    <3>1. Seq32(e, x) = Seq32(e, y)
      BY <1>2, <2>1 DEF GoesOn
    <3>2. x = y
      BY <3>1, PlaceIsUnique
    <3> QED
      BY <1>2, <2>1, <3>2 DEF GoesOn
  <2> QED
    BY <2>2, <2>3, <2>4
<1> DEFINE Kept == /\ Sound(Stream, last)' /\ next_seq' # NONE /\ cache_cost' <= MaxCache
                   /\ ~ loss' => ~ loss
                          /\ \E e \in Connections, x \in Places, y \in Places :
                               x <= y /\ Appends(buffer, buffer', e, x, y)
                   /\ ~ loss /\ buffer = <<>> => Contiguous(buffer')
<1>7. ASSUME SetStream(s) PROVE Kept /\ Stale(Stream') = {}
  <2>1. Stream' = s
    BY <1>5, <1>7, SetStreamIsStream
  <2>2. next_seq' = s.next /\ buffer' = s.buffer /\ loss' = s.loss /\ cache_cost' = s.cost
    BY <1>7 DEF SetStream
  <2>3. Sound(Stream', last')
    BY <1>3, <1>5, <2>1
  <2> QED
    BY <1>4, <1>5, <1>6, <2>1, <2>2, <2>3
<1>8. CASE s.next # before /\ Progress(s)
  <2>1. SetStream(s) /\ stall_pushes' = 0
    BY <1>8 DEF Progress
  <2> QED
    BY <1>3, <1>7, <2>1
<1>9. CASE s.next = before /\ Wait(s)
  <2>1. SetStream(s) /\ stall_pushes' = stall_pushes + 1
    BY <1>9 DEF Wait
  <2> QED
    BY <1>1, <1>3, <1>7, <2>1
<1>10. CASE s.next = before /\ s.cache = <<>> /\ SetStream(s) /\ UNCHANGED guard
  <2>1. stall_pushes' = stall_pushes
    BY <1>10 DEF guard
  <2> QED
    BY <1>1, <1>3, <1>7, <1>10, <2>1
<1>11. CASE s.next = before /\ Trip(s, k, data)
  <2>1. PICK t : /\ t = IF s.cache # <<>>
                        THEN ResyncToCached(s, Nearest(s.cache, s.next))
                        ELSE ReAnchor(s, k, data)
                 /\ SetStream(t) /\ stall_pushes' = 0
    BY <1>11 DEF Trip
  <2>2. s.buffer = buffer
    BY <1>6, <1>11
  <2>3. Sound(t, last) /\ t.loss /\ t.cost <= MaxCache /\ (buffer = <<>> => Contiguous(t.buffer))
    <3>0. s.cost \in Int /\ MaxCache \in Nat
      BY <1>5, StreamsAssumption DEF Streams
    <3>1. CASE s.cache # <<>>
      <4>1. Sound(t, last) /\ t.loss /\ t.cost <= s.cost /\ (s.buffer = <<>> => Contiguous(t.buffer))
        BY <1>4, <2>1, <3>1, ResyncSound
      <4>2. t.cost \in Int
        BY <4>1 DEF Sound, Settled, Streams
      <4> QED
        BY <1>4, <2>2, <3>0, <4>1, <4>2
    <3>2. CASE s.cache = <<>>
      <4>1. Sound(t, last) /\ t.loss /\ t.cost <= 0 /\ Contiguous(t.buffer)
        BY <1>1, <2>1, <3>2, ReAnchorSound
      <4>2. t.cost \in Int
        BY <4>1 DEF Sound, Settled, Streams
      <4> QED
        BY <3>0, <4>1, <4>2
    <3> QED
      BY <3>1, <3>2
  <2>4. t \in Streams /\ t.next # NONE
    BY <2>3, NoneIsNoSeq DEF Sound, Settled, Streams
  <2>5. /\ Stream' = t /\ next_seq' = t.next /\ buffer' = t.buffer /\ loss' = t.loss
        /\ cache_cost' = t.cost
    BY <2>1, <2>4, SetStreamIsStream DEF SetStream
  <2>6. Sound(Stream', last')
    BY <1>3, <2>3, <2>5
  <2>7. Kept
    BY <2>3, <2>4, <2>5, <2>6
  <2> QED
    BY <1>3, <2>1, <2>7
<1> QED
  BY <1>3, <1>8, <1>9, <1>10, <1>11

(* A new reassembler is sound.                                             *)
LEMMA StreamInit == Init => StreamInv
<1> SUFFICES ASSUME Init PROVE StreamInv
  OBVIOUS
<1>1. epoch \in Connections
  BY StreamsAssumption DEF Init, Connections
<1>2. Contiguous(buffer)
  BY DEF Init, Contiguous
<1>3. /\ next_seq = NONE /\ cache = <<>> /\ cache_cost = 0 /\ buffer = <<>> /\ loss = FALSE
      /\ last = NONE /\ stall_pushes = 0 /\ batched = FALSE
  BY DEF Init
<1>4. cache_cost <= MaxCache /\ stall_pushes \in Nat /\ ~ (stall_pushes > 0)
  BY <1>3, StreamsAssumption
<1>5. last \in Bytes \cup {NONE} /\ batched \in BOOLEAN
  BY <1>3
<1> QED
  BY <1>1, <1>2, <1>3, <1>4, <1>5 DEF StreamInv

(* A segment keeps the stream sound.                                       *)
LEMMA ArriveSound ==
  ASSUME StreamInv, Arrive
  PROVE  StreamInv'
<1>1. PICK p \in 0 .. StreamLen - 1, n \in 1 .. SegLen :
        /\ p + n <= StreamLen
        /\ Push(Seq32(epoch, p), [i \in 1 .. n |-> Byte(epoch, p + i - 1)])
  BY DEF Arrive
<1>2. p \in Places /\ n \in Nat \ {0}
  BY HalfSpace, SpaceAssumption DEF Places
<1>3. /\ Sound(Stream, last)' /\ next_seq' # NONE
      /\ UNCHANGED <<last, epoch>>
      /\ stall_pushes' \in Nat /\ cache_cost' <= MaxCache
      /\ stall_pushes' > 0 => Stale(Stream') = {}
      /\ ~ loss /\ buffer = <<>> => Contiguous(buffer')
  BY <1>1, <1>2, PushSound
<1>4. ~ batched' => Contiguous(buffer')
  BY <1>3 DEF Arrive
<1>5. epoch' \in Connections /\ last' \in Bytes \cup {NONE}
  BY <1>3 DEF StreamInv
<1>6. batched' \in BOOLEAN
  BY DEF Arrive
<1> QED
  BY <1>3, <1>4, <1>5, <1>6 DEF StreamInv

(* resync drops all there was and starts sound.                            *)
LEMMA AdoptSound ==
  ASSUME StreamInv, Adopt
  PROVE  StreamInv'
<1>1. PICK p \in 0 .. StreamLen - 1 : Resync(Seq32(epoch, p))
  BY DEF Adopt
<1> DEFINE k == Seq32(epoch, p)
<1>2. p \in Places /\ epoch \in Connections /\ k \in SeqNum
  BY HalfSpace, SeqOfPlace DEF Places, StreamInv
<1>3. /\ cache' = <<>> /\ cache_cost' = 0 /\ next_seq' = k /\ buffer' = <<>> /\ loss' = FALSE
      /\ last' = NONE /\ stall_pushes' = 0 /\ epoch' = epoch
  BY <1>1 DEF Resync
<1>4. Stream' = [cache |-> <<>>, cost |-> 0, next |-> k, buffer |-> <<>>, loss |-> FALSE]
  BY <1>3 DEF Stream
<1> DEFINE s == Stream'
<1>5. OnPlace(s)
  BY <1>2, <1>4 DEF OnPlace
<1> HIDE DEF k
<1>6. <<>> \in Seq(Int)
  OBVIOUS
<1>7. s \in Streams /\ DOMAIN s.cache = {} /\ s.cache = <<>> /\ s.cost = 0 /\ s.buffer = <<>>
  BY <1>2, <1>4, <1>6, EmptyIsCache DEF Streams
<1> HIDE DEF s
<1>8. Sound(s, NONE)
  BY <1>4, <1>5, <1>7, CostOfEmpty, EmptyBuffer DEF Sound, Settled, WellHeld, Tied, NoBreak, Resumes, Contiguous
<1>9. Sound(Stream, last)'
  BY <1>3, <1>8 DEF s
<1>10. Contiguous(buffer') /\ next_seq' # NONE
  BY <1>2, <1>3, NoneIsNoSeq DEF Contiguous
<1>11. last' \in Bytes \cup {NONE} /\ batched' \in BOOLEAN
  BY <1>1 DEF Resync
<1> QED
  BY <1>2, <1>3, <1>9, <1>10, <1>11, StreamsAssumption DEF StreamInv

(* take_loss and take_stream leave a stream that goes on after the byte    *)
(* they handed over.                                                       *)
LEMMA TakeSound ==
  ASSUME StreamInv, Take
  PROVE  StreamInv'
<1>1. /\ loss \/ buffer # <<>>
      /\ loss' = FALSE /\ buffer' = <<>>
      /\ last' = IF buffer # <<>> THEN buffer[Len(buffer)] ELSE IF loss THEN NONE ELSE last
      /\ UNCHANGED <<cache, cache_cost, next_seq, guard, epoch>>
  BY DEF Take
<1>2. next_seq # NONE /\ Sound(Stream, last)
  BY <1>1 DEF StreamInv
<1> DEFINE s == Stream
           t == Stream'
<1>3. /\ s.cache = cache /\ s.next = next_seq /\ s.buffer = buffer /\ s.loss = loss /\ s.cost = cache_cost
      /\ t = [cache |-> cache, cost |-> cache_cost, next |-> next_seq, buffer |-> <<>>, loss |-> FALSE]
  BY <1>1 DEF Stream
<1>4. <<>> \in Seq(Int) /\ s \in Streams
  BY <1>2 DEF Sound, Settled
<1> HIDE DEF s, t
<1>5. /\ t \in Streams /\ t.cache = s.cache /\ t.cost = s.cost /\ t.next = s.next
      /\ t.buffer = <<>> /\ t.loss = FALSE
  BY <1>3, <1>4 DEF Streams
<1>6. Settled(t)
  BY <1>2, <1>5, EmptyBuffer DEF Sound, Settled, WellHeld, OnPlace, s
<1>7. Tied(t) /\ NoBreak(t, last')
  BY <1>5 DEF Tied, NoBreak, Contiguous
<1>8. Resumes(t, last')
  <2> SUFFICES ASSUME last' # NONE PROVE EndsAt(last', t.next)
    BY DEF Resumes
  <2>1. buffer # <<>> /\ last' = buffer[Len(buffer)]
    BY <1>1
  <2> QED
    BY <1>2, <1>3, <1>5, <2>1 DEF Sound, Tied, s
<1>9. Sound(Stream, last)'
  BY <1>6, <1>7, <1>8 DEF Sound, t
<1>10. Stale(t) = Stale(s)
  BY <1>5 DEF Stale
<1>11. stall_pushes' = stall_pushes
  BY <1>1 DEF guard
<1>12. Contiguous(buffer')
  BY <1>1 DEF Contiguous
<1>13. last' \in Bytes \cup {NONE}
  <2>1. CASE buffer # <<>>
    <3>1. buffer \in Seq(Int) /\ \A i \in 1 .. Len(buffer) : buffer[i] \in Bytes
      BY <1>2, <1>3 DEF Sound, Settled, WellHeld, BufferSound, Streams, s
    <3>2. Len(buffer) \in 1 .. Len(buffer)
      BY <2>1, <3>1
    <3> QED
      BY <1>1, <2>1, <3>1, <3>2
  <2>2. CASE buffer = <<>>
    BY <1>1, <2>2
  <2> QED
    BY <2>1, <2>2
<1>14. batched' \in BOOLEAN
  BY DEF Take
<1> QED
  BY <1>1, <1>2, <1>9, <1>10, <1>11, <1>12, <1>13, <1>14 DEF StreamInv, s, t

(* A step that leaves the stream and the caller alone keeps it sound.      *)
LEMMA IdleSound ==
  ASSUME StreamInv, UNCHANGED <<stream, stall_pushes, caller>>, epoch' \in Connections
  PROVE  StreamInv'
<1>1. UNCHANGED <<cache, cache_cost, next_seq, buffer, loss, stall_pushes, last, batched>>
  BY DEF stream, caller
<1>2. Stream' = Stream
  BY <1>1 DEF Stream
<1> QED
  BY <1>1, <1>2 DEF StreamInv

(* Every step keeps the stream sound.                                      *)
LEMMA StreamStep == StreamInv /\ [Next]_vars => StreamInv'
<1> SUFFICES ASSUME StreamInv, [Next]_vars PROVE StreamInv'
  OBVIOUS
<1>1. CASE Arrive
  BY <1>1, ArriveSound
<1>2. CASE Adopt
  BY <1>2, AdoptSound
<1>3. CASE Take
  BY <1>3, TakeSound
<1>4. CASE Reconnect
  <2>1. epoch' \in Connections
    BY <1>4, StreamsAssumption DEF Reconnect, StreamInv, Connections
  <2>2. UNCHANGED <<stream, stall_pushes, caller>>
    BY <1>4 DEF Reconnect, guard
  <2> QED
    BY <2>1, <2>2, IdleSound
<1>5. CASE Tick
  BY <1>5, IdleSound DEF Tick, StreamInv
<1>6. CASE UNCHANGED vars
  BY <1>6, IdleSound DEF vars, guard, StreamInv
<1> QED
  BY <1>1, <1>2, <1>3, <1>4, <1>5, <1>6 DEF Next

(* The inductive invariant holds in every reachable state.                 *)
LEMMA StreamAlways == Spec => []StreamInv
<1> QED
  BY StreamInit, StreamStep, PTL DEF Spec

(* What the invariant promises the caller.                                 *)
LEMMA StreamPromises ==
  ASSUME StreamInv
  PROVE  NoSilentBreak /\ ChunkContiguous /\ StallIsGenuine /\ CacheAccounted
<1>1. ChunkContiguous
  BY DEF StreamInv, ChunkContiguous, Contiguous
<1>2. NoSilentBreak
  <2>1. CASE next_seq = NONE
    <3>1. buffer = <<>>
      BY <2>1 DEF StreamInv
    <3> QED
      BY <3>1 DEF NoSilentBreak
  <2>2. CASE next_seq # NONE
    <3>1. NoBreak(Stream, last) /\ Stream.loss = loss /\ Stream.buffer = buffer
      BY <2>2 DEF StreamInv, Sound, Stream
    <3> QED
      BY <3>1 DEF NoBreak, NoSilentBreak, Contiguous
  <2> QED
    BY <2>1, <2>2
<1>3. StallIsGenuine
  <2> SUFFICES ASSUME stall_pushes > 0, NEW k \in DOMAIN cache PROVE Signed(k, next_seq) > 0
    BY DEF StallIsGenuine
  <2> DEFINE s == Stream
  <2>1. s.cache = cache /\ s.next = next_seq
    BY DEF Stream
  <2>2. next_seq # NONE /\ Sound(s, last) /\ Stale(s) = {}
    BY DEF StreamInv
  <2> HIDE DEF s
  <2>3. s.cache \in Caches /\ next_seq \in SeqNum /\ k # next_seq /\ ~ (Signed(k, next_seq) < 0)
    BY <2>1, <2>2 DEF Sound, Settled, Streams, Stale
  <2>4. k \in SeqNum
    BY <2>1, <2>3, CachesFinite
  <2>5. Signed(k, next_seq) # 0
    BY <2>3, <2>4, SameSeq
  <2>6. Signed(k, next_seq) \in Int
    <3>1. k - next_seq \in Int
      BY <2>3, <2>4 DEF SeqNum
    <3>2. Ahead(k, next_seq) \in Int
      BY <3>1, WrapOf DEF Ahead, SeqNum
    <3> QED
      BY <3>2, HalfSpace DEF Signed
  <2> QED
    BY <2>3, <2>5, <2>6
<1>4. CacheAccounted
  <2>1. cache_cost = CostOf(cache)
    <3>1. CASE next_seq = NONE
      BY <3>1, CostOfEmpty DEF StreamInv
    <3>2. CASE next_seq # NONE
      <4>1. WellHeld(Stream) /\ Stream.cost = cache_cost /\ Stream.cache = cache
        BY <3>2 DEF StreamInv, Sound, Settled, Stream
      <4> QED
        BY <4>1 DEF WellHeld
    <3> QED
      BY <3>1, <3>2
  <2> QED
    BY <2>1 DEF StreamInv, CacheAccounted, CostOf
<1> QED
  BY <1>1, <1>2, <1>3, <1>4

(* Sent bytes, in a sequence.                                              *)
LEMMA BytesTyped ==
  ASSUME NEW b \in Seq(Int), \A i \in 1 .. Len(b) : b[i] \in Bytes
  PROVE  b \in Seq(Bytes)
<1>1. DOMAIN b = 1 .. Len(b) /\ b = [i \in 1 .. Len(b) |-> b[i]] /\ Len(b) \in Nat
  OBVIOUS
<1>2. b \in [1 .. Len(b) -> Bytes]
  BY <1>1
<1> QED
  BY <1>1, <1>2

(* A settled stream has the types of the state.                            *)
LEMMA HeldIsTyped ==
  ASSUME NEW s, Settled(s)
  PROVE  /\ s.next \in SeqNum
         /\ DOMAIN s.cache \subseteq SeqNum
         /\ \A k \in DOMAIN s.cache : s.cache[k] \in Seq(Bytes) /\ s.cache[k] # <<>>
         /\ s.cost \in Nat
         /\ s.buffer \in Seq(Bytes) /\ Len(s.buffer) <= MaxBuffer
         /\ s.loss \in BOOLEAN
<1>1. s \in Streams /\ WellHeld(s)
  BY DEF Settled
<1>2. s.next \in SeqNum /\ s.cache \in Caches /\ s.buffer \in Seq(Int) /\ s.loss \in BOOLEAN
  BY <1>1 DEF Streams
<1>3. s.cost \in Nat
  BY <1>1, <1>2, CostIsNat DEF WellHeld
<1>4. s.buffer \in Seq(Bytes) /\ Len(s.buffer) <= MaxBuffer
  BY <1>1, <1>2, BytesTyped DEF WellHeld, BufferSound
<1>5. ASSUME NEW k \in DOMAIN s.cache
      PROVE  s.cache[k] \in Seq(Bytes) /\ s.cache[k] # <<>>
  <2>1. PICK e \in Connections, p \in Places : Stretch(s.cache[k], e, p)
    BY <1>1 DEF WellHeld, Placed
  <2>2. \A i \in 1 .. Len(s.cache[k]) : s.cache[k][i] \in Bytes
    BY <2>1, StretchBytes
  <2> QED
    BY <2>1, <2>2, BytesTyped DEF Stretch
<1>6. DOMAIN s.cache \subseteq SeqNum
  BY <1>2, CachesFinite
<1> QED
  BY <1>2, <1>3, <1>4, <1>5, <1>6

(* The three invariants, of the stream, of the guard and of its clock,     *)
(* make the type invariant.                                                *)
LEMMA StateIsTyped ==
  ASSUME StreamInv, GuardInv, ClockInRange
  PROVE  TypeOK
<1>1. /\ next_seq \in SeqNum \cup {NONE}
      /\ DOMAIN cache \subseteq SeqNum
      /\ \A k \in DOMAIN cache : cache[k] \in Seq(Bytes) /\ cache[k] # <<>>
      /\ cache_cost \in Nat
      /\ buffer \in Seq(Bytes) /\ Len(buffer) <= MaxBuffer
      /\ loss \in BOOLEAN
  <2>1. CASE next_seq = NONE
    <3>1. cache = <<>> /\ cache_cost = 0 /\ buffer = <<>> /\ loss = FALSE
      BY <2>1 DEF StreamInv
    <3>2. Len(<<>>) <= MaxBuffer /\ <<>> \in Seq(Bytes)
      BY StreamsAssumption
    <3>3. DOMAIN <<>> = {}
      OBVIOUS
    <3> QED
      BY <2>1, <3>1, <3>2, <3>3
  <2>2. CASE next_seq # NONE
    <3>1. Settled(Stream)
      BY <2>2 DEF StreamInv, Sound
    <3>2. /\ Stream.next = next_seq /\ Stream.cache = cache /\ Stream.cost = cache_cost
          /\ Stream.buffer = buffer /\ Stream.loss = loss
      BY DEF Stream
    <3> QED
      BY <3>1, <3>2, HeldIsTyped
  <2> QED
    BY <2>1, <2>2
<1>2. stall_pushes \in Nat /\ stall_backoff \in 1 .. MaxBackoff
  BY LimitsAssumption DEF GuardInv
<1>3. epoch \in DOMAIN ISNs /\ last \in Bytes \cup {NONE} /\ batched \in BOOLEAN
  BY DEF StreamInv, Connections
<1> QED
  BY <1>1, <1>2, <1>3 DEF TypeOK, ClockInRange

(* Every step keeps the state's types: the buffer within its cap, the cache *)
(* made of whole segments of the server's streams, the clock of a gap no    *)
(* more than a tick over its budget (tcp.rs, the fields of the reassembler).*)
THEOREM TypeCorrect == Spec => []TypeOK
<1>1. Spec => []GuardInv
  BY GuardInit, GuardStep, PTL DEF Spec
<1>2. Spec => []ClockInRange
  BY ClockInit, ClockStep, PTL DEF Spec
<1> QED
  BY <1>1, <1>2, StreamAlways, StateIsTyped, PTL

(* The cost kept by hand is what the cache holds and never above its cap,  *)
(* whatever is replaced, drained, spliced, dropped or evicted (tcp.rs,     *)
(* cache_insert, cache_remove, enforce_cache_cap).                         *)
THEOREM CacheIsAccounted == Spec => []CacheAccounted
<1> QED
  BY StreamAlways, StreamPromises, PTL

(* Bytes are handed over in the order they were sent with none missing or  *)
(* repeated, unless a loss is reported first (tcp.rs, push, take_stream    *)
(* and take_loss).                                                         *)
THEOREM NeverASilentBreak == Spec => []NoSilentBreak
<1> QED
  BY StreamAlways, StreamPromises, PTL

(* A caller that takes the stream after each push is handed one contiguous *)
(* stretch each time, even when the push lost bytes (tcp.rs,               *)
(* resync_to_cached, and the capture loop that takes after each push).     *)
THEOREM ChunksAreWhole == Spec => []ChunkContiguous
<1> QED
  BY StreamAlways, StreamPromises, PTL

(* While the guard counts pushes without progress, every cached segment    *)
(* lies ahead of the byte that is missing: none of it is already in hand   *)
(* (tcp.rs, reconcile_stale_cache before the stall guard).                 *)
THEOREM StallsAreGenuine == Spec => []StallIsGenuine
<1> QED
  BY StreamAlways, StreamPromises, PTL

(* What is appended to stays in front.                                     *)
LEMMA AppendsPrefix ==
  ASSUME NEW a \in Seq(Int), NEW b \in Seq(Int), NEW e, NEW p \in Places, NEW q \in Places, p <= q,
         Appends(a, b, e, p, q)
  PROVE  Ordered!IsPrefix(a, b)
<1>1. SubSeq(b, 1, Len(a)) = SubSeq(a, 1, Len(a))
  BY DEF Appends
<1>2. Len(a) <= Len(b)
  BY DEF Appends, Places
<1> QED
  BY <1>1, <1>2 DEF Ordered!IsPrefix

(* A segment grows the ordered stream or announces a loss.                 *)
LEMMA ArriveImplements ==
  ASSUME StreamInv, StreamInv', Arrive
  PROVE  Ordered!Next
<1>1. PICK p \in 0 .. StreamLen - 1, n \in 1 .. SegLen :
        /\ p + n <= StreamLen
        /\ Push(Seq32(epoch, p), [i \in 1 .. n |-> Byte(epoch, p + i - 1)])
  BY DEF Arrive
<1>2. p \in Places /\ n \in Nat \ {0}
  BY HalfSpace, SpaceAssumption DEF Places
<1>3. /\ Sound(Stream, last)' /\ last' = last
      /\ ~ loss' => ~ loss
             /\ \E e \in Connections, x \in Places, y \in Places :
                  x <= y /\ Appends(buffer, buffer', e, x, y)
  BY <1>1, <1>2, PushSound
<1>4. CASE loss'
  BY <1>3, <1>4 DEF Ordered!Next, Ordered!Lose
<1>5. CASE ~ loss'
  <2>1. ~ loss
    BY <1>3, <1>5
  <2>2. PICK e \in Connections, x \in Places, y \in Places : x <= y /\ Appends(buffer, buffer', e, x, y)
    BY <1>3, <1>5
  <2>3. Stream'.buffer = buffer' /\ Stream'.loss = loss' /\ Stream.buffer = buffer
    BY DEF Stream
  <2>4. buffer' \in Seq(Int) /\ NoBreak(Stream', last')
    BY <1>3, <2>3 DEF Sound, Settled, Streams
  <2>5. buffer \in Seq(Int)
    <3>1. next_seq # NONE => Stream \in Streams
      BY DEF StreamInv, Sound, Settled
    <3>2. next_seq = NONE => buffer = <<>>
      BY DEF StreamInv
    <3>3. <<>> \in Seq(Int)
      OBVIOUS
    <3> QED
      BY <2>3, <3>1, <3>2, <3>3 DEF Streams
  <2>6. Ordered!IsPrefix(buffer, buffer')
    BY <2>2, <2>4, <2>5, AppendsPrefix
  <2>7. Ordered!Continues(buffer', last)
    BY <1>3, <1>5, <2>3, <2>4 DEF Ordered!Continues, NoBreak, Contiguous
  <2>8. Ordered!Grow
    BY <1>3, <1>5, <2>1, <2>6, <2>7 DEF Ordered!Grow
  <2> QED
    BY <2>8 DEF Ordered!Next
<1> QED
  BY <1>4, <1>5

(* Every step is a step of the ordered stream or none.                     *)
LEMMA StepImplements ==
  ASSUME StreamInv, StreamInv', [Next]_vars
  PROVE  [Ordered!Next]_(Ordered!vars)
<1>1. CASE Arrive
  BY <1>1, ArriveImplements
<1>2. CASE Adopt
  <2>1. PICK p \in 0 .. StreamLen - 1 : Resync(Seq32(epoch, p))
    BY <1>2 DEF Adopt
  <2>2. Ordered!Restart
    BY <2>1 DEF Resync, Ordered!Restart
  <2> QED
    BY <2>2 DEF Ordered!Next
<1>3. CASE Take
  <2>1. /\ loss \/ buffer # <<>>
        /\ loss' = FALSE /\ buffer' = <<>>
        /\ last' = IF buffer # <<>> THEN buffer[Len(buffer)] ELSE NONE
    BY <1>3 DEF Take
  <2>2. Ordered!Take
    BY <2>1 DEF Ordered!Take, Ordered!Last
  <2> QED
    BY <2>2 DEF Ordered!Next
<1>4. CASE Reconnect
  BY <1>4 DEF Reconnect, stream, caller, Ordered!vars
<1>5. CASE Tick
  BY <1>5 DEF Tick, stream, caller, Ordered!vars
<1>6. CASE UNCHANGED vars
  BY <1>6 DEF vars, stream, caller, Ordered!vars
<1> QED
  BY <1>1, <1>2, <1>3, <1>4, <1>5, <1>6 DEF Next

(* A new reassembler is a new ordered stream.                              *)
LEMMA InitImplements == Init => Ordered!Init
BY DEF Init, Ordered!Init

(* The reassembler implements an ordered stream: whatever happens to its   *)
(* cache, bytes in hand only grow at the end, or a loss is announced       *)
(* (tcp.rs as a whole, seen by the capture loop).                          *)
THEOREM ReassemblerIsAnOrderedStream == Spec => ImplementsOrderedStream
<1>1. StreamInv /\ StreamInv' /\ [Next]_vars => [Ordered!Next]_(Ordered!vars)
  BY StepImplements
<1> HIDE DEF StreamInv, Next, Init, vars
<1>2. Spec => Ordered!Init /\ [][Ordered!Next]_(Ordered!vars)
  BY <1>1, StreamAlways, InitImplements, PTL DEF Spec
<1> QED
  BY <1>2 DEF ImplementsOrderedStream, Ordered!Spec

=============================================================================
