-------------------------- MODULE TcpReassembler --------------------------
(***************************************************************************)
(* The stream reassembler of the capture crate (tcp.rs): it turns the TCP  *)
(* segments a passive sniffer sees, reordered, repeated, repacketized or   *)
(* missing, into one ordered byte stream, and gives up on a gap nothing    *)
(* will ever fill.                                                         *)
(*                                                                         *)
(* A payload is a sequence of bytes, and a byte is named by the place it   *)
(* has in the stream the server sent: Byte(e, p) is byte number p of the   *)
(* server's e-th connection on this 4-tuple.  Two bytes are neighbours in  *)
(* the sent stream exactly when their names differ by one, which is what   *)
(* lets the invariants speak of contiguity: a stream is shorter than Mod.   *)
(***************************************************************************)
EXTENDS Integers, Sequences, FiniteSets, FiniteSetsExt, Functions

CONSTANTS
  Mod,              \* size of the sequence space (2^32 in the code)
  MaxBuffer,        \* cap on the undrained stream, in bytes
  MaxCache,         \* cap on the accounted size of the out-of-order cache
  EntryOverhead,    \* bookkeeping charged per cached segment
  MinBehind,        \* distance behind next_seq that reads as a re-anchor
  MaxStallPushes,   \* pushes without progress before the guard trips
  MaxBackoff,       \* cap on the trip threshold's multiplier
  TimeBudget,       \* ticks a gap may last once BytesBudget is exceeded
  BytesBudget,      \* cached bytes above which TimeBudget counts
  StreamLen,        \* bytes the server sends on one connection
  SegLen,           \* longest segment
  ISNs              \* <<isn of connection 1, isn of connection 2, ...>>

NONE == -1      \* no sequence number, byte or age is negative

ASSUME LimitsAssumption ==
  /\ MaxStallPushes \in Nat \ {0}
  /\ MaxBackoff \in Nat \ {0}
  /\ TimeBudget \in Nat

ASSUME SpaceAssumption ==
  /\ Mod \in Nat /\ Mod > 0 /\ Mod % 2 = 0
  /\ StreamLen \in 1 .. (Mod \div 2 - 1)
  /\ SegLen \in 1 .. StreamLen
  /\ MaxCache >= SegLen + EntryOverhead
  /\ \A e \in DOMAIN ISNs : ISNs[e] \in 0 .. Mod - 1

(* A sequence number names a place in the stream of one connection only:    *)
(* segments of two connections on one 4-tuple carry nothing else to tell    *)
(* them apart, so where their streams overlap no reassembler could.         *)
ASSUME StreamsAssumption ==
  /\ MaxBuffer \in Nat \ {0}
  /\ EntryOverhead \in Nat /\ MaxCache \in Nat
  /\ ISNs \in Seq(0 .. Mod - 1) /\ ISNs # <<>>
  /\ \A e, f \in DOMAIN ISNs : \A p, q \in 0 .. StreamLen :
       (ISNs[e] + p) % Mod = (ISNs[f] + q) % Mod => e = f

SeqNum == 0 .. Mod - 1
Byte(e, p) == Mod * e + p
Bytes == {Byte(e, p) : e \in DOMAIN ISNs, p \in 0 .. StreamLen - 1}

VARIABLES
  cache,          \* out-of-order segments, by sequence number
  cache_cost,     \* accounted size of cache, kept up to date by hand
  next_seq,       \* next sequence number that extends buffer, or NONE
  buffer,         \* ordered bytes not yet taken by the caller
  loss,           \* bytes were discarded since the last take_loss
  stall_pushes,   \* consecutive pushes without progress while stuck
  stall_backoff,  \* multiplier of the trip threshold
  stalled_for,    \* ticks since stalled_since_ms, or NONE when that is None
  epoch,          \* the server's current connection on the 4-tuple
  last,           \* last byte handed to the caller, NONE after a reset
  batched         \* the caller pushed again before it took what there was

stream == <<cache, cache_cost, next_seq, buffer, loss>>
guard  == <<stall_pushes, stall_backoff, stalled_for>>
caller == <<last, batched>>
vars   == <<stream, guard, epoch, caller>>

---------------------------------------------------------------------------
(* Sequence arithmetic: wrapping_sub, and its cast to i32. *)

Wrap(n) == n % Mod
Ahead(a, b) == Wrap(a - b)
Signed(a, b) == IF Ahead(a, b) >= Mod \div 2 THEN Ahead(a, b) - Mod ELSE Ahead(a, b)

GapBytes(c) == MapThenSumSet(LAMBDA k : Len(c[k]), DOMAIN c)
Charge(data) == Len(data) + EntryOverhead

Nearest(c, n) == CHOOSE k \in DOMAIN c : \A x \in DOMAIN c : Ahead(k, n) <= Ahead(x, n)
Furthest(c, n) == CHOOSE k \in DOMAIN c : \A x \in DOMAIN c : Ahead(k, n) >= Ahead(x, n)

(* n iterations of a loop body that leaves a finished state alone.  The    *)
(* singleton sets here and in Push only make TLC evaluate a state once.    *)
Iterate(Body(_), s, n) ==
  LET run[i \in Nat] == IF i = 0 THEN s
                        ELSE CHOOSE t \in {Body(r) : r \in {run[i - 1]}} : TRUE
  IN run[n]

---------------------------------------------------------------------------
(* The stream half of the state, as the record the loops of push rewrite. *)

Stream == [cache |-> cache, cost |-> cache_cost, next |-> next_seq, buffer |-> buffer, loss |-> loss]

\* Mutant: the segment being replaced is never given back.
CacheInsertLeaky(s, seq, data) ==
  [s EXCEPT !.cache = [k \in DOMAIN @ \cup {seq} |-> IF k = seq THEN data ELSE @[k]],
            !.cost = @ + Charge(data)]

CacheInsert(s, seq, data) ==
  [s EXCEPT !.cache = [k \in DOMAIN @ \cup {seq} |-> IF k = seq THEN data ELSE @[k]],
            !.cost = @ + Charge(data)
                     - IF seq \in DOMAIN s.cache THEN Charge(s.cache[seq]) ELSE 0]

CacheRemove(s, seq) ==
  [s EXCEPT !.cache = Restrict(@, DOMAIN @ \ {seq}), !.cost = @ - Charge(s.cache[seq])]

\* Mutant: what is trimmed is not reported.
AppendTrimming(s, data) ==
  LET all == s.buffer \o data
  IN [s EXCEPT !.buffer = SubSeq(all, Max({0, Len(all) - MaxBuffer}) + 1, Len(all))]

\* Mutant: the cap is not applied.
AppendUncapped(s, data) == [s EXCEPT !.buffer = @ \o data]

AppendToBuffer(s, data) ==
  LET all == s.buffer \o data
      excess == Len(all) - MaxBuffer
  IN IF excess > 0
     THEN [s EXCEPT !.buffer = SubSeq(all, excess + 1, Len(all)), !.loss = TRUE]
     ELSE [s EXCEPT !.buffer = all]

DrainOne(s) ==
  IF s.next \in DOMAIN s.cache
  THEN LET data == s.cache[s.next]
       IN AppendToBuffer([CacheRemove(s, s.next) EXCEPT !.next = Wrap(@ + Len(data))], data)
  ELSE s

DrainContiguous(s) == Iterate(DrainOne, s, Cardinality(DOMAIN s.cache))

AdvanceWith(s, payload) ==
  DrainContiguous([AppendToBuffer(s, payload) EXCEPT !.next = Wrap(@ + Len(payload))])

(* One round of the reconcile loop: the stale entry with the smallest raw  *)
(* key is spliced into the stream if it reaches past next, else dropped.   *)
ReconcileOne(s) ==
  LET stale == {k \in DOMAIN s.cache : Signed(k, s.next) < 0} IN
  IF stale = {} THEN s
  ELSE LET k == CHOOSE k \in stale : \A x \in stale : k <= x
           data == s.cache[k]
           rest == CacheRemove(s, k)
       IN IF Signed(k + Len(data), s.next) > 0
          THEN AdvanceWith(rest, SubSeq(data, Ahead(s.next, k) + 1, Len(data)))
          ELSE rest

\* Mutant: segments next_seq has moved past stay in the cache.
ReconcileNothing(s) == s

ReconcileStaleCache(s) == Iterate(ReconcileOne, s, Cardinality(DOMAIN s.cache))

EvictOne(s) ==
  IF s.cost > MaxCache /\ s.cache # <<>>
  THEN CacheRemove(s, Furthest(s.cache, s.next))
  ELSE s

EnforceCacheCap(s) == Iterate(EvictOne, s, Cardinality(DOMAIN s.cache))

\* Mutant: an overlapping retransmit is appended whole.
AbsorbWhole(s, seq, payload) ==
  IF Signed(seq, s.next) <= 0
  THEN IF Signed(seq + Len(payload), s.next) > 0 THEN AdvanceWith(s, payload) ELSE s
  ELSE CacheInsert(s, seq, payload)

(* What a segment does before the stall guard looks at it. *)
Absorb(s, seq, payload) ==
  LET diff == Signed(seq, s.next) IN
  IF diff < 0
  THEN IF Signed(seq + Len(payload), s.next) > 0
       THEN AdvanceWith(s, SubSeq(payload, Ahead(s.next, seq) + 1, Len(payload)))
       ELSE s
  ELSE IF diff = 0 THEN AdvanceWith(s, payload)
  ELSE IF seq \in DOMAIN s.cache /\ Len(payload) <= Len(s.cache[seq])
       THEN s
       ELSE CacheInsert(s, seq, payload)

Receive(s, seq, payload) ==
  EnforceCacheCap(ReconcileStaleCache(Absorb(s, seq, payload)))

\* Mutant: the bytes given up on are not reported.
ResyncSilently(s, nearest) == DrainContiguous([s EXCEPT !.next = nearest])

\* Mutant: the guard gives up without moving on.
ResyncNowhere(s, nearest) == [s EXCEPT !.loss = TRUE]

ResyncToCached(s, nearest) == DrainContiguous([s EXCEPT !.next = nearest, !.loss = TRUE])

ReAnchor(s, seq, payload) ==
  LET clean == [cache |-> <<>>, cost |-> 0, next |-> seq, buffer |-> <<>>, loss |-> FALSE]
  IN [AdvanceWith(clean, payload) EXCEPT !.loss = TRUE]

---------------------------------------------------------------------------
Threshold == MaxStallPushes * stall_backoff
StalledFor == IF stalled_for = NONE THEN 0 ELSE stalled_for
Clock(s) == IF s.cache = <<>> THEN NONE ELSE 0
Doubled == IF 2 * stall_backoff < MaxBackoff THEN 2 * stall_backoff ELSE MaxBackoff

SetStream(s) ==
  /\ cache' = s.cache
  /\ cache_cost' = s.cost
  /\ next_seq' = s.next
  /\ buffer' = s.buffer
  /\ loss' = s.loss

\* Mutant: the count may reach the threshold.
TripsLate(s) == \/ stall_pushes >= Threshold
                \/ StalledFor > TimeBudget /\ GapBytes(s.cache) > BytesBudget

Trips(s) == \/ stall_pushes + 1 >= Threshold
            \/ StalledFor > TimeBudget /\ GapBytes(s.cache) > BytesBudget

Progress(s) ==
  /\ SetStream(s)
  /\ stall_pushes' = 0
  /\ stalled_for' = Clock(s)
  /\ stall_backoff' = IF s.cache = <<>> THEN 1 ELSE stall_backoff

Wait(s) ==
  /\ ~ Trips(s)
  /\ SetStream(s)
  /\ stall_pushes' = stall_pushes + 1
  /\ stalled_for' = StalledFor
  /\ UNCHANGED stall_backoff

Trip(s, seq, payload) ==
  /\ Trips(s)
  /\ LET t == IF s.cache # <<>> THEN ResyncToCached(s, Nearest(s.cache, s.next))
                                ELSE ReAnchor(s, seq, payload)
     IN SetStream(t) /\ stalled_for' = Clock(t)
  /\ stall_pushes' = 0
  /\ stall_backoff' = Doubled

\* Mutant: a segment far behind next_seq counts as a retransmit.
ReAnchoredNever(seq, before) == FALSE

(* Too far behind next_seq for a retransmit: the peer re-anchored the stream. *)
ReAnchored(seq, before) == Signed(seq, before) < 0 /\ Ahead(before, seq) >= MinBehind

(* push(seq, payload, now_ms) with a payload that is not empty. *)
Push(seq, payload) ==
  LET before == IF next_seq = NONE THEN seq ELSE next_seq
      re_anchored == ReAnchored(seq, before)
  IN \E s \in {Receive([Stream EXCEPT !.next = before], seq, payload)} :
       /\ \/ s.next # before /\ Progress(s)
          \/ /\ s.next = before
             /\ s.cache # <<>> \/ re_anchored
             /\ Wait(s) \/ Trip(s, seq, payload)
          \/ /\ s.next = before
             /\ s.cache = <<>> /\ ~ re_anchored
             /\ SetStream(s)
             /\ UNCHANGED guard
       /\ UNCHANGED <<epoch, last>>

(* resync(seq): the caller adopts a connection that is new to it. *)
Resync(seq) ==
  /\ cache' = <<>>
  /\ cache_cost' = 0
  /\ next_seq' = seq
  /\ buffer' = <<>>
  /\ loss' = FALSE
  /\ stall_pushes' = 0
  /\ stall_backoff' = 1
  /\ stalled_for' = NONE
  /\ last' = NONE
  /\ batched' = FALSE
  /\ UNCHANGED epoch

(* take_loss then take_stream, as the capture loop calls them: a loss makes *)
(* the caller forget what came before the bytes it takes.                   *)
Take ==
  /\ loss \/ buffer # <<>>
  /\ loss' = FALSE
  /\ buffer' = <<>>
  /\ last' = IF buffer # <<>> THEN buffer[Len(buffer)] ELSE IF loss THEN NONE ELSE last
  /\ batched' = FALSE
  /\ UNCHANGED <<cache, cache_cost, next_seq, guard, epoch>>

---------------------------------------------------------------------------
(* The network and the clock. *)

Seq32(e, p) == Wrap(ISNs[e] + p)

(* Any stretch of the current connection's stream may arrive, at any time   *)
(* and any number of times.  The capture loop takes the stream after every  *)
(* push; the interface lets a caller batch (see the module's tests).        *)
Arrive ==
  /\ batched' = (batched \/ loss \/ buffer # <<>>)
  /\ \E p \in 0 .. StreamLen - 1, n \in 1 .. SegLen :
       /\ p + n <= StreamLen
       /\ Push(Seq32(epoch, p), [i \in 1 .. n |-> Byte(epoch, p + i - 1)])

(* The server opens a new connection on the same 4-tuple, unseen by the     *)
(* detector, and what it sends from then on is numbered from a new ISN.     *)
Reconnect ==
  /\ epoch < Len(ISNs)
  /\ epoch' = epoch + 1
  /\ UNCHANGED <<stream, guard, caller>>

(* The capture loop adopts the current connection at one of its segments.   *)
Adopt == \E p \in 0 .. StreamLen - 1 : Resync(Seq32(epoch, p))

(* Time passes.  Only differences of now_ms are used, so the model keeps    *)
(* the age of the stall, up to the first value over the budget.             *)
Tick ==
  /\ stalled_for # NONE /\ stalled_for <= TimeBudget
  /\ stalled_for' = stalled_for + 1
  /\ UNCHANGED <<stream, stall_pushes, stall_backoff, epoch, caller>>

Init ==
  /\ cache = <<>>
  /\ cache_cost = 0
  /\ next_seq = NONE
  /\ buffer = <<>>
  /\ loss = FALSE
  /\ stall_pushes = 0
  /\ stall_backoff = 1
  /\ stalled_for = NONE
  /\ epoch = 1
  /\ last = NONE
  /\ batched = FALSE

Next == Arrive \/ Adopt \/ Take \/ Reconnect \/ Tick

Spec == Init /\ [][Next]_vars

(* The connection stays alive, so its segments keep arriving, and the capture *)
(* loop takes the stream after each push.                                     *)
FairSpec == Spec /\ WF_vars(Arrive) /\ WF_vars(Take)

---------------------------------------------------------------------------
(* The state every step keeps the shape of. *)
TypeOK ==
  /\ next_seq \in SeqNum \cup {NONE}
  /\ DOMAIN cache \subseteq SeqNum
  /\ \A k \in DOMAIN cache : cache[k] \in Seq(Bytes) /\ cache[k] # <<>>
  /\ cache_cost \in Nat
  /\ buffer \in Seq(Bytes) /\ Len(buffer) <= MaxBuffer
  /\ loss \in BOOLEAN
  /\ stall_pushes \in Nat
  /\ stall_backoff \in 1 .. MaxBackoff
  /\ stalled_for \in 0 .. TimeBudget + 1 \cup {NONE}
  /\ epoch \in DOMAIN ISNs
  /\ last \in Bytes \cup {NONE}
  /\ batched \in BOOLEAN

(* What the caller is handed is the sent stream with nothing missing,      *)
(* repeated or out of order, unless take_loss says so first: whatever is   *)
(* reordered, duplicated, repacketized, evicted or given up on, a break    *)
(* between two delivered bytes never goes unreported.                      *)
NoSilentBreak ==
  ~ loss => /\ \A i \in 1 .. Len(buffer) - 1 : buffer[i + 1] = buffer[i] + 1
            /\ last # NONE /\ buffer # <<>> => buffer[1] = last + 1

(* The reassembler is an ordered stream.                                   *)
Ordered == INSTANCE OrderedStream WITH pending <- buffer, broken <- loss, taken <- last, NoByte <- NONE

(* Every step of the reassembler, whatever it does to the segments it      *)
(* keeps, only adds bytes that fit at the end of what is already in hand,  *)
(* or announces a loss: bytes once in hand are neither dropped, replaced   *)
(* nor repeated in silence.                                                *)
ImplementsOrderedStream == Ordered!Spec

(* Taken after every push, even the bytes handed over along with a loss are *)
(* one contiguous stretch: the decoder, reset on the loss, restarts on a    *)
(* stream without a further break inside it.                                *)
ChunkContiguous ==
  ~ batched => \A i \in 1 .. Len(buffer) - 1 : buffer[i + 1] = buffer[i] + 1

(* The guard only counts towards giving up while the bytes at next_seq are *)
(* really missing: no cached segment reaches back to next_seq, so none of  *)
(* the bytes being waited for is already in hand.                          *)
StallIsGenuine ==
  stall_pushes > 0 => \A k \in DOMAIN cache : Signed(k, next_seq) > 0

(* A gap is never waited on past the threshold, whatever backoff a cluster *)
(* of gaps has earned.                                                     *)
StallBounded == stall_pushes < Threshold

(* The incremental cost never drifts from what the cache holds, through    *)
(* replaced, drained, spliced, dropped and evicted segments, so that junk   *)
(* far ahead of the stream cannot grow the cache past its cap.              *)
CacheAccounted ==
  /\ cache_cost = GapBytes(cache) + EntryOverhead * Cardinality(DOMAIN cache)
  /\ cache_cost <= MaxCache

(* A hole in the stream does not wedge the capture: while segments arrive, *)
(* every gap ends, because it fills or because the guard gives it up.  The *)
(* stream is finite here, so that is: the cache is empty again and again.  *)
EveryGapEnds == []<>(cache = <<>>)

(* A reconnect on the same 4-tuple, whose new ISN is far behind next_seq,  *)
(* ends with the reassembler following the new connection.                 *)
Follows(e) == \E p \in 0 .. StreamLen : next_seq = Seq32(e, p)
FollowsReconnect == (epoch = Len(ISNs)) ~> Follows(Len(ISNs))

(* The field's comment: stalled_since_ms is None when caught up, because   *)
(* healthy idle time must not spend a future gap's recovery budget.        *)
CaughtUpHasNoStallClock ==
  cache = <<>> /\ stall_pushes = 0 => stalled_for = NONE

=============================================================================
