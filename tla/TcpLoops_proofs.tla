-------------------------- MODULE TcpLoops_proofs --------------------------
(***************************************************************************)
(* What the loops of TcpReassembler do to the stream, for every sequence   *)
(* space, set of connections, cap and segment: drain, reconcile, evict and *)
(* the ingestion of one segment.  A segment is a stretch of some           *)
(* connection's stream; the loops only ever move the stream on along one   *)
(* connection (GoesOn), pay for exactly what they keep (WellHeld), and end *)
(* with nothing left for them to do.  A loop is Iterate of its body; its   *)
(* run is the orbit of the body on the states it may meet, and a count of  *)
(* cached segments bounds it (Orbits).                                     *)
(***************************************************************************)
EXTENDS TcpReassembler, Orbits, FiniteSetTheorems, TLAPS

(* Wrapping, one turn of the sequence space to either side.                *)
LEMMA WrapOf ==
  ASSUME NEW n \in Int
  PROVE  /\ n \in 0 .. Mod - 1 => Wrap(n) = n
         /\ n \in Mod .. 2 * Mod - 1 => Wrap(n) = n - Mod
         /\ n \in -Mod .. -1 => Wrap(n) = n + Mod
         /\ Wrap(n) \in SeqNum
BY SpaceAssumption, Z3 DEF Wrap, SeqNum

(* A stream is shorter than half the sequence space.                       *)
LEMMA HalfSpace ==
  /\ Mod \in Nat /\ Mod \div 2 \in Nat /\ Mod = 2 * (Mod \div 2)
  /\ StreamLen \in Nat /\ StreamLen > 0 /\ StreamLen < Mod \div 2
BY SpaceAssumption, Z3

Connections == DOMAIN ISNs
Places == 0 .. StreamLen

(* The number of a place, wrapped at most once.                            *)
LEMMA SeqOfPlace ==
  ASSUME NEW e \in Connections, NEW p \in Places
  PROVE  /\ ISNs[e] \in SeqNum
         /\ Seq32(e, p) \in SeqNum
         /\ ISNs[e] + p < Mod => Seq32(e, p) = ISNs[e] + p
         /\ ISNs[e] + p >= Mod => Seq32(e, p) = ISNs[e] + p - Mod
<1>1. ISNs[e] \in 0 .. Mod - 1
  BY SpaceAssumption DEF Connections
<1> QED
  BY <1>1, HalfSpace, WrapOf DEF Seq32, SeqNum, Places

(* A sequence number is a place in one connection's stream. *)
LEMMA PlaceIsUnique ==
  ASSUME NEW e \in Connections, NEW f \in Connections,
         NEW p \in Places, NEW q \in Places, Seq32(e, p) = Seq32(f, q)
  PROVE  e = f /\ p = q
<1>1. e = f
  BY StreamsAssumption DEF Seq32, Wrap, Connections, Places
<1> QED
  BY <1>1, SeqOfPlace, HalfSpace DEF SeqNum, Places

(* Moving on by n bytes moves the place on by n.                           *)
LEMMA PlaceAfter ==
  ASSUME NEW e \in Connections, NEW p \in Places, NEW n \in Nat, p + n <= StreamLen
  PROVE  /\ p + n \in Places
         /\ Wrap(Seq32(e, p) + n) = Seq32(e, p + n)
<1>1. p + n \in Places
  BY DEF Places
<1> QED
  BY <1>1, SeqOfPlace, HalfSpace, WrapOf DEF SeqNum, Places

(* A segment that starts before next and reaches past it is a stretch of    *)
(* next's own connection, and Ahead(next, seq) of its bytes lie before.     *)
LEMMA Straddles ==
  ASSUME NEW e \in Connections, NEW p \in Places, NEW n \in Nat, p + n <= StreamLen,
         NEW f \in Connections, NEW q \in Places,
         Signed(Seq32(e, p), Seq32(f, q)) < 0,
         Signed(Seq32(e, p) + n, Seq32(f, q)) > 0
  PROVE  /\ f = e
         /\ Ahead(Seq32(f, q), Seq32(e, p)) = q - p
         /\ p < q /\ q < p + n
<1> DEFINE k == Seq32(e, p)
           m == Seq32(f, q)
           j == m - k + (IF m >= k THEN 0 ELSE Mod)
<1>0. k \in SeqNum /\ m \in SeqNum
  BY SeqOfPlace
<1> HIDE DEF k, m
<1>1. k # m
  <2>1. CASE k = m
    <3>1. Ahead(k, m) = 0
      BY <2>1, <1>0, WrapOf, HalfSpace DEF Ahead, SeqNum
    <3>2. Signed(k, m) = 0
      BY <3>1, HalfSpace DEF Signed
    <3> QED
      BY <3>2 DEF k, m
  <2> QED
    BY <2>1
<1>2. j \in 1 .. Mod - 1 /\ Ahead(m, k) = j /\ Ahead(k, m) = Mod - j
  BY <1>0, <1>1, WrapOf, HalfSpace DEF Ahead, SeqNum
<1>3. j <= Mod \div 2
  <2>1. Ahead(k, m) >= Mod \div 2
    BY <1>2, HalfSpace DEF Signed, k, m
  <2> QED
    BY <2>1, <1>2, HalfSpace
<1>4. j < n
  <2>1. CASE n <= j
    <3>1. k + n - m \in -Mod .. Mod
      BY <1>0, <1>2, <1>3, <2>1, HalfSpace DEF SeqNum
    <3>2. Ahead(k + n, m) = IF n = j THEN 0 ELSE Mod - j + n
      BY <1>0, <1>2, <1>3, <2>1, <3>1, WrapOf, HalfSpace DEF Ahead, SeqNum
    <3>3. Signed(k + n, m) <= 0
      BY <3>2, <1>2, <1>3, <2>1, HalfSpace DEF Signed
    <3> QED
      BY <3>3, HalfSpace, <1>2, <2>1, <3>2 DEF k, m, Signed
  <2> QED
    BY <2>1, <1>2
<1>5. p + j <= StreamLen /\ j \in Nat
  BY <1>2, <1>4, HalfSpace DEF Places
<1>6. Wrap(k + j) = Seq32(e, p + j) /\ p + j \in Places
  BY <1>5, PlaceAfter DEF k
<1>7. Wrap(k + j) = m
  <2>1. CASE m >= k
    BY <2>1, <1>0, WrapOf DEF SeqNum
  <2>2. CASE m < k
    BY <2>2, <1>0, WrapOf, HalfSpace DEF SeqNum
  <2> QED
    BY <2>1, <2>2, <1>0 DEF SeqNum
<1>8. f = e /\ q = p + j
  BY <1>6, <1>7, PlaceIsUnique DEF m
<1> QED
  BY <1>2, <1>4, <1>8 DEF k, m, Places

Contiguous(b) == \A i \in 1 .. Len(b) - 1 : b[i + 1] = b[i] + 1

(* data is what connection e sent from place p on. *)
Stretch(data, e, p) ==
  /\ data \in Seq(Int) /\ data # <<>>
  /\ p + Len(data) <= StreamLen
  /\ \A i \in 1 .. Len(data) : data[i] = Byte(e, p + i - 1)

Placed(k, data) == \E e \in Connections, p \in Places : k = Seq32(e, p) /\ Stretch(data, e, p)

(* Byte b is the one before sequence number n. *)
EndsAt(b, n) == \E e \in Connections, p \in Places : p > 0 /\ n = Seq32(e, p) /\ b = Byte(e, p - 1)

(* The buffer ends where the stream goes on. *)
Tied(s) == s.buffer # <<>> => EndsAt(s.buffer[Len(s.buffer)], s.next)

Caches == UNION {[D -> Seq(Int)] : D \in SUBSET SeqNum}
Streams == [cache : Caches, cost : Int, next : SeqNum, buffer : Seq(Int), loss : BOOLEAN]

(* b is a with the bytes of places p to q - 1 of connection e after it. *)
Appends(a, b, e, p, q) ==
  /\ Len(b) = Len(a) + (q - p)
  /\ \A i \in 1 .. Len(a) : b[i] = a[i]
  /\ \A i \in 1 .. q - p : b[Len(a) + i] = Byte(e, p + i - 1)

(* s is r gone on from place p to place q of connection e. *)
GoesOn(r, s, e, p, q) ==
  /\ r.next = Seq32(e, p) /\ s.next = Seq32(e, q) /\ p <= q
  /\ r.loss => s.loss
  /\ p = q => s.buffer = r.buffer /\ s.loss = r.loss
  /\ p < q => s.buffer # <<>> /\ s.buffer[Len(s.buffer)] = Byte(e, q - 1)
  /\ ~ s.loss => Appends(r.buffer, s.buffer, e, p, q)
  /\ Tied(r) /\ Contiguous(r.buffer) => Contiguous(s.buffer)

Extends(r, s) == \E e \in Connections, p \in Places, q \in Places : GoesOn(r, s, e, p, q)

(* A stream that does nothing goes on from itself.                         *)
LEMMA ExtendsItself ==
  ASSUME NEW r \in Streams, NEW e \in Connections, NEW p \in Places, r.next = Seq32(e, p)
  PROVE  Extends(r, r)
<1>1. r.buffer \in Seq(Int)
  BY DEF Streams
<1>2. Appends(r.buffer, r.buffer, e, p, p)
  BY <1>1 DEF Appends, Places
<1>3. GoesOn(r, r, e, p, p)
  BY <1>2 DEF GoesOn, Places
<1> QED
  BY <1>3 DEF Extends

(* A stream that goes on from a tied one is tied.                          *)
LEMMA ExtendsTied ==
  ASSUME NEW r, NEW s, Extends(r, s), Tied(r)
  PROVE  Tied(s)
<1>1. PICK e \in Connections, p \in Places, q \in Places : GoesOn(r, s, e, p, q)
  BY DEF Extends
<1>2. CASE p = q
  BY <1>1, <1>2 DEF GoesOn, Tied
<1>3. CASE p < q
  <2>1. q > 0
    BY <1>3 DEF Places
  <2> QED
    BY <1>1, <1>3, <2>1 DEF GoesOn, Tied, EndsAt
<1> QED
  BY <1>1, <1>2, <1>3 DEF GoesOn, Places

(* A state that has moved on is tied whatever it came from. *)
LEMMA MovedOnTied ==
  ASSUME NEW r, NEW s, Extends(r, s), s.next # r.next
  PROVE  Tied(s)
<1>1. PICK e \in Connections, p \in Places, q \in Places : GoesOn(r, s, e, p, q)
  BY DEF Extends
<1>2. p < q /\ q > 0
  BY <1>1 DEF GoesOn, Places
<1> QED
  BY <1>1, <1>2 DEF GoesOn, Tied, EndsAt

(* Going on twice is going on, and never comes back to where it left.      *)
LEMMA ExtendsOnward ==
  ASSUME NEW r \in Streams, NEW s \in Streams, NEW t \in Streams,
         Extends(r, s), Extends(s, t)
  PROVE  /\ Extends(r, t)
         /\ t.next = r.next => s.next = r.next
<1>1. PICK e \in Connections, p \in Places, q \in Places : GoesOn(r, s, e, p, q)
  BY DEF Extends
<1>2. PICK f \in Connections, x \in Places, y \in Places : GoesOn(s, t, f, x, y)
  BY DEF Extends
<1>3. f = e /\ x = q
  <2>1. Seq32(e, q) = Seq32(f, x)
    BY <1>1, <1>2 DEF GoesOn
  <2> QED
    BY <2>1, PlaceIsUnique
<1>4. GoesOn(s, t, e, q, y)
  BY <1>2, <1>3
<1>5. p <= y
  BY <1>1, <1>4 DEF GoesOn, Places
<1>6. p = y => t.buffer = r.buffer /\ t.loss = r.loss
  BY <1>1, <1>4 DEF GoesOn, Places
<1>7. p < y => t.buffer # <<>> /\ t.buffer[Len(t.buffer)] = Byte(e, y - 1)
  <2>1. CASE q < y
    BY <2>1, <1>4 DEF GoesOn
  <2>2. CASE q = y
    BY <2>2, <1>1, <1>4 DEF GoesOn
  <2> QED
    BY <2>1, <2>2, <1>4 DEF GoesOn, Places
<1>8. ~ t.loss => Appends(r.buffer, t.buffer, e, p, y)
  <2> SUFFICES ASSUME ~ t.loss PROVE Appends(r.buffer, t.buffer, e, p, y)
    OBVIOUS
  <2>1. Appends(s.buffer, t.buffer, e, q, y)
    BY <1>4 DEF GoesOn
  <2>2. Appends(r.buffer, s.buffer, e, p, q)
    BY <1>1, <1>4 DEF GoesOn
  <2>3. Len(r.buffer) \in Nat /\ Len(s.buffer) \in Nat
    BY DEF Streams
  <2>4. Len(t.buffer) = Len(r.buffer) + (y - p)
    BY <2>1, <2>2, <2>3 DEF Appends, Places
  <2>5. ASSUME NEW i \in 1 .. Len(r.buffer) PROVE t.buffer[i] = r.buffer[i]
    <3>1. i \in 1 .. Len(s.buffer)
      BY <2>2, <2>3, <1>1 DEF Appends, Places, GoesOn
    <3> QED
      BY <3>1, <2>1, <2>2 DEF Appends
  <2>6. ASSUME NEW i \in 1 .. y - p PROVE t.buffer[Len(r.buffer) + i] = Byte(e, p + i - 1)
    <3>1. CASE i <= q - p
      <4>1. i \in 1 .. q - p /\ Len(r.buffer) + i \in 1 .. Len(s.buffer)
        BY <3>1, <2>2, <2>3 DEF Appends, Places
      <4> QED
        BY <4>1, <2>1, <2>2 DEF Appends
    <3>2. CASE i > q - p
      <4> DEFINE j == i - (q - p)
      <4>1. j \in 1 .. y - q /\ Len(s.buffer) + j = Len(r.buffer) + i /\ q + j - 1 = p + i - 1
        <5>1. Len(s.buffer) = Len(r.buffer) + (q - p) /\ p \in Int /\ q \in Int /\ y \in Int
          BY <2>2 DEF Appends, Places
        <5>2. j \in 1 .. y - q
          BY <5>1, <3>2
        <5>3. q + j - 1 = p + i - 1
          BY <5>1
        <5>4. Len(s.buffer) + j = Len(r.buffer) + i
          <6> DEFINE a == Len(s.buffer)
                     b == Len(r.buffer)
          <6>1. a \in Nat /\ b \in Nat /\ a = b + (q - p) /\ i \in Int /\ p \in Int /\ q \in Int
            BY <5>1, <2>3
          <6> HIDE DEF a, b
          <6>2. a + (i - (q - p)) = b + i
            BY <6>1
          <6> QED
            BY <6>2 DEF a, b
        <5> QED
          BY <5>2, <5>3, <5>4
      <4>2. t.buffer[Len(s.buffer) + j] = Byte(e, q + j - 1)
        BY <4>1, <2>1 DEF Appends
      <4> QED
        BY <4>1, <4>2
    <3> QED
      BY <3>1, <3>2 DEF Places
  <2> QED
    BY <2>4, <2>5, <2>6 DEF Appends
<1>9. Tied(r) /\ Contiguous(r.buffer) => Contiguous(t.buffer)
  BY <1>1, <1>4, ExtendsTied DEF GoesOn
<1>10. GoesOn(r, t, e, p, y)
  BY <1>1, <1>4, <1>5, <1>6, <1>7, <1>8, <1>9 DEF GoesOn
<1>11. t.next = r.next => s.next = r.next
  <2> SUFFICES ASSUME t.next = r.next PROVE s.next = r.next
    OBVIOUS
  <2>1. y = p
    BY <1>10, PlaceIsUnique DEF GoesOn
  <2>2. q = p
    BY <2>1, <1>1, <1>4 DEF GoesOn, Places
  <2> QED
    BY <2>2, <1>1 DEF GoesOn
<1> QED
  BY <1>10, <1>11 DEF Extends

(* The byte at the next place is the next byte.                            *)
LEMMA NextByte ==
  ASSUME NEW e \in Connections, NEW p \in Int
  PROVE  Byte(e, p + 1) = Byte(e, p) + 1 /\ Byte(e, p) \in Int
<1>1. e \in Int
  BY StreamsAssumption DEF Connections
<1> DEFINE x == Mod * e
<1>2. x \in Int
  BY <1>1, HalfSpace
<1> HIDE DEF x
<1>3. x + (p + 1) = (x + p) + 1 /\ x + p \in Int
  BY <1>2
<1> QED
  BY <1>3 DEF Byte, x

(* The bytes the cap keeps are the last of them.                           *)
LEMMA Suffix ==
  ASSUME NEW a \in Seq(Int), NEW m \in Nat \ {0}, Len(a) > m
  PROVE  LET b == SubSeq(a, Len(a) - m + 1, Len(a))
         IN Len(b) = m /\ \A i \in 1 .. m : b[i] = a[(Len(a) - m) + i]
OBVIOUS

(* append_to_buffer, field by field: all is kept, or the oldest bytes go   *)
(* and the loss is recorded.                                               *)
LEMMA AppendFields ==
  ASSUME NEW s \in Streams, NEW data \in Seq(Int)
  PROVE  LET t == AppendToBuffer(s, data)
             all == s.buffer \o data
         IN /\ t \in Streams
            /\ t.cache = s.cache /\ t.cost = s.cost /\ t.next = s.next
            /\ \/ /\ Len(all) > MaxBuffer /\ t.loss = TRUE
                  /\ t.buffer = SubSeq(all, Len(all) - MaxBuffer + 1, Len(all))
               \/ Len(all) <= MaxBuffer /\ t.loss = s.loss /\ t.buffer = all
<1> DEFINE all == s.buffer \o data
<1>1. all \in Seq(Int) /\ Len(all) \in Nat
  BY DEF Streams
<1>2. SubSeq(all, Len(all) - MaxBuffer + 1, Len(all)) \in Seq(Int) \/ ~ (Len(all) > MaxBuffer)
  BY <1>1, StreamsAssumption
<1> HIDE DEF all
<1>3. CASE Len(all) - MaxBuffer > 0
  <2>1. AppendToBuffer(s, data) = [s EXCEPT !.buffer = SubSeq(all, Len(all) - MaxBuffer + 1, Len(all)), !.loss = TRUE]
    BY <1>3 DEF AppendToBuffer, all
  <2>2. Len(all) > MaxBuffer
    BY <1>3, <1>1, StreamsAssumption
  <2> QED
    BY <2>1, <2>2, <1>1, <1>2 DEF Streams, all
<1>4. CASE ~ (Len(all) - MaxBuffer > 0)
  <2>1. AppendToBuffer(s, data) = [s EXCEPT !.buffer = all]
    BY <1>4 DEF AppendToBuffer, all
  <2>2. Len(all) <= MaxBuffer
    BY <1>4, <1>1, StreamsAssumption
  <2> QED
    BY <2>1, <2>2, <1>1 DEF Streams, all
<1> QED
  BY <1>3, <1>4

(* A stretch that starts where the stream goes on, joined to the buffer. *)
LEMMA JoinGoesOn ==
  ASSUME NEW s \in Streams, NEW t \in Streams, NEW data,
         NEW e \in Connections, NEW p \in Places, Stretch(data, e, p), s.next = Seq32(e, p),
         t.next = Wrap(s.next + Len(data)),
         \/ /\ Len(s.buffer \o data) > MaxBuffer /\ t.loss = TRUE
            /\ t.buffer = SubSeq(s.buffer \o data, Len(s.buffer \o data) - MaxBuffer + 1, Len(s.buffer \o data))
         \/ t.loss = s.loss /\ t.buffer = s.buffer \o data
  PROVE  /\ p + Len(data) \in Places
         /\ GoesOn(s, t, e, p, p + Len(data))
         /\ t.next # s.next
<1> DEFINE b == s.buffer
           n == Len(data)
           all == b \o data
<1>1. b \in Seq(Int) /\ data \in Seq(Int) /\ n \in Nat /\ n > 0
  BY DEF Streams, Stretch
<1>2. Len(all) = Len(b) + n /\ Len(b) \in Nat
  BY <1>1
<1>3. \A i \in 1 .. Len(b) : all[i] = b[i]
  BY <1>1
<1>4. \A i \in 1 .. n : all[Len(b) + i] = Byte(e, p + i - 1)
  <2>1. \A i \in 1 .. n : all[Len(b) + i] = data[i]
    BY <1>1
  <2> QED
    BY <2>1 DEF Stretch
<1>5. p + n \in Places /\ t.next = Seq32(e, p + n)
  BY <1>1, PlaceAfter DEF Stretch
<1>6. t.buffer # <<>> /\ t.buffer[Len(t.buffer)] = all[Len(all)]
  <2>1. CASE t.buffer = all
    BY <2>1, <1>2, <1>1
  <2>2. CASE t.buffer = SubSeq(all, Len(all) - MaxBuffer + 1, Len(all)) /\ Len(all) > MaxBuffer
    <3>1. all \in Seq(Int) /\ MaxBuffer \in Nat /\ MaxBuffer > 0
      BY <1>1, StreamsAssumption
    <3> HIDE DEF all
    <3>2. Len(t.buffer) = MaxBuffer /\ t.buffer[MaxBuffer] = all[Len(all)]
      BY <2>2, <3>1, Suffix
    <3> QED
      BY <3>1, <3>2
  <2> QED
    BY <2>1, <2>2
<1>7. all[Len(all)] = Byte(e, p + n - 1)
  BY <1>1, <1>2, <1>4
<1>8. ~ t.loss => Appends(b, t.buffer, e, p, p + n)
  <2> SUFFICES ASSUME ~ t.loss PROVE Appends(b, t.buffer, e, p, p + n)
    OBVIOUS
  <2>1. t.buffer = all /\ (p + n) - p = n
    BY <1>1 DEF Places
  <2> QED
    BY <2>1, <1>1, <1>2, <1>3, <1>4 DEF Appends, Places
<1>9. ASSUME Tied(s), Contiguous(b) PROVE Contiguous(t.buffer)
  <2>1. b # <<>> => b[Len(b)] = Byte(e, p - 1)
    <3> SUFFICES ASSUME b # <<>> PROVE b[Len(b)] = Byte(e, p - 1)
      OBVIOUS
    <3>1. PICK f \in Connections, q \in Places : s.next = Seq32(f, q) /\ b[Len(b)] = Byte(f, q - 1)
      BY <1>9 DEF Tied, EndsAt
    <3>2. Seq32(f, q) = Seq32(e, p)
      BY <3>1
    <3>3. f = e /\ q = p
      BY <3>2, PlaceIsUnique
    <3> QED
      BY <3>1, <3>3
  <2>2. Contiguous(all)
    <3> SUFFICES ASSUME NEW i \in 1 .. Len(all) - 1 PROVE all[i + 1] = all[i] + 1
      BY DEF Contiguous
    <3>1. CASE i < Len(b)
      <4>1. i \in 1 .. Len(b) - 1 /\ i + 1 \in 1 .. Len(b) /\ i \in 1 .. Len(b)
        BY <3>1, <1>2
      <4> QED
        BY <4>1, <1>3, <1>9 DEF Contiguous
    <3>2. CASE i = Len(b)
      <4>1. b # <<>> /\ i \in 1 .. Len(b) /\ 1 \in 1 .. n
        BY <3>2, <1>1, <1>2
      <4>2. all[i] = Byte(e, p - 1)
        BY <4>1, <3>2, <2>1, <1>3
      <4>3. all[i + 1] = Byte(e, p)
        BY <4>1, <3>2, <1>4 DEF Places
      <4> QED
        <5>1. p - 1 \in Int /\ (p - 1) + 1 = p
          BY DEF Places
        <5> QED
          BY <5>1, <4>2, <4>3, NextByte
    <3>3. CASE i > Len(b)
      <4> DEFINE j == i - Len(b)
      <4>1. j \in 1 .. n /\ j + 1 \in 1 .. n /\ i = Len(b) + j /\ i + 1 = Len(b) + (j + 1)
        BY <3>3, <1>2, <1>1
      <4>2. all[i] = Byte(e, p + j - 1) /\ all[i + 1] = Byte(e, p + (j + 1) - 1)
        BY <4>1, <1>4
      <4> QED
        <5>1. p + j - 1 \in Int /\ (p + j - 1) + 1 = p + (j + 1) - 1
          BY <4>1 DEF Places
        <5> QED
          BY <5>1, <4>2, NextByte
    <3>4. i \in Int /\ Len(b) \in Int
      BY <1>2
    <3>5. i < Len(b) \/ i = Len(b) \/ i > Len(b)
      BY <3>4
    <3> QED
      BY <3>1, <3>2, <3>3, <3>5
  <2>3. all \in Seq(Int) /\ MaxBuffer \in Nat /\ MaxBuffer > 0
    BY <1>1, StreamsAssumption
  <2> HIDE DEF all
  <2>4. CASE t.buffer = SubSeq(all, Len(all) - MaxBuffer + 1, Len(all)) /\ Len(all) > MaxBuffer
    <3> DEFINE d == Len(all) - MaxBuffer
    <3>1. d \in Nat /\ Len(t.buffer) = MaxBuffer /\ \A i \in 1 .. MaxBuffer : t.buffer[i] = all[d + i]
      BY <2>4, <2>3
    <3> SUFFICES ASSUME NEW i \in 1 .. Len(t.buffer) - 1 PROVE t.buffer[i + 1] = t.buffer[i] + 1
      BY DEF Contiguous
    <3>2. d + i \in 1 .. Len(all) - 1 /\ i \in 1 .. MaxBuffer /\ i + 1 \in 1 .. MaxBuffer /\ (d + i) + 1 = d + (i + 1)
      BY <3>1, <2>3
    <3> HIDE DEF d
    <3> QED
      BY <3>1, <3>2, <2>2 DEF Contiguous
  <2> QED
    BY <2>2, <2>4 DEF all
<1>10. p < p + n /\ s.loss => t.loss
  BY <1>1 DEF Places
<1>11. GoesOn(s, t, e, p, p + n)
  BY <1>1, <1>5, <1>6, <1>7, <1>8, <1>9, <1>10 DEF GoesOn, Places
<1>12. t.next # s.next
  BY <1>1, <1>5, PlaceIsUnique DEF Places
<1> QED
  BY <1>5, <1>11, <1>12

(* A cache is a function on finitely many sequence numbers.                *)
LEMMA CachesFinite ==
  ASSUME NEW c \in Caches
  PROVE  /\ IsFiniteSet(DOMAIN c) /\ DOMAIN c \subseteq SeqNum
         /\ Cardinality(DOMAIN c) \in Nat
         /\ \A k \in DOMAIN c : c[k] \in Seq(Int)
         /\ c = [k \in DOMAIN c |-> c[k]]
<1>1. DOMAIN c \subseteq SeqNum /\ \A k \in DOMAIN c : c[k] \in Seq(Int)
  BY DEF Caches
<1>2. IsFiniteSet(SeqNum)
  BY FS_Interval, HalfSpace DEF SeqNum
<1>3. IsFiniteSet(DOMAIN c)
  BY <1>1, <1>2, FS_Subset
<1>4. c = [k \in DOMAIN c |-> c[k]]
  BY DEF Caches
<1> QED
  BY <1>1, <1>3, <1>4, FS_CardinalityType

(* cache_insert, field by field.                                           *)
LEMMA CacheInsertFields ==
  ASSUME NEW s \in Streams, NEW k \in SeqNum, NEW data \in Seq(Int)
  PROVE  LET t == CacheInsert(s, k, data)
         IN /\ t \in Streams
            /\ t.next = s.next /\ t.buffer = s.buffer /\ t.loss = s.loss
            /\ t.cost = s.cost + Charge(data) - IF k \in DOMAIN s.cache THEN Charge(s.cache[k]) ELSE 0
            /\ DOMAIN t.cache = DOMAIN s.cache \cup {k}
            /\ \A x \in DOMAIN t.cache : t.cache[x] = IF x = k THEN data ELSE s.cache[x]
<1> DEFINE c == [x \in DOMAIN s.cache \cup {k} |-> IF x = k THEN data ELSE s.cache[x]]
           cost == s.cost + Charge(data) - IF k \in DOMAIN s.cache THEN Charge(s.cache[k]) ELSE 0
<1>1. s.cache \in Caches /\ s.cost \in Int
  BY DEF Streams
<1>2. c \in Caches
  <2>1. c \in [DOMAIN s.cache \cup {k} -> Seq(Int)]
    BY <1>1, CachesFinite
  <2>2. DOMAIN s.cache \cup {k} \in SUBSET SeqNum
    BY <1>1, CachesFinite
  <2> HIDE DEF c
  <2> QED
    BY <2>1, <2>2 DEF Caches
<1>3. cost \in Int
  <2>1. \A d \in Seq(Int) : Charge(d) \in Int
    BY StreamsAssumption DEF Charge
  <2>2. k \in DOMAIN s.cache => s.cache[k] \in Seq(Int)
    BY <1>1, CachesFinite
  <2> QED
    BY <1>1, <2>1, <2>2
<1>4. CacheInsert(s, k, data) = [s EXCEPT !.cache = c, !.cost = cost]
  BY DEF CacheInsert, Streams
<1>5. DOMAIN c = DOMAIN s.cache \cup {k} /\ \A x \in DOMAIN c : c[x] = IF x = k THEN data ELSE s.cache[x]
  OBVIOUS
<1> HIDE DEF c
<1> QED
  BY <1>2, <1>3, <1>4, <1>5 DEF Streams

(* cache_remove, field by field.                                           *)
LEMMA CacheRemoveFields ==
  ASSUME NEW s \in Streams, NEW k \in DOMAIN s.cache
  PROVE  LET t == CacheRemove(s, k)
         IN /\ t \in Streams
            /\ t.next = s.next /\ t.buffer = s.buffer /\ t.loss = s.loss
            /\ t.cost = s.cost - Charge(s.cache[k])
            /\ DOMAIN t.cache = DOMAIN s.cache \ {k}
            /\ \A x \in DOMAIN t.cache : t.cache[x] = s.cache[x]
            /\ Cardinality(DOMAIN t.cache) < Cardinality(DOMAIN s.cache)
<1> DEFINE c == [x \in DOMAIN s.cache \ {k} |-> s.cache[x]]
           cost == s.cost - Charge(s.cache[k])
<1>1. s.cache \in Caches /\ s.cost \in Int
  BY DEF Streams
<1>2. c \in Caches
  <2>1. c \in [DOMAIN s.cache \ {k} -> Seq(Int)]
    BY <1>1, CachesFinite
  <2>2. DOMAIN s.cache \ {k} \in SUBSET SeqNum
    BY <1>1, CachesFinite
  <2> HIDE DEF c
  <2> QED
    BY <2>1, <2>2 DEF Caches
<1>3. cost \in Int
  BY <1>1, CachesFinite, StreamsAssumption DEF Charge
<1>4. CacheRemove(s, k) = [s EXCEPT !.cache = c, !.cost = cost]
  BY DEF CacheRemove, Restrict, Streams
<1>5. DOMAIN c = DOMAIN s.cache \ {k} /\ \A x \in DOMAIN c : c[x] = s.cache[x]
  OBVIOUS
<1>6. Cardinality(DOMAIN s.cache \ {k}) < Cardinality(DOMAIN s.cache)
  <2> DEFINE D == DOMAIN s.cache
  <2>1. IsFiniteSet(D) /\ Cardinality(D) \in Nat /\ k \in D
    BY <1>1, CachesFinite
  <2> HIDE DEF D
  <2>2. Cardinality(D \ {k}) = Cardinality(D) - 1
    BY <2>1, FS_RemoveElement
  <2> QED
    BY <2>1, <2>2 DEF D
<1> HIDE DEF c
<1> QED
  BY <1>2, <1>3, <1>4, <1>5, <1>6 DEF Streams

Any(D) == CHOOSE x \in D : TRUE

GapTable(c, t) == [D \in SUBSET DOMAIN c |-> IF D = {} THEN 0 ELSE Len(c[Any(D)]) + t[D \ {Any(D)}]]

(* GapBytes is the last row of the table that sums segment by segment.     *)
LEMMA GapBytesTable ==
  ASSUME NEW c
  PROVE  GapBytes(c) = (CHOOSE t : t = GapTable(c, t))[DOMAIN c]
BY DEF GapBytes, MapThenSumSet, MapThenFoldSet, GapTable, Any

IsTable(c, t) == t \in [SUBSET DOMAIN c -> Nat] /\ t = GapTable(c, t)

(* The element taken out is one of the set.                                *)
LEMMA AnyIsIn ==
  ASSUME NEW D, D # {}
  PROVE  Any(D) \in D
BY DEF Any

(* The table of sums exists: row by row, sets of a larger size from those  *)
(* of a smaller.                                                           *)
LEMMA TableExists ==
  ASSUME NEW c \in Caches
  PROVE  \E t : IsTable(c, t)
<1> DEFINE S == DOMAIN c
           Step(g, D) == IF D = {} THEN 0 ELSE Len(c[Any(D)]) + g[D \ {Any(D)}]
           Good(g, n) == \A D \in SUBSET S : Cardinality(D) <= n => g[D] = Step(g, D)
           T == {n \in Nat : \E g \in [SUBSET S -> Nat] : Good(g, n)}
<1>0. IsFiniteSet(S) /\ \A D \in SUBSET S : Cardinality(D) \in Nat /\ Cardinality(D) <= Cardinality(S)
  BY CachesFinite, FS_Subset, FS_CardinalityType
<1>1. ASSUME NEW g \in [SUBSET S -> Nat], NEW D \in SUBSET S PROVE Step(g, D) \in Nat
  <2>1. CASE D # {}
    <3>1. Any(D) \in S
      BY <2>1, AnyIsIn
    <3>2. Len(c[Any(D)]) \in Nat /\ g[D \ {Any(D)}] \in Nat
      BY <3>1, CachesFinite
    <3> QED
      BY <3>2
  <2> QED
    BY <2>1
<1>2. 0 \in T
  <2> DEFINE g == [D \in SUBSET S |-> 0]
  <2>1. ASSUME NEW D \in SUBSET S, Cardinality(D) <= 0 PROVE g[D] = Step(g, D)
    <3>1. Cardinality(D) = 0 /\ IsFiniteSet(D)
      BY <1>0, <2>1, FS_Subset
    <3>2. D = {}
      BY <3>1, FS_EmptySet
    <3> QED
      BY <3>2
  <2> QED
    BY <2>1
<1>3. ASSUME NEW n \in Nat, n \in T PROVE n + 1 \in T
  <2>1. PICK g \in [SUBSET S -> Nat] : Good(g, n)
    BY <1>3
  <2> DEFINE h == [D \in SUBSET S |-> IF Cardinality(D) <= n THEN g[D] ELSE Step(g, D)]
  <2>2. h \in [SUBSET S -> Nat]
    <3> HIDE DEF Step
    <3> QED
      BY <1>1
  <2>3. ASSUME NEW D \in SUBSET S, Cardinality(D) <= n + 1 PROVE h[D] = Step(h, D)
    <3>1. h[D] = Step(g, D)
      BY <2>1
    <3>2. CASE D # {}
      <4>1. Any(D) \in D
        BY <3>2, AnyIsIn
      <4> DEFINE E == D \ {Any(D)}
      <4>2. E \in SUBSET S /\ Cardinality(E) \in Nat /\ Cardinality(D) \in Nat /\ Cardinality(E) = Cardinality(D) - 1
        BY <1>0, <3>2, <4>1, SmallerSet
      <4>3. Cardinality(E) <= n
        BY <2>3, <4>2
      <4>4. h[E] = g[E]
        BY <4>2, <4>3
      <4> HIDE DEF h
      <4> QED
        BY <3>1, <4>4
    <3>3. CASE D = {}
      BY <3>1, <3>3
    <3> QED
      BY <3>2, <3>3
  <2> HIDE DEF h, Step
  <2> QED
    BY <2>2, <2>3
<1>4. \A n \in Nat : n \in T
  <2> HIDE DEF T
  <2> QED
    BY <1>2, <1>3, NatSetInduction
<1>5. PICK g \in [SUBSET S -> Nat] : Good(g, Cardinality(S))
  BY <1>0, <1>4
<1>6. g = [D \in SUBSET S |-> Step(g, D)]
  <2>1. \A D \in SUBSET S : g[D] = Step(g, D)
    BY <1>0, <1>5
  <2> HIDE DEF Step
  <2> QED
    BY <2>1
<1>7. IsTable(c, g)
  BY <1>6 DEF IsTable, GapTable
<1> QED
  BY <1>7

(* A row of the table, from the row without the element taken out.         *)
LEMMA TableStep ==
  ASSUME NEW c \in Caches, NEW t, IsTable(c, t), NEW D \in SUBSET DOMAIN c
  PROVE  /\ t[D] \in Nat
         /\ D = {} => t[D] = 0
         /\ D # {} => t[D] = Len(c[Any(D)]) + t[D \ {Any(D)}]
         /\ \A x \in D : Len(c[x]) \in Nat
<1>1. t[D] = GapTable(c, t)[D]
  BY DEF IsTable
<1>2. t[D] = IF D = {} THEN 0 ELSE Len(c[Any(D)]) + t[D \ {Any(D)}]
  BY <1>1 DEF GapTable
<1> QED
  BY <1>2, CachesFinite DEF IsTable

(* Whichever element is taken out first, the sum is the same. *)
LEMMA TableSplits ==
  ASSUME NEW c \in Caches, NEW t, IsTable(c, t)
  PROVE  \A D \in SUBSET DOMAIN c : \A y \in D : t[D] = Len(c[y]) + t[D \ {y}]
<1> DEFINE S == DOMAIN c
           P == {D \in SUBSET S : \A y \in D : t[D] = Len(c[y]) + t[D \ {y}]}
<1>1. {} \in P
  OBVIOUS
<1>2. ASSUME NEW D \in SUBSET S, D # {}, \A x \in D : D \ {x} \in P PROVE D \in P
  <2> SUFFICES ASSUME NEW y \in D PROVE t[D] = Len(c[y]) + t[D \ {y}]
    OBVIOUS
  <2> DEFINE x == Any(D)
  <2>1. x \in D /\ t[D] = Len(c[x]) + t[D \ {x}]
    BY <1>2, AnyIsIn, TableStep
  <2> HIDE DEF x
  <2>2. CASE x # y
    <3> DEFINE E == (D \ {x}) \ {y}
    <3>1. E = (D \ {y}) \ {x} /\ y \in D \ {x} /\ x \in D \ {y} /\ E \in SUBSET S
      BY <2>1, <2>2
    <3>2. t[D \ {x}] = Len(c[y]) + t[E]
      BY <1>2, <2>1, <3>1
    <3>3. t[D \ {y}] = Len(c[x]) + t[E]
      BY <1>2, <2>1, <3>1
    <3>4. Len(c[x]) \in Nat /\ Len(c[y]) \in Nat /\ t[E] \in Nat
      BY <2>1, <3>1, TableStep, CachesFinite
    <3> HIDE DEF E
    <3> QED
      BY <2>1, <3>2, <3>3, <3>4
  <2> QED
    BY <2>1, <2>2
<1>3. IsFiniteSet(S)
  BY CachesFinite
<1> HIDE DEF P
<1>4. \A D \in SUBSET S : D \in P
  BY <1>1, <1>2, <1>3, SetInduction
<1> QED
  BY <1>4 DEF P

(* Two caches that agree on D have the same sum over D.                    *)
LEMMA TablesAgree ==
  ASSUME NEW c \in Caches, NEW t, IsTable(c, t), NEW d \in Caches, NEW u, IsTable(d, u),
         NEW S \in SUBSET DOMAIN c, S \subseteq DOMAIN d, \A x \in S : c[x] = d[x]
  PROVE  t[S] = u[S]
<1> DEFINE P == {D \in SUBSET S : t[D] = u[D]}
<1>1. {} \in P
  <2>1. {} \in SUBSET DOMAIN c /\ {} \in SUBSET DOMAIN d
    OBVIOUS
  <2>2. t[{}] = 0 /\ u[{}] = 0
    BY <2>1, TableStep
  <2> QED
    BY <2>2
<1>2. ASSUME NEW D \in SUBSET S, D # {}, \A x \in D : D \ {x} \in P PROVE D \in P
  <2> DEFINE x == Any(D)
  <2>1. D \in SUBSET DOMAIN c /\ D \in SUBSET DOMAIN d
    OBVIOUS
  <2>2. x \in D /\ t[D] = Len(c[x]) + t[D \ {x}] /\ u[D] = Len(d[x]) + u[D \ {x}]
    <3>1. x \in D
      BY <1>2, AnyIsIn
    <3>2. t[D] = Len(c[x]) + t[D \ {x}]
      BY <1>2, <2>1, TableStep
    <3>3. u[D] = Len(d[x]) + u[D \ {x}]
      BY <1>2, <2>1, TableStep
    <3> QED
      BY <3>1, <3>2, <3>3
  <2> HIDE DEF x
  <2>3. t[D \ {x}] = u[D \ {x}] /\ c[x] = d[x]
    BY <1>2, <2>2
  <2> QED
    BY <2>2, <2>3
<1>3. IsFiniteSet(S)
  BY CachesFinite, FS_Subset
<1> HIDE DEF P
<1>4. \A D \in SUBSET S : D \in P
  BY <1>1, <1>2, <1>3, SetInduction
<1> QED
  BY <1>4 DEF P

(* What GapBytes sums is what the table says.                              *)
LEMMA GapBytesOfTable ==
  ASSUME NEW c \in Caches
  PROVE  \E t : IsTable(c, t) /\ GapBytes(c) = t[DOMAIN c]
<1> DEFINE t == CHOOSE t : t = GapTable(c, t)
<1>1. PICK g : IsTable(c, g)
  BY TableExists
<1>2. t = GapTable(c, t)
  BY <1>1 DEF IsTable
<1>3. GapBytes(c) = t[DOMAIN c]
  BY GapBytesTable
<1> HIDE DEF t
<1>4. \A D \in SUBSET DOMAIN c : t[D] = IF D = {} THEN 0 ELSE Len(c[Any(D)]) + t[D \ {Any(D)}]
  <2>1. \A D \in SUBSET DOMAIN c : GapTable(c, t)[D] = IF D = {} THEN 0 ELSE Len(c[Any(D)]) + t[D \ {Any(D)}]
    BY DEF GapTable
  <2> QED
    BY <1>2, <2>1
<1>5. \A D \in SUBSET DOMAIN c : t[D] \in Nat
  <2> DEFINE P == {D \in SUBSET DOMAIN c : t[D] \in Nat}
  <2>1. {} \in P
    <3>1. {} \in SUBSET DOMAIN c
      OBVIOUS
    <3>2. t[{}] = 0
      BY <1>4, <3>1
    <3> QED
      BY <3>1, <3>2
  <2>2. ASSUME NEW D \in SUBSET DOMAIN c, D # {}, \A x \in D : D \ {x} \in P PROVE D \in P
    <3>1. Any(D) \in D /\ t[D] = Len(c[Any(D)]) + t[D \ {Any(D)}]
      BY <1>4, <2>2, AnyIsIn
    <3>2. Len(c[Any(D)]) \in Nat /\ t[D \ {Any(D)}] \in Nat
      BY <2>2, <3>1, CachesFinite
    <3> QED
      BY <3>1, <3>2
  <2>3. IsFiniteSet(DOMAIN c)
    BY CachesFinite
  <2> HIDE DEF P
  <2>4. \A D \in SUBSET DOMAIN c : D \in P
    BY <2>1, <2>2, <2>3, SetInduction
  <2> QED
    BY <2>4 DEF P
<1>6. t \in [SUBSET DOMAIN c -> Nat]
  <2>1. t = [D \in SUBSET DOMAIN c |-> t[D]]
    <3>1. GapTable(c, t) = [D \in SUBSET DOMAIN c |-> GapTable(c, t)[D]]
      BY DEF GapTable
    <3> QED
      BY <1>2, <3>1
  <2> QED
    BY <1>5, <2>1
<1>7. IsTable(c, t)
  BY <1>2, <1>6 DEF IsTable
<1> QED
  BY <1>3, <1>7

CostOf(c) == GapBytes(c) + EntryOverhead * Cardinality(DOMAIN c)

(* The empty cache.                                                        *)
LEMMA EmptyIsCache == <<>> \in Caches
<1>1. <<>> \in [{} -> Seq(Int)] /\ {} \in SUBSET SeqNum
  OBVIOUS
<1> QED
  BY <1>1 DEF Caches

(* The buffer holds bytes the server sent, and no more than its cap. *)
BufferSound(b) == Len(b) <= MaxBuffer /\ \A i \in 1 .. Len(b) : b[i] \in Bytes

(* What the stream holds: no more than the cap of bytes in order, and       *)
(* segments each of which some connection sent there, all paid for.         *)
WellHeld(s) ==
  /\ BufferSound(s.buffer)
  /\ s.cost = CostOf(s.cache)
  /\ \A k \in DOMAIN s.cache : Placed(k, s.cache[k])

(* An empty cache costs nothing.                                           *)
LEMMA CostOfEmpty == CostOf(<<>>) = 0
<1>1. <<>> \in Caches
  BY EmptyIsCache
<1>2. DOMAIN <<>> = {}
  OBVIOUS
<1>3. GapBytes(<<>>) = 0
  <2> DEFINE c == <<>>
  <2>1. c \in Caches /\ DOMAIN c = {}
    BY <1>1, <1>2
  <2> HIDE DEF c
  <2>2. PICK t : IsTable(c, t) /\ GapBytes(c) = t[DOMAIN c]
    BY <2>1, GapBytesOfTable
  <2>3. DOMAIN c \in SUBSET DOMAIN c
    OBVIOUS
  <2>4. t[DOMAIN c] = 0
    BY <2>1, <2>2, <2>3, TableStep
  <2> QED
    BY <2>2, <2>4 DEF c
<1>4. Cardinality(DOMAIN <<>>) = 0
  BY <1>2, FS_EmptySet
<1> QED
  BY <1>3, <1>4, StreamsAssumption DEF CostOf

(* A cost is never negative.                                               *)
LEMMA CostIsNat ==
  ASSUME NEW c \in Caches
  PROVE  CostOf(c) \in Nat
<1>1. GapBytes(c) \in Nat
  <2>1. PICK t : IsTable(c, t) /\ GapBytes(c) = t[DOMAIN c]
    BY GapBytesOfTable
  <2> QED
    BY <2>1 DEF IsTable
<1>2. Cardinality(DOMAIN c) \in Nat /\ EntryOverhead \in Nat
  BY CachesFinite, StreamsAssumption
<1>3. EntryOverhead * Cardinality(DOMAIN c) \in Nat
  BY <1>2
<1> QED
  BY <1>1, <1>3 DEF CostOf

(* d is c without segment k. *)
LEMMA CostWithout ==
  ASSUME NEW c \in Caches, NEW k \in DOMAIN c, NEW d \in Caches,
         DOMAIN d = DOMAIN c \ {k}, \A x \in DOMAIN d : d[x] = c[x]
  PROVE  CostOf(c) = CostOf(d) + Charge(c[k]) /\ Charge(c[k]) \in Nat
<1>1. PICK t : IsTable(c, t) /\ GapBytes(c) = t[DOMAIN c]
  BY GapBytesOfTable
<1>2. PICK u : IsTable(d, u) /\ GapBytes(d) = u[DOMAIN d]
  BY GapBytesOfTable
<1>3. DOMAIN d \in SUBSET DOMAIN c
  OBVIOUS
<1>4. t[DOMAIN c] = Len(c[k]) + t[DOMAIN d]
  BY <1>1, TableSplits
<1>5. t[DOMAIN d] = u[DOMAIN d]
  BY <1>1, <1>2, <1>3, TablesAgree
<1> DEFINE g == GapBytes(c)
           h == GapBytes(d)
           n == Cardinality(DOMAIN c)
           m == Cardinality(DOMAIN d)
           l == Len(c[k])
<1>6. g \in Nat /\ h \in Nat /\ g = l + h
  BY <1>1, <1>2, <1>3, <1>4, <1>5 DEF IsTable
<1>7. l \in Nat /\ n \in Nat /\ m \in Nat /\ EntryOverhead \in Nat
  BY CachesFinite, StreamsAssumption
<1>8. n = m + 1
  <2> DEFINE D == DOMAIN c
  <2>1. IsFiniteSet(D) /\ k \in D
    BY CachesFinite
  <2> HIDE DEF D
  <2>2. Cardinality(D \ {k}) = Cardinality(D) - 1
    BY <2>1, FS_RemoveElement
  <2>3. m = n - 1
    BY <2>2 DEF D
  <2> QED
    BY <1>7, <2>3
<1> HIDE DEF g, h, n, m, l
<1>9. EntryOverhead * n = EntryOverhead * m + EntryOverhead
  BY <1>7, <1>8
<1>10. EntryOverhead * m \in Nat
  BY <1>7
<1>11. g + EntryOverhead * n = (h + EntryOverhead * m) + (l + EntryOverhead)
  BY <1>6, <1>7, <1>9, <1>10
<1> QED
  BY <1>7, <1>11 DEF CostOf, Charge, g, h, n, m, l

(* What the loops keep: s comes from r by going on within one connection,   *)
(* and drops cached segments only.                                          *)
From(r, s) ==
  /\ s \in Streams /\ WellHeld(s) /\ Extends(r, s)
  /\ DOMAIN s.cache \subseteq DOMAIN r.cache /\ s.cost <= r.cost

(* ... and if it did not move on, it is r.                                  *)
Drained(r) == {s \in Streams : From(r, s) /\ (s.next = r.next => s = r)}

(* What a loop guarantees of one round it guarantees of two.               *)
LEMMA FromOnward ==
  ASSUME NEW r \in Streams, NEW s, NEW t, From(r, s), From(s, t)
  PROVE  From(r, t) /\ (t.next = r.next => s.next = r.next)
<1>1. r.cost \in Int /\ s.cost \in Int /\ t.cost \in Int /\ s.cost <= r.cost /\ t.cost <= s.cost
  BY DEF From, Streams
<1>2. t.cost <= r.cost
  BY <1>1
<1> QED
  BY <1>2, ExtendsOnward DEF From

(* A loop that does nothing keeps its guarantee.                           *)
LEMMA FromItself ==
  ASSUME NEW r \in Streams, WellHeld(r), NEW e \in Connections, NEW p \in Places,
         r.next = Seq32(e, p)
  PROVE  From(r, r)
<1>1. r.cost <= r.cost
  BY DEF Streams
<1> QED
  BY <1>1, ExtendsItself DEF From

(* A stretch is made of bytes the server sent.                             *)
LEMMA StretchBytes ==
  ASSUME NEW data, NEW e \in Connections, NEW p \in Places, Stretch(data, e, p)
  PROVE  \A i \in 1 .. Len(data) : data[i] \in Bytes
<1> SUFFICES ASSUME NEW i \in 1 .. Len(data) PROVE data[i] \in Bytes
  OBVIOUS
<1>1. Len(data) \in Nat /\ p + Len(data) <= StreamLen /\ data[i] = Byte(e, p + i - 1)
  BY DEF Stretch
<1>2. p + i - 1 \in 0 .. StreamLen - 1
  BY <1>1, HalfSpace DEF Places
<1> QED
  BY <1>1, <1>2 DEF Bytes, Connections

(* A joined buffer keeps to its cap and to sent bytes.                     *)
LEMMA JoinBufferSound ==
  ASSUME NEW s \in Streams, BufferSound(s.buffer), NEW b, NEW data,
         NEW e \in Connections, NEW p \in Places, Stretch(data, e, p),
         \/ /\ Len(s.buffer \o data) > MaxBuffer
            /\ b = SubSeq(s.buffer \o data, Len(s.buffer \o data) - MaxBuffer + 1, Len(s.buffer \o data))
         \/ Len(s.buffer \o data) <= MaxBuffer /\ b = s.buffer \o data
  PROVE  BufferSound(b)
<1> DEFINE all == s.buffer \o data
<1>1. s.buffer \in Seq(Int) /\ data \in Seq(Int)
  BY DEF Streams, Stretch
<1>2. all \in Seq(Int) /\ \A i \in 1 .. Len(all) : all[i] \in Bytes
  <2>1. \A i \in 1 .. Len(s.buffer) : s.buffer[i] \in Bytes
    BY DEF BufferSound
  <2>2. \A i \in 1 .. Len(data) : data[i] \in Bytes
    BY StretchBytes
  <2>3. \A i \in 1 .. Len(all) : all[i] = IF i <= Len(s.buffer) THEN s.buffer[i] ELSE data[i - Len(s.buffer)]
    BY <1>1
  <2>4. Len(all) = Len(s.buffer) + Len(data) /\ Len(s.buffer) \in Nat /\ Len(data) \in Nat
    BY <1>1
  <2>5. ASSUME NEW i \in 1 .. Len(all) PROVE all[i] \in Bytes
    <3>1. CASE i <= Len(s.buffer)
      BY <2>1, <2>3, <2>4, <3>1
    <3>2. CASE i > Len(s.buffer)
      <4>1. i - Len(s.buffer) \in 1 .. Len(data) /\ ~ (i <= Len(s.buffer))
        BY <2>4, <3>2
      <4> QED
        BY <2>2, <2>3, <4>1
    <3> QED
      BY <2>4, <3>1, <3>2
  <2> QED
    BY <1>1, <2>5
<1> HIDE DEF all
<1>3. CASE Len(all) <= MaxBuffer /\ b = all
  BY <1>2, <1>3 DEF BufferSound
<1>4. CASE Len(all) > MaxBuffer /\ b = SubSeq(all, Len(all) - MaxBuffer + 1, Len(all))
  <2> DEFINE d == Len(all) - MaxBuffer
  <2>1. MaxBuffer \in Nat \ {0} /\ Len(all) \in Nat /\ d \in Nat
    BY <1>2, <1>4, StreamsAssumption
  <2>2. Len(b) = MaxBuffer /\ \A i \in 1 .. MaxBuffer : b[i] = all[d + i]
    BY <1>2, <1>4, <2>1, Suffix
  <2>3. \A i \in 1 .. MaxBuffer : d + i \in 1 .. Len(all)
    BY <2>1
  <2> HIDE DEF d
  <2>4. ASSUME NEW i \in 1 .. Len(b) PROVE b[i] \in Bytes
    <3>1. i \in 1 .. MaxBuffer /\ d + i \in 1 .. Len(all)
      BY <2>2, <2>3
    <3> QED
      BY <1>2, <2>2, <3>1
  <2>5. Len(b) <= MaxBuffer
    BY <2>1, <2>2
  <2> QED
    BY <2>4, <2>5 DEF BufferSound
<1> QED
  BY <1>3, <1>4 DEF all

(* Taking a segment out keeps the rest paid for.                           *)
LEMMA RemoveSound ==
  ASSUME NEW s \in Streams, WellHeld(s), NEW k \in DOMAIN s.cache
  PROVE  LET t == CacheRemove(s, k)
         IN WellHeld(t) /\ t.cost <= s.cost
<1> DEFINE t == CacheRemove(s, k)
<1>1. /\ t \in Streams /\ t.buffer = s.buffer /\ t.cost = s.cost - Charge(s.cache[k])
      /\ DOMAIN t.cache = DOMAIN s.cache \ {k}
      /\ \A x \in DOMAIN t.cache : t.cache[x] = s.cache[x]
  BY CacheRemoveFields
<1> HIDE DEF t
<1>2. s.cache \in Caches /\ t.cache \in Caches /\ s.cost = CostOf(s.cache)
  BY <1>1 DEF Streams, WellHeld
<1>3. CostOf(s.cache) = CostOf(t.cache) + Charge(s.cache[k]) /\ Charge(s.cache[k]) \in Nat
  BY <1>1, <1>2, CostWithout
<1>4. CostOf(s.cache) \in Nat /\ CostOf(t.cache) \in Nat
  BY <1>2, CostIsNat
<1>5. t.cost = CostOf(t.cache) /\ t.cost <= s.cost
  BY <1>1, <1>2, <1>3, <1>4
<1> QED
  BY <1>1, <1>5 DEF WellHeld, t

(* Putting a segment in, over one of the same number or not, keeps the     *)
(* cache paid for.                                                         *)
LEMMA InsertSound ==
  ASSUME NEW s \in Streams, WellHeld(s), NEW k \in SeqNum, NEW data \in Seq(Int), Placed(k, data)
  PROVE  WellHeld(CacheInsert(s, k, data))
<1> DEFINE t == CacheInsert(s, k, data)
           rest == [x \in DOMAIN s.cache \ {k} |-> s.cache[x]]
<1>1. /\ t \in Streams /\ t.buffer = s.buffer
      /\ t.cost = s.cost + Charge(data) - IF k \in DOMAIN s.cache THEN Charge(s.cache[k]) ELSE 0
      /\ DOMAIN t.cache = DOMAIN s.cache \cup {k}
      /\ \A x \in DOMAIN t.cache : t.cache[x] = IF x = k THEN data ELSE s.cache[x]
  BY CacheInsertFields
<1> HIDE DEF t
<1>2. s.cache \in Caches /\ t.cache \in Caches /\ s.cost = CostOf(s.cache)
  BY <1>1 DEF Streams, WellHeld
<1>3. rest \in Caches
  <2>1. rest \in [DOMAIN s.cache \ {k} -> Seq(Int)] /\ DOMAIN s.cache \ {k} \in SUBSET SeqNum
    BY <1>2, CachesFinite
  <2> HIDE DEF rest
  <2> QED
    BY <2>1 DEF Caches
<1>4. DOMAIN rest = DOMAIN s.cache \ {k} /\ \A x \in DOMAIN rest : rest[x] = s.cache[x]
  OBVIOUS
<1> HIDE DEF rest
<1>5. CostOf(t.cache) = CostOf(rest) + Charge(data) /\ Charge(data) \in Nat
  <2>1. k \in DOMAIN t.cache /\ t.cache[k] = data
    BY <1>1
  <2>2. DOMAIN rest = DOMAIN t.cache \ {k} /\ \A x \in DOMAIN rest : rest[x] = t.cache[x]
    BY <1>1, <1>4
  <2> QED
    BY <1>2, <1>3, <2>1, <2>2, CostWithout
<1>6. CostOf(rest) \in Nat /\ CostOf(s.cache) \in Nat
  BY <1>2, <1>3, CostIsNat
<1>7. t.cost = CostOf(t.cache)
  <2>1. CASE k \in DOMAIN s.cache
    <3>1. CostOf(s.cache) = CostOf(rest) + Charge(s.cache[k]) /\ Charge(s.cache[k]) \in Nat
      BY <1>2, <1>3, <1>4, <2>1, CostWithout
    <3>2. t.cost = s.cost + Charge(data) - Charge(s.cache[k])
      BY <1>1, <2>1
    <3> QED
      BY <1>2, <1>5, <1>6, <3>1, <3>2
  <2>2. CASE k \notin DOMAIN s.cache
    <3>1. rest = s.cache
      <4>1. s.cache = [x \in DOMAIN s.cache |-> s.cache[x]]
        BY <1>2, CachesFinite
      <4>2. DOMAIN s.cache \ {k} = DOMAIN s.cache
        BY <2>2
      <4> QED
        BY <4>1, <4>2 DEF rest
    <3>2. t.cost = s.cost + Charge(data) - 0
      BY <1>1, <2>2
    <3> QED
      BY <1>2, <1>5, <1>6, <3>1, <3>2
  <2> QED
    BY <2>1, <2>2
<1>8. ASSUME NEW x \in DOMAIN t.cache PROVE Placed(x, t.cache[x])
  <2>1. CASE x = k
    BY <2>1, <1>1
  <2>2. CASE x # k
    <3>1. x \in DOMAIN s.cache /\ t.cache[x] = s.cache[x]
      BY <2>2, <1>1
    <3> QED
      BY <3>1 DEF WellHeld
  <2> QED
    BY <2>1, <2>2
<1> QED
  BY <1>1, <1>7, <1>8 DEF WellHeld, t

(* One round of the drain: the segment at next, if there is one, is joined *)
(* to the buffer and leaves the cache.                                     *)
LEMMA DrainOneFrom ==
  ASSUME NEW r \in Streams, WellHeld(r), r.next \in DOMAIN r.cache
  PROVE  LET t == DrainOne(r)
         IN /\ From(r, t) /\ t.next # r.next
            /\ Cardinality(DOMAIN t.cache) < Cardinality(DOMAIN r.cache)
<1> DEFINE k == r.next
           data == r.cache[k]
           rest == CacheRemove(r, k)
           moved == [rest EXCEPT !.next = Wrap(@ + Len(data))]
           t == AppendToBuffer(moved, data)
<1>1. PICK e \in Connections, p \in Places : k = Seq32(e, p) /\ Stretch(data, e, p)
  BY DEF WellHeld, Placed
<1>2. /\ rest \in Streams
      /\ rest.next = r.next /\ rest.buffer = r.buffer /\ rest.loss = r.loss
      /\ DOMAIN rest.cache = DOMAIN r.cache \ {k}
      /\ \A x \in DOMAIN rest.cache : rest.cache[x] = r.cache[x]
      /\ Cardinality(DOMAIN rest.cache) < Cardinality(DOMAIN r.cache)
  BY CacheRemoveFields
<1>3. data \in Seq(Int) /\ Len(data) \in Nat
  BY <1>1 DEF Stretch
<1>4. Wrap(k + Len(data)) \in SeqNum
  <2>1. k + Len(data) \in Int
    BY <1>3 DEF Streams, SeqNum
  <2> QED
    BY <2>1, WrapOf
<1> HIDE DEF rest, data
<1>5. /\ moved \in Streams /\ moved.cache = rest.cache
      /\ moved.next = Wrap(k + Len(data)) /\ moved.buffer = r.buffer /\ moved.loss = r.loss
      /\ moved.cost = rest.cost
  BY <1>2, <1>4 DEF Streams
<1> HIDE DEF moved
<1>6. /\ t \in Streams /\ t.cache = moved.cache /\ t.cost = moved.cost /\ t.next = moved.next
      /\ \/ /\ Len(moved.buffer \o data) > MaxBuffer /\ t.loss = TRUE
            /\ t.buffer = SubSeq(moved.buffer \o data, Len(moved.buffer \o data) - MaxBuffer + 1, Len(moved.buffer \o data))
         \/ /\ Len(moved.buffer \o data) <= MaxBuffer
            /\ t.loss = moved.loss /\ t.buffer = moved.buffer \o data
  BY <1>3, <1>5, AppendFields
<1> HIDE DEF t
<1>7. t.next = Wrap(r.next + Len(data))
  BY <1>5, <1>6
<1>8. GoesOn(r, t, e, p, p + Len(data)) /\ p + Len(data) \in Places /\ t.next # r.next
  BY <1>1, <1>5, <1>6, <1>7, JoinGoesOn
<1>9. Extends(r, t)
  BY <1>8 DEF Extends
<1>10. WellHeld(t) /\ t.cost <= r.cost
  <2>1. WellHeld(rest) /\ rest.cost <= r.cost
    BY RemoveSound DEF rest
  <2>2. BufferSound(t.buffer)
    BY <1>1, <1>5, <1>6, JoinBufferSound DEF WellHeld
  <2> QED
    BY <1>5, <1>6, <2>1, <2>2 DEF WellHeld
<1>11. t = DrainOne(r)
  BY DEF DrainOne, t, moved, rest, data
<1> QED
  BY <1>2, <1>5, <1>6, <1>8, <1>9, <1>10, <1>11 DEF From

(* One round of Iterate applied to a state is the body applied to it. *)
LEMMA OneChoice ==
  ASSUME NEW x
  PROVE  (CHOOSE t \in {x} : TRUE) = x
OBVIOUS

(* The drain loop reaches a state its body leaves alone.                   *)
LEMMA DrainRun ==
  ASSUME NEW Q, NEW s \in Q, NEW m \in [Q -> Nat],
         \A r \in Q : DrainOne(r) \in Q /\ (DrainOne(r) = r \/ m[DrainOne(r)] < m[r])
  PROVE  LET t == Iterate(DrainOne, s, m[s])
         IN t \in Q /\ DrainOne(t) = t
<1> DEFINE F == [r \in Q |-> DrainOne(r)]
           Run(h) == [i \in Nat |-> IF i = 0 THEN s
                                    ELSE CHOOSE t \in {DrainOne(r) : r \in {h[i - 1]}} : TRUE]
           g == CHOOSE h : h = Run(h)
<1>1. F \in [Q -> Q] /\ \A r \in Q : F[r] = r \/ m[F[r]] < m[r]
  OBVIOUS
<1>2. PICK f : OrbitOf(f, Q, F, s)
  <2> HIDE DEF F
  <2> QED
    BY <1>1, OrbitExists
<1>3. f \in [Nat -> Q] /\ f[0] = s /\ \A i \in Nat : f[i + 1] = DrainOne(f[i])
  BY <1>2 DEF OrbitOf
<1>4. \A h : /\ Run(h) = [i \in Nat |-> Run(h)[i]]
             /\ \A i \in Nat : Run(h)[i] = IF i = 0 THEN s ELSE DrainOne(h[i - 1])
  <2>1. \A x : (CHOOSE t \in {DrainOne(r) : r \in {x}} : TRUE) = DrainOne(x)
    <3>1. \A x : {DrainOne(r) : r \in {x}} = {DrainOne(x)}
      OBVIOUS
    <3> QED
      BY <3>1, OneChoice
  <2> QED
    BY <2>1
<1> HIDE DEF Run
<1>5. f = Run(f)
  <2>1. ASSUME NEW i \in Nat PROVE f[i] = Run(f)[i]
    <3>1. CASE i # 0
      <4>1. i - 1 \in Nat /\ (i - 1) + 1 = i
        BY <3>1
      <4>2. f[i] = DrainOne(f[i - 1])
        BY <1>3, <4>1
      <4> QED
        BY <1>4, <3>1, <4>2
    <3> QED
      BY <1>3, <1>4, <3>1
  <2>2. f = [i \in Nat |-> f[i]]
    BY <1>3
  <2> QED
    BY <1>4, <2>1, <2>2
<1>6. g = Run(g)
  BY <1>5
<1> HIDE DEF g
<1>7. \A i \in Nat : g[i] = f[i]
  <2>1. \A i \in Nat : g[i] = IF i = 0 THEN s ELSE DrainOne(g[i - 1])
    BY <1>4, <1>6
  <2>2. g[0] = s
    BY <2>1
  <2>3. ASSUME NEW i \in Nat, g[i] \in Q PROVE g[i + 1] = F[g[i]]
    <3>1. i + 1 \in Nat /\ i + 1 # 0 /\ (i + 1) - 1 = i
      OBVIOUS
    <3> QED
      BY <2>1, <2>3, <3>1
  <2> HIDE DEF F
  <2> QED
    BY <1>1, <1>2, <2>2, <2>3, OrbitIsUnique
<1>8. Iterate(DrainOne, s, m[s]) = f[m[s]]
  BY <1>7 DEF Iterate, g, Run
<1>9. F[f[m[s]]] = f[m[s]]
  <2> HIDE DEF F
  <2> QED
    BY <1>1, <1>2, OrbitSettles
<1> QED
  BY <1>3, <1>8, <1>9

(* So does the reconcile loop.                                             *)
LEMMA ReconcileRun ==
  ASSUME NEW Q, NEW s \in Q, NEW m \in [Q -> Nat],
         \A r \in Q : ReconcileOne(r) \in Q /\ (ReconcileOne(r) = r \/ m[ReconcileOne(r)] < m[r])
  PROVE  LET t == Iterate(ReconcileOne, s, m[s])
         IN t \in Q /\ ReconcileOne(t) = t
<1> DEFINE F == [r \in Q |-> ReconcileOne(r)]
           Run(h) == [i \in Nat |-> IF i = 0 THEN s
                                    ELSE CHOOSE t \in {ReconcileOne(r) : r \in {h[i - 1]}} : TRUE]
           g == CHOOSE h : h = Run(h)
<1>1. F \in [Q -> Q] /\ \A r \in Q : F[r] = r \/ m[F[r]] < m[r]
  OBVIOUS
<1>2. PICK f : OrbitOf(f, Q, F, s)
  <2> HIDE DEF F
  <2> QED
    BY <1>1, OrbitExists
<1>3. f \in [Nat -> Q] /\ f[0] = s /\ \A i \in Nat : f[i + 1] = ReconcileOne(f[i])
  BY <1>2 DEF OrbitOf
<1>4. \A h : /\ Run(h) = [i \in Nat |-> Run(h)[i]]
             /\ \A i \in Nat : Run(h)[i] = IF i = 0 THEN s ELSE ReconcileOne(h[i - 1])
  <2>1. \A x : (CHOOSE t \in {ReconcileOne(r) : r \in {x}} : TRUE) = ReconcileOne(x)
    <3>1. \A x : {ReconcileOne(r) : r \in {x}} = {ReconcileOne(x)}
      OBVIOUS
    <3> QED
      BY <3>1, OneChoice
  <2> QED
    BY <2>1
<1> HIDE DEF Run
<1>5. f = Run(f)
  <2>1. ASSUME NEW i \in Nat PROVE f[i] = Run(f)[i]
    <3>1. CASE i # 0
      <4>1. i - 1 \in Nat /\ (i - 1) + 1 = i
        BY <3>1
      <4>2. f[i] = ReconcileOne(f[i - 1])
        BY <1>3, <4>1
      <4> QED
        BY <1>4, <3>1, <4>2
    <3> QED
      BY <1>3, <1>4, <3>1
  <2>2. f = [i \in Nat |-> f[i]]
    BY <1>3
  <2> QED
    BY <1>4, <2>1, <2>2
<1>6. g = Run(g)
  BY <1>5
<1> HIDE DEF g
<1>7. \A i \in Nat : g[i] = f[i]
  <2>1. \A i \in Nat : g[i] = IF i = 0 THEN s ELSE ReconcileOne(g[i - 1])
    BY <1>4, <1>6
  <2>2. g[0] = s
    BY <2>1
  <2>3. ASSUME NEW i \in Nat, g[i] \in Q PROVE g[i + 1] = F[g[i]]
    <3>1. i + 1 \in Nat /\ i + 1 # 0 /\ (i + 1) - 1 = i
      OBVIOUS
    <3> QED
      BY <2>1, <2>3, <3>1
  <2> HIDE DEF F
  <2> QED
    BY <1>1, <1>2, <2>2, <2>3, OrbitIsUnique
<1>8. Iterate(ReconcileOne, s, m[s]) = f[m[s]]
  BY <1>7 DEF Iterate, g, Run
<1>9. F[f[m[s]]] = f[m[s]]
  <2> HIDE DEF F
  <2> QED
    BY <1>1, <1>2, OrbitSettles
<1> QED
  BY <1>3, <1>8, <1>9

(* So does the evict loop.                                                 *)
LEMMA EvictRun ==
  ASSUME NEW Q, NEW s \in Q, NEW m \in [Q -> Nat],
         \A r \in Q : EvictOne(r) \in Q /\ (EvictOne(r) = r \/ m[EvictOne(r)] < m[r])
  PROVE  LET t == Iterate(EvictOne, s, m[s])
         IN t \in Q /\ EvictOne(t) = t
<1> DEFINE F == [r \in Q |-> EvictOne(r)]
           Run(h) == [i \in Nat |-> IF i = 0 THEN s
                                    ELSE CHOOSE t \in {EvictOne(r) : r \in {h[i - 1]}} : TRUE]
           g == CHOOSE h : h = Run(h)
<1>1. F \in [Q -> Q] /\ \A r \in Q : F[r] = r \/ m[F[r]] < m[r]
  OBVIOUS
<1>2. PICK f : OrbitOf(f, Q, F, s)
  <2> HIDE DEF F
  <2> QED
    BY <1>1, OrbitExists
<1>3. f \in [Nat -> Q] /\ f[0] = s /\ \A i \in Nat : f[i + 1] = EvictOne(f[i])
  BY <1>2 DEF OrbitOf
<1>4. \A h : /\ Run(h) = [i \in Nat |-> Run(h)[i]]
             /\ \A i \in Nat : Run(h)[i] = IF i = 0 THEN s ELSE EvictOne(h[i - 1])
  <2>1. \A x : (CHOOSE t \in {EvictOne(r) : r \in {x}} : TRUE) = EvictOne(x)
    <3>1. \A x : {EvictOne(r) : r \in {x}} = {EvictOne(x)}
      OBVIOUS
    <3> QED
      BY <3>1, OneChoice
  <2> QED
    BY <2>1
<1> HIDE DEF Run
<1>5. f = Run(f)
  <2>1. ASSUME NEW i \in Nat PROVE f[i] = Run(f)[i]
    <3>1. CASE i # 0
      <4>1. i - 1 \in Nat /\ (i - 1) + 1 = i
        BY <3>1
      <4>2. f[i] = EvictOne(f[i - 1])
        BY <1>3, <4>1
      <4> QED
        BY <1>4, <3>1, <4>2
    <3> QED
      BY <1>3, <1>4, <3>1
  <2>2. f = [i \in Nat |-> f[i]]
    BY <1>3
  <2> QED
    BY <1>4, <2>1, <2>2
<1>6. g = Run(g)
  BY <1>5
<1> HIDE DEF g
<1>7. \A i \in Nat : g[i] = f[i]
  <2>1. \A i \in Nat : g[i] = IF i = 0 THEN s ELSE EvictOne(g[i - 1])
    BY <1>4, <1>6
  <2>2. g[0] = s
    BY <2>1
  <2>3. ASSUME NEW i \in Nat, g[i] \in Q PROVE g[i + 1] = F[g[i]]
    <3>1. i + 1 \in Nat /\ i + 1 # 0 /\ (i + 1) - 1 = i
      OBVIOUS
    <3> QED
      BY <2>1, <2>3, <3>1
  <2> HIDE DEF F
  <2> QED
    BY <1>1, <1>2, <2>2, <2>3, OrbitIsUnique
<1>8. Iterate(EvictOne, s, m[s]) = f[m[s]]
  BY <1>7 DEF Iterate, g, Run
<1>9. F[f[m[s]]] = f[m[s]]
  <2> HIDE DEF F
  <2> QED
    BY <1>1, <1>2, OrbitSettles
<1> QED
  BY <1>3, <1>8, <1>9

OnPlace(s) == \E e \in Connections, p \in Places : s.next = Seq32(e, p)

(* A stream that has gone on is still at a place of a connection.          *)
LEMMA ExtendsOnPlace ==
  ASSUME NEW r, NEW s, Extends(r, s)
  PROVE  OnPlace(s)
BY DEF Extends, GoesOn, OnPlace

(* drain_contiguous leaves nothing that extends the stream. *)
LEMMA DrainFrom ==
  ASSUME NEW r \in Streams, WellHeld(r), OnPlace(r)
  PROVE  LET t == DrainContiguous(r)
         IN /\ From(r, t)
            /\ t.next \notin DOMAIN t.cache
            /\ t.next = r.next => t = r
<1> DEFINE Q == Drained(r)
           m == [s \in Q |-> Cardinality(DOMAIN s.cache)]
<1>1. r \in Q
  BY FromItself DEF Drained, OnPlace
<1>2. m \in [Q -> Nat]
  <2>1. \A s \in Q : s.cache \in Caches
    BY DEF Drained, Streams
  <2> HIDE DEF Q
  <2> QED
    BY <2>1, CachesFinite
<1>3. ASSUME NEW s \in Q
      PROVE  /\ DrainOne(s) \in Q
             /\ s.next \notin DOMAIN s.cache => DrainOne(s) = s
             /\ s.next \in DOMAIN s.cache => m[DrainOne(s)] < m[s]
  <2>1. CASE s.next \notin DOMAIN s.cache
    BY <2>1 DEF DrainOne
  <2>2. CASE s.next \in DOMAIN s.cache
    <3> DEFINE t == DrainOne(s)
    <3>1. s \in Streams /\ WellHeld(s) /\ From(r, s)
      BY DEF Drained, From
    <3>2. From(s, t) /\ t.next # s.next /\ Cardinality(DOMAIN t.cache) < Cardinality(DOMAIN s.cache)
      BY <2>2, <3>1, DrainOneFrom
    <3> HIDE DEF t
    <3>3. From(r, t) /\ (t.next = r.next => s.next = r.next)
      BY <3>1, <3>2, FromOnward
    <3>4. t.next # r.next
      BY <3>2, <3>3
    <3>5. t \in Q
      BY <3>3, <3>4 DEF Drained, From
    <3> HIDE DEF Q
    <3> QED
      BY <2>2, <3>2, <3>5 DEF t
  <2> QED
    BY <2>1, <2>2
<1> DEFINE t == Iterate(DrainOne, r, m[r])
<1>4. t \in Q /\ DrainOne(t) = t
  <2> HIDE DEF Q, m
  <2> QED
    BY <1>1, <1>2, <1>3, DrainRun
<1>5. t = DrainContiguous(r)
  BY <1>1 DEF DrainContiguous
<1> HIDE DEF t
<1>6. t.next \notin DOMAIN t.cache
  <2>1. m[t] \in Nat
    BY <1>2, <1>4
  <2> HIDE DEF Q, m
  <2> QED
    BY <1>3, <1>4, <2>1
<1> QED
  BY <1>4, <1>5, <1>6 DEF Drained

(* advance_with, given bytes that fit. *)
LEMMA AdvanceFrom ==
  ASSUME NEW s \in Streams, WellHeld(s), NEW data, NEW e \in Connections, NEW p \in Places,
         Stretch(data, e, p), s.next = Seq32(e, p)
  PROVE  LET t == AdvanceWith(s, data)
         IN /\ From(s, t) /\ t.next # s.next
            /\ t.next \notin DOMAIN t.cache
<1> DEFINE a == AppendToBuffer(s, data)
           moved == [a EXCEPT !.next = Wrap(@ + Len(data))]
<1>1. data \in Seq(Int) /\ Len(data) \in Nat
  BY DEF Stretch
<1>2. /\ a \in Streams /\ a.cache = s.cache /\ a.cost = s.cost /\ a.next = s.next
      /\ \/ /\ Len(s.buffer \o data) > MaxBuffer /\ a.loss = TRUE
            /\ a.buffer = SubSeq(s.buffer \o data, Len(s.buffer \o data) - MaxBuffer + 1, Len(s.buffer \o data))
         \/ /\ Len(s.buffer \o data) <= MaxBuffer
            /\ a.loss = s.loss /\ a.buffer = s.buffer \o data
  BY <1>1, AppendFields
<1> HIDE DEF a
<1>3. Wrap(s.next + Len(data)) \in SeqNum
  <2>1. s.next + Len(data) \in Int
    BY <1>1 DEF Streams, SeqNum
  <2> QED
    BY <2>1, WrapOf
<1>4. /\ moved \in Streams /\ moved.cache = s.cache /\ moved.next = Wrap(s.next + Len(data))
      /\ moved.buffer = a.buffer /\ moved.loss = a.loss /\ moved.cost = s.cost
  BY <1>2, <1>3 DEF Streams
<1>5. AdvanceWith(s, data) = DrainContiguous(moved)
  BY DEF AdvanceWith, a
<1> HIDE DEF moved
<1>6. GoesOn(s, moved, e, p, p + Len(data)) /\ p + Len(data) \in Places /\ moved.next # s.next
  BY <1>2, <1>4, JoinGoesOn
<1>7. From(s, moved)
  <2>0. BufferSound(a.buffer)
    BY <1>2, JoinBufferSound DEF WellHeld
  <2>1. WellHeld(moved) /\ moved.cost <= s.cost
    BY <1>4, <2>0 DEF WellHeld, Streams
  <2> QED
    BY <1>4, <1>6, <2>1 DEF From, Extends
<1> DEFINE t == DrainContiguous(moved)
<1>8. From(moved, t) /\ t.next \notin DOMAIN t.cache
  BY <1>4, <1>7, ExtendsOnPlace, DrainFrom DEF From
<1> HIDE DEF t
<1>9. From(s, t) /\ (t.next = s.next => moved.next = s.next)
  BY <1>4, <1>7, <1>8, FromOnward
<1> QED
  BY <1>5, <1>6, <1>8, <1>9 DEF t

(* What is left of a segment that straddles next once the bytes before next *)
(* are cut off is a stretch that starts there.                              *)
LEMMA CutFits ==
  ASSUME NEW e \in Connections, NEW p \in Places, NEW data, Stretch(data, e, p),
         NEW f \in Connections, NEW q \in Places,
         Signed(Seq32(e, p), Seq32(f, q)) < 0,
         Signed(Seq32(e, p) + Len(data), Seq32(f, q)) > 0
  PROVE  Stretch(SubSeq(data, Ahead(Seq32(f, q), Seq32(e, p)) + 1, Len(data)), f, q)
<1> DEFINE d == q - p
           cut == SubSeq(data, d + 1, Len(data))
<1>1. data \in Seq(Int) /\ Len(data) \in Nat /\ p + Len(data) <= StreamLen
  BY DEF Stretch
<1>2. f = e /\ Ahead(Seq32(f, q), Seq32(e, p)) = d /\ p < q /\ q < p + Len(data)
  BY <1>1, Straddles
<1>3. d \in Nat /\ d > 0 /\ d < Len(data) /\ d + p = q
  BY <1>1, <1>2 DEF Places
<1> HIDE DEF d
<1>4. cut \in Seq(Int) /\ Len(cut) = Len(data) - d /\ \A i \in 1 .. Len(cut) : cut[i] = data[d + i]
  BY <1>1, <1>3
<1> HIDE DEF cut
<1> DEFINE a == Len(data)
           b == Len(cut)
<1>8. /\ a \in Nat /\ b = a - d /\ d \in Nat /\ d > 0 /\ d < a /\ d + p = q
      /\ p \in Int /\ q \in Int
  BY <1>1, <1>3, <1>4 DEF Places
<1>5. cut # <<>> /\ q + Len(cut) <= StreamLen
  <2>1. Len(cut) > 0 /\ q + Len(cut) = p + Len(data)
    <3> HIDE DEF a, b
    <3>1. b > 0 /\ q + b = p + a
      BY <1>8
    <3> QED
      BY <3>1 DEF a, b
  <2> QED
    BY <2>1, <1>1
<1>6. ASSUME NEW i \in 1 .. Len(cut) PROVE cut[i] = Byte(f, q + i - 1)
  <2>1. d + i \in 1 .. Len(data) /\ p + (d + i) - 1 = q + i - 1
    <3>1. i \in 1 .. b
      OBVIOUS
    <3> HIDE DEF a, b
    <3>2. d + i \in 1 .. a /\ p + (d + i) - 1 = q + i - 1
      BY <1>8, <3>1
    <3> QED
      BY <3>2 DEF a, b
  <2>2. data[d + i] = Byte(e, p + (d + i) - 1)
    BY <2>1 DEF Stretch
  <2> QED
    BY <1>2, <1>4, <2>1, <2>2
<1>7. Stretch(cut, f, q)
  BY <1>4, <1>5, <1>6 DEF Stretch
<1> QED
  BY <1>2, <1>7 DEF cut

Stale(s) == {k \in DOMAIN s.cache : Signed(k, s.next) < 0}

(* One round of the reconcile loop: a stale segment is spliced in or       *)
(* dropped, and the cache shrinks.                                         *)
LEMMA ReconcileOneFrom ==
  ASSUME NEW s \in Streams, WellHeld(s), OnPlace(s), s.next \notin DOMAIN s.cache
  PROVE  LET t == ReconcileOne(s)
         IN /\ From(s, t) /\ t.next \notin DOMAIN t.cache
            /\ IF Stale(s) = {} THEN t = s
               ELSE Cardinality(DOMAIN t.cache) < Cardinality(DOMAIN s.cache)
<1>1. CASE Stale(s) = {}
  <2>1. ReconcileOne(s) = s
    BY <1>1 DEF ReconcileOne, Stale
  <2>2. From(s, s)
    BY FromItself DEF OnPlace
  <2> QED
    BY <1>1, <2>1, <2>2
<1>2. CASE Stale(s) # {}
  <2> DEFINE k == CHOOSE k \in Stale(s) : \A x \in Stale(s) : k <= x
             data == s.cache[k]
             rest == CacheRemove(s, k)
             cut == SubSeq(data, Ahead(s.next, k) + 1, Len(data))
  <2>1. k \in Stale(s)
    <3>1. Stale(s) \subseteq Nat
      <4>1. s.cache \in Caches
        BY DEF Streams
      <4> QED
        BY <4>1, CachesFinite DEF Stale, SeqNum
    <3> QED
      BY <1>2, <3>1, LeastNat
  <2>2. ReconcileOne(s) = IF Signed(k + Len(data), s.next) > 0 THEN AdvanceWith(rest, cut) ELSE rest
    BY <1>2 DEF ReconcileOne, Stale
  <2> HIDE DEF k
  <2>3. k \in DOMAIN s.cache /\ Signed(k, s.next) < 0
    BY <2>1 DEF Stale
  <2>4. /\ rest \in Streams
        /\ rest.next = s.next /\ rest.buffer = s.buffer /\ rest.loss = s.loss
        /\ DOMAIN rest.cache = DOMAIN s.cache \ {k}
        /\ \A x \in DOMAIN rest.cache : rest.cache[x] = s.cache[x]
        /\ Cardinality(DOMAIN rest.cache) < Cardinality(DOMAIN s.cache)
    BY <2>3, CacheRemoveFields
  <2>6. WellHeld(rest) /\ rest.cost <= s.cost
    BY <2>3, RemoveSound
  <2> HIDE DEF rest
  <2>5. PICK f \in Connections, q \in Places : s.next = Seq32(f, q)
    BY DEF OnPlace
  <2>7. From(s, rest)
    <3>1. Extends(s, s)
      BY <2>5, ExtendsItself
    <3>2. Extends(s, rest)
      BY <2>4, <3>1 DEF Extends, GoesOn
    <3> QED
      BY <2>4, <2>6, <3>2 DEF From
  <2>8. CASE ~ (Signed(k + Len(data), s.next) > 0)
    <3>1. ReconcileOne(s) = rest
      BY <2>2, <2>8
    <3> QED
      BY <1>2, <2>4, <2>7, <3>1
  <2>9. CASE Signed(k + Len(data), s.next) > 0
    <3>1. PICK e \in Connections, p \in Places : k = Seq32(e, p) /\ Stretch(data, e, p)
      BY <2>3 DEF WellHeld, Placed
    <3> HIDE DEF data
    <3>2. Stretch(cut, f, q)
      BY <2>3, <2>5, <2>9, <3>1, CutFits
    <3> HIDE DEF cut
    <3> DEFINE t == AdvanceWith(rest, cut)
    <3>3. From(rest, t) /\ t.next \notin DOMAIN t.cache
      BY <2>4, <2>5, <2>6, <3>2, AdvanceFrom
    <3> HIDE DEF t
    <3>4. From(s, t)
      BY <2>7, <3>3, FromOnward
    <3>5. Cardinality(DOMAIN t.cache) < Cardinality(DOMAIN s.cache)
      <4> DEFINE A == DOMAIN t.cache
                 B == DOMAIN rest.cache
      <4>1. rest.cache \in Caches /\ t.cache \in Caches /\ s.cache \in Caches
        BY <2>4, <3>3 DEF From, Streams
      <4>2. A \in SUBSET B /\ IsFiniteSet(B) /\ Cardinality(A) \in Nat /\ Cardinality(B) \in Nat
        BY <3>3, <4>1, CachesFinite DEF From
      <4>3. Cardinality(DOMAIN s.cache) \in Nat
        BY <4>1, CachesFinite
      <4>4. Cardinality(B) < Cardinality(DOMAIN s.cache)
        BY <2>4
      <4> HIDE DEF A, B
      <4>5. Cardinality(A) <= Cardinality(B)
        BY <4>2, FS_Subset
      <4>6. Cardinality(A) < Cardinality(DOMAIN s.cache)
        BY <4>2, <4>3, <4>4, <4>5
      <4> QED
        BY <4>6 DEF A
    <3>6. ReconcileOne(s) = t
      BY <2>2, <2>9 DEF t
    <3> QED
      BY <1>2, <3>3, <3>4, <3>5, <3>6
  <2> QED
    BY <2>8, <2>9
<1> QED
  BY <1>1, <1>2

(* What reconcile_stale_cache leaves is ahead of the stream, all of it. *)
Reconciled(r) == {s \in Streams : From(r, s) /\ s.next \notin DOMAIN s.cache}

(* The reconcile loop ends with no stale segment left.                     *)
LEMMA ReconcileFrom ==
  ASSUME NEW r \in Streams, WellHeld(r), OnPlace(r), r.next \notin DOMAIN r.cache
  PROVE  LET t == ReconcileStaleCache(r)
         IN From(r, t) /\ t.next \notin DOMAIN t.cache /\ Stale(t) = {}
<1> DEFINE Q == Reconciled(r)
           m == [s \in Q |-> Cardinality(DOMAIN s.cache)]
<1>1. r \in Q
  BY FromItself DEF Reconciled, OnPlace
<1>2. m \in [Q -> Nat]
  <2>1. \A s \in Q : s.cache \in Caches
    BY DEF Reconciled, Streams
  <2> HIDE DEF Q
  <2> QED
    BY <2>1, CachesFinite
<1>3. ASSUME NEW s \in Q
      PROVE  /\ ReconcileOne(s) \in Q
             /\ IF Stale(s) = {} THEN ReconcileOne(s) = s ELSE m[ReconcileOne(s)] < m[s]
  <2> DEFINE t == ReconcileOne(s)
  <2>1. s \in Streams /\ WellHeld(s) /\ From(r, s) /\ s.next \notin DOMAIN s.cache /\ OnPlace(s)
    BY ExtendsOnPlace DEF Reconciled, From
  <2>2. /\ From(s, t) /\ t.next \notin DOMAIN t.cache
        /\ IF Stale(s) = {} THEN t = s ELSE Cardinality(DOMAIN t.cache) < Cardinality(DOMAIN s.cache)
    BY <2>1, ReconcileOneFrom
  <2> HIDE DEF t
  <2>3. t \in Q
    BY <2>1, <2>2, FromOnward DEF Reconciled, From
  <2> HIDE DEF Q
  <2> QED
    BY <2>2, <2>3 DEF t
<1> DEFINE t == Iterate(ReconcileOne, r, m[r])
<1>4. t \in Q /\ ReconcileOne(t) = t
  <2> HIDE DEF Q, m
  <2> QED
    BY <1>1, <1>2, <1>3, ReconcileRun
<1>5. t = ReconcileStaleCache(r)
  BY <1>1 DEF ReconcileStaleCache
<1> HIDE DEF t
<1>6. Stale(t) = {}
  <2>1. m[t] \in Nat
    BY <1>2, <1>4
  <2> HIDE DEF Q, m
  <2> QED
    BY <1>3, <1>4, <2>1
<1> QED
  BY <1>4, <1>5, <1>6 DEF Reconciled

(* A cache without keys is the empty one.                                  *)
LEMMA EmptyCache ==
  ASSUME NEW c \in Caches
  PROVE  c = <<>> <=> DOMAIN c = {}
<1>1. c = <<>> => DOMAIN c = {}
  OBVIOUS
<1>2. ASSUME DOMAIN c = {} PROVE c = <<>>
  <2>1. PICK D \in SUBSET SeqNum : c \in [D -> Seq(Int)]
    BY DEF Caches
  <2>2. D = {} /\ c \in [{} -> Seq(Int)]
    BY <2>1, <1>2
  <2>3. <<>> \in [{} -> Seq(Int)]
    OBVIOUS
  <2> QED
    BY <2>2, <2>3
<1> QED
  BY <1>1, <1>2

(* The nearest and the furthest cached segment exist.                      *)
LEMMA ExtremesAreCached ==
  ASSUME NEW c \in Caches, c # <<>>, NEW n \in SeqNum
  PROVE  Nearest(c, n) \in DOMAIN c /\ Furthest(c, n) \in DOMAIN c
<1>1. DOMAIN c # {} /\ DOMAIN c \subseteq SeqNum
  BY EmptyCache, CachesFinite
<1>2. \A k \in DOMAIN c : Ahead(k, n) \in 0 .. Mod - 1
  <2>1. ASSUME NEW k \in DOMAIN c PROVE Ahead(k, n) \in SeqNum
    <3>1. k - n \in Int
      BY <1>1 DEF SeqNum
    <3> QED
      BY <3>1, WrapOf DEF Ahead
  <2> QED
    BY <2>1 DEF SeqNum
<1>3. \E k \in DOMAIN c : \A x \in DOMAIN c : Ahead(k, n) <= Ahead(x, n)
  <2> DEFINE T == {Ahead(k, n) : k \in DOMAIN c}
  <2>1. T \subseteq Nat /\ T # {}
    BY <1>1, <1>2
  <2>2. PICK a \in T : \A b \in T : a <= b
    BY <2>1, LeastNat
  <2> QED
    BY <2>2
<1>4. \E k \in DOMAIN c : \A x \in DOMAIN c : Ahead(k, n) >= Ahead(x, n)
  <2> DEFINE T == {Mod - Ahead(k, n) : k \in DOMAIN c}
  <2>1. T \subseteq Nat /\ T # {}
    BY <1>1, <1>2, HalfSpace
  <2>2. PICK a \in T : \A b \in T : a <= b
    BY <2>1, LeastNat
  <2>3. PICK k \in DOMAIN c : a = Mod - Ahead(k, n)
    BY <2>2
  <2>4. \A x \in DOMAIN c : Mod - Ahead(k, n) <= Mod - Ahead(x, n)
    BY <2>2, <2>3
  <2>5. \A x \in DOMAIN c : Ahead(k, n) >= Ahead(x, n)
    BY <2>4, <1>2, HalfSpace
  <2> QED
    BY <2>5
<1> QED
  BY <1>3, <1>4 DEF Nearest, Furthest

(* s is r less some of its cached segments. *)
Less(r, s) ==
  /\ s \in Streams
  /\ WellHeld(s) /\ s.cost <= r.cost
  /\ s.next = r.next /\ s.buffer = r.buffer /\ s.loss = r.loss
  /\ DOMAIN s.cache \subseteq DOMAIN r.cache

Evicted(r) == {s \in Streams : Less(r, s)}

(* The evict loop only takes segments out, and ends within the cap.        *)
LEMMA EvictLess ==
  ASSUME NEW r \in Streams, WellHeld(r)
  PROVE  Less(r, EnforceCacheCap(r)) /\ EnforceCacheCap(r).cost <= MaxCache
<1> DEFINE Q == Evicted(r)
           m == [s \in Q |-> Cardinality(DOMAIN s.cache)]
<1>1. r \in Q
  BY DEF Evicted, Less, Streams
<1>2. m \in [Q -> Nat]
  <2>1. \A s \in Q : s.cache \in Caches
    BY DEF Evicted, Streams
  <2> HIDE DEF Q
  <2> QED
    BY <2>1, CachesFinite
<1>3. ASSUME NEW s \in Q
      PROVE  /\ EvictOne(s) \in Q
             /\ IF s.cost > MaxCache /\ s.cache # <<>> THEN m[EvictOne(s)] < m[s] ELSE EvictOne(s) = s
  <2>1. CASE s.cost > MaxCache /\ s.cache # <<>>
    <3> DEFINE k == Furthest(s.cache, s.next)
               t == CacheRemove(s, k)
    <3>1. s \in Streams /\ Less(r, s) /\ s.cache \in Caches /\ s.next \in SeqNum
      BY DEF Evicted, Streams
    <3>2. k \in DOMAIN s.cache
      BY <2>1, <3>1, ExtremesAreCached
    <3>3. EvictOne(s) = t
      BY <2>1 DEF EvictOne
    <3> HIDE DEF k
    <3>6. WellHeld(t) /\ t.cost <= s.cost
      BY <3>1, <3>2, RemoveSound DEF Less
    <3>4. /\ t \in Streams
          /\ t.next = s.next /\ t.buffer = s.buffer /\ t.loss = s.loss
          /\ DOMAIN t.cache = DOMAIN s.cache \ {k}
          /\ \A x \in DOMAIN t.cache : t.cache[x] = s.cache[x]
          /\ Cardinality(DOMAIN t.cache) < Cardinality(DOMAIN s.cache)
      BY <3>1, <3>2, CacheRemoveFields
    <3> HIDE DEF t
    <3>5. t \in Q
      <4>1. t.cost <= r.cost
        BY <3>1, <3>4, <3>6 DEF Less, Streams
      <4> QED
        BY <3>1, <3>4, <3>6, <4>1 DEF Evicted, Less
    <3> HIDE DEF Q
    <3> QED
      BY <2>1, <3>3, <3>4, <3>5
  <2>2. CASE ~ (s.cost > MaxCache /\ s.cache # <<>>)
    BY <2>2 DEF EvictOne
  <2> QED
    BY <2>1, <2>2
<1> DEFINE t == Iterate(EvictOne, r, m[r])
<1>4. t \in Q /\ EvictOne(t) = t
  <2> HIDE DEF Q, m
  <2> QED
    BY <1>1, <1>2, <1>3, EvictRun
<1>5. t = EnforceCacheCap(r)
  BY <1>1 DEF EnforceCacheCap
<1> HIDE DEF t
<1>6. t.cost <= MaxCache
  <2>1. ~ (t.cost > MaxCache /\ t.cache # <<>>)
    <3>1. m[t] \in Nat
      BY <1>2, <1>4
    <3> HIDE DEF Q, m
    <3> QED
      BY <1>3, <1>4, <3>1
  <2>2. t.cache = <<>> => t.cost = 0
    BY <1>4, CostOfEmpty DEF Evicted, Less, WellHeld
  <2>3. t.cost \in Int /\ MaxCache \in Nat
    BY <1>4, StreamsAssumption DEF Evicted, Streams
  <2> QED
    BY <2>1, <2>2, <2>3
<1> QED
  BY <1>4, <1>5, <1>6 DEF Evicted

(* A cache that only lost segments goes on from what it was.               *)
LEMMA LessFrom ==
  ASSUME NEW r \in Streams, WellHeld(r), OnPlace(r), NEW s, Less(r, s)
  PROVE  From(r, s)
<1>1. Extends(r, r)
  BY ExtendsItself DEF OnPlace
<1>2. Extends(r, s)
  BY <1>1 DEF Extends, GoesOn, Less
<1> QED
  BY <1>2 DEF From, Less

(* A state a push may find or leave between two steps. *)
Settled(s) == s \in Streams /\ WellHeld(s) /\ OnPlace(s) /\ s.next \notin DOMAIN s.cache

(* A segment that was sent takes the stream on along the connection it is  *)
(* on, or is cached, or changes nothing.                                   *)
LEMMA AbsorbExtends ==
  ASSUME NEW s, Settled(s), NEW data, NEW e \in Connections, NEW p \in Places, Stretch(data, e, p)
  PROVE  LET t == Absorb(s, Seq32(e, p), data)
         IN Settled(t) /\ Extends(s, t)
<1> DEFINE k == Seq32(e, p)
           t == Absorb(s, k, data)
<1>1. PICK f \in Connections, q \in Places : s.next = Seq32(f, q)
  BY DEF Settled, OnPlace
<1>2. s \in Streams /\ WellHeld(s) /\ k \in SeqNum /\ s.next \in SeqNum
  BY SeqOfPlace DEF Settled, Streams
<1>3. Extends(s, s)
  BY <1>1, <1>2, ExtendsItself
<1>4. CASE t = s
  BY <1>3, <1>4
<1>5. CASE /\ Signed(k, s.next) < 0 /\ Signed(k + Len(data), s.next) > 0
           /\ t = AdvanceWith(s, SubSeq(data, Ahead(s.next, k) + 1, Len(data)))
  <2> DEFINE cut == SubSeq(data, Ahead(s.next, k) + 1, Len(data))
  <2>1. Stretch(cut, f, q)
    BY <1>1, <1>5, CutFits
  <2> HIDE DEF cut
  <2>2. From(s, AdvanceWith(s, cut)) /\ AdvanceWith(s, cut).next \notin DOMAIN AdvanceWith(s, cut).cache
    BY <1>1, <1>2, <2>1, AdvanceFrom
  <2>3. t = AdvanceWith(s, cut)
    BY <1>5 DEF cut
  <2> QED
    BY <2>2, <2>3, ExtendsOnPlace DEF Settled, From
<1>6. CASE Signed(k, s.next) = 0 /\ t = AdvanceWith(s, data)
  <2>1. k = s.next
    <3>1. k - s.next \in Int /\ k - s.next > -Mod /\ k - s.next < Mod
      BY <1>2, HalfSpace DEF SeqNum
    <3>2. Ahead(k, s.next) = 0
      BY <1>2, <1>6, <3>1, WrapOf, HalfSpace DEF Signed, Ahead, SeqNum
    <3> QED
      BY <1>2, <3>1, <3>2, WrapOf, HalfSpace DEF Ahead, SeqNum
  <2>2. From(s, AdvanceWith(s, data)) /\ AdvanceWith(s, data).next \notin DOMAIN AdvanceWith(s, data).cache
    BY <1>2, <2>1, AdvanceFrom
  <2> QED
    BY <1>6, <2>2, ExtendsOnPlace DEF Settled, From
<1>7. CASE Signed(k, s.next) # 0 /\ t = CacheInsert(s, k, data)
  <2>1. k # s.next
    <3>1. CASE k = s.next
      <4>1. Ahead(k, s.next) = 0
        BY <3>1, <1>2, WrapOf, HalfSpace DEF Ahead, SeqNum
      <4> QED
        BY <4>1, <1>7, HalfSpace DEF Signed
    <3> QED
      BY <3>1
  <2>2. data \in Seq(Int) /\ Placed(k, data)
    BY DEF Stretch, Placed
  <2>3. /\ t \in Streams
        /\ t.next = s.next /\ t.buffer = s.buffer /\ t.loss = s.loss
        /\ DOMAIN t.cache = DOMAIN s.cache \cup {k}
        /\ \A x \in DOMAIN t.cache : t.cache[x] = IF x = k THEN data ELSE s.cache[x]
    BY <1>2, <1>7, <2>2, CacheInsertFields
  <2>4. WellHeld(t)
    <3> HIDE DEF k
    <3> QED
      BY <1>2, <1>7, <2>2, InsertSound
  <2> HIDE DEF t
  <2>5. Extends(s, t)
    BY <1>3, <2>3 DEF Extends, GoesOn
  <2>6. t.next \notin DOMAIN t.cache
    BY <2>1, <2>3 DEF Settled
  <2>7. Settled(t)
    BY <2>3, <2>4, <2>5, <2>6, ExtendsOnPlace DEF Settled
  <2> QED
    BY <2>5, <2>7 DEF t
<1> HIDE DEF k
<1>8. \/ t = s
      \/ /\ Signed(k, s.next) < 0 /\ Signed(k + Len(data), s.next) > 0
         /\ t = AdvanceWith(s, SubSeq(data, Ahead(s.next, k) + 1, Len(data)))
      \/ Signed(k, s.next) = 0 /\ t = AdvanceWith(s, data)
      \/ Signed(k, s.next) # 0 /\ t = CacheInsert(s, k, data)
  BY DEF Absorb
<1> QED
  BY <1>4, <1>5, <1>6, <1>7, <1>8 DEF k

(* What one segment does to the stream before the stall guard looks at it. *)
LEMMA ReceiveExtends ==
  ASSUME NEW s, Settled(s), NEW data, NEW e \in Connections, NEW p \in Places, Stretch(data, e, p)
  PROVE  LET t == Receive(s, Seq32(e, p), data)
         IN Settled(t) /\ Extends(s, t) /\ Stale(t) = {} /\ t.cost <= MaxCache
<1> DEFINE a == Absorb(s, Seq32(e, p), data)
           b == ReconcileStaleCache(a)
           t == EnforceCacheCap(b)
<1>1. Settled(a) /\ Extends(s, a)
  BY AbsorbExtends
<1> HIDE DEF a
<1>2. From(a, b) /\ b.next \notin DOMAIN b.cache /\ Stale(b) = {}
  BY <1>1, ReconcileFrom DEF Settled
<1> HIDE DEF b
<1>3. b \in Streams /\ WellHeld(b) /\ OnPlace(b)
  BY <1>2, ExtendsOnPlace DEF From
<1>4. Less(b, t) /\ t.cost <= MaxCache
  BY <1>3, EvictLess
<1> HIDE DEF t
<1>5. From(b, t)
  BY <1>3, <1>4, LessFrom
<1>6. t.next \notin DOMAIN t.cache /\ Stale(t) = {}
  BY <1>2, <1>4 DEF Less, Stale
<1>7. Settled(t)
  BY <1>5, <1>6, ExtendsOnPlace DEF Settled, From
<1>8. Extends(s, t)
  <2>1. Extends(s, b)
    BY <1>1, <1>2, <1>3, ExtendsOnward DEF Settled, From
  <2> QED
    BY <2>1, <1>3, <1>5, ExtendsOnward DEF Settled, From
<1>9. Receive(s, Seq32(e, p), data) = t
  BY DEF Receive, a, b, t
<1> QED
  BY <1>4, <1>6, <1>7, <1>8, <1>9

=============================================================================
