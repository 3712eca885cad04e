-------------------------- MODULE ServerDetector --------------------------
(***************************************************************************)
(* The detector of the capture crate (detect.rs): which of the machine's   *)
(* connections carries the game, decided packet by packet.                 *)
(*                                                                         *)
(* A connection is named by its server-to-client tuple; a packet of the    *)
(* other direction has rev = TRUE.  What the payload tells the detector is *)
(* its kind: "signature" matches the signature scan or the login return,   *)
(* "small" only fits the bounds of the subnet path, "other" fits neither,  *)
(* "empty" carries nothing.  Client packets never match: past the first    *)
(* adoption local_endpoint excludes them, before it their payload does.    *)
(***************************************************************************)
EXTENDS Integers, FiniteSets

CONSTANTS
  Conns,          \* the connections the driver shows
  Signing,        \* those whose payload can match the signature
  SubnetOf,       \* the /16 of a connection's server
  OwnerOf,        \* the process that owns a connection
  MaxCandidates   \* MAX_SUBNET_CONNECTIONS

NONE == "none"

ASSUME DetectorAssumption ==
  /\ Signing \subseteq Conns
  /\ NONE \notin Conns
  /\ DOMAIN SubnetOf = Conns /\ \A c \in Conns : SubnetOf[c] # NONE
  /\ DOMAIN OwnerOf = Conns /\ \A c \in Conns : OwnerOf[c] # NONE
  /\ MaxCandidates \in Nat \ {0}

Kinds == {"signature", "small", "other", "empty"}
Flags == {"none", "fin", "rst"}

\* What a segment can be: a FIN or an RST may carry data, and what the client
\* sends is never looked at.
Packets == {p \in [conn : Conns, rev : BOOLEAN, kind : Kinds, flag : Flags] :
              /\ p.kind = "signature" => p.conn \in Signing
              /\ p.rev => p.kind = "other"}

Detector == [subnet : {NONE} \cup {SubnetOf[c] : c \in Conns}, candidates : SUBSET Conns]

ForgottenDetector == [subnet |-> NONE, candidates |-> {}]

Role(p, known) ==
  IF p.conn # known THEN "unrelated" ELSE IF p.rev THEN "reverse" ELSE "adopted"

\* A FIN counts from the server's half alone, an RST from both.
TornDown(p, known) ==
  \/ Role(p, known) = "adopted" /\ p.flag # "none"
  \/ Role(p, known) = "reverse" /\ p.flag = "rst"

\* An unknown owner, or no known pid of the game, never blocks an adoption.
OwnerAllows(owner, pids) == pids = {} \/ owner = NONE \/ owner \in pids

BySignature(p) == p.kind = "signature"

(* The reconnect path: nothing is adopted and a connection of the known     *)
(* server's subnet, not tried before, sends a payload of the right size.    *)
BySubnet(p, known, det) ==
  /\ known = NONE /\ ~ p.rev /\ p.kind = "small"
  /\ det.subnet = SubnetOf[p.conn]
  /\ p.conn \notin det.candidates
  /\ Cardinality(det.candidates) < MaxCandidates

\* The signature decides alone where it matches; the owner has the last word.
Detects(p, known, det, owner, pids) ==
  (BySignature(p) \/ BySubnet(p, known, det)) /\ OwnerAllows(owner, pids)

\* Mutant: every adoption starts the set of candidates anew.
AdoptForgetting(det, c) == [subnet |-> SubnetOf[c], candidates |-> {c}]

(* The candidates of one subnet survive adoptions inside it; past the cap   *)
(* an adoption is no longer recorded.                                       *)
Adopt(det, c) ==
  LET kept == IF det.subnet = SubnetOf[c] THEN det.candidates ELSE {}
  IN [subnet |-> SubnetOf[c],
      candidates |-> IF Cardinality(kept) < MaxCandidates THEN kept \cup {c} ELSE kept]

(* decide_packet: what is tracked afterwards, what the detector remembers,  *)
(* and what the capture loop is to do with the packet.                      *)
Decide(p, known, det, owner, pids) ==
  LET role == Role(p, known)
      torn == TornDown(p, known)
      adopts == role = "unrelated" /\ Detects(p, known, det, owner, pids)
  IN [known |-> IF torn THEN NONE ELSE IF adopts THEN p.conn ELSE known,
      det |-> IF adopts THEN Adopt(det, p.conn) ELSE det,
      torn |-> torn,
      adopted |-> adopts,
      skip |-> role = "reverse" \/ (role = "unrelated" /\ ~ adopts)]

=============================================================================
