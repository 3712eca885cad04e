--------------------------- MODULE OrderedStream ---------------------------
(***************************************************************************)
(* What the capture loop may rely on when it takes bytes from the          *)
(* reassembler: one ordered stream, in which a byte neither changes nor    *)
(* goes missing nor comes twice unless a loss is announced before the next *)
(* byte is handed over.  How segments are kept until they fit, and when a  *)
(* gap is given up, is TcpReassembler's business.                          *)
(***************************************************************************)
EXTENDS Integers, Sequences, SequencesExt

CONSTANT NoByte

VARIABLES
  pending,   \* ordered bytes not yet taken
  broken,    \* a loss is to be announced first
  taken      \* last byte handed over, NoByte when anything may follow

vars == <<pending, broken, taken>>

(* s goes on where byte b left off, and has no break of its own. *)
Continues(s, b) ==
  /\ \A i \in 1 .. Len(s) - 1 : s[i + 1] = s[i] + 1
  /\ b # NoByte /\ s # <<>> => s[1] = b + 1

Init == pending = <<>> /\ broken = FALSE /\ taken = NoByte

(* Bytes are added at the end and fit. *)
Grow ==
  /\ ~ broken /\ ~ broken'
  /\ IsPrefix(pending, pending')
  /\ Continues(pending', taken)
  /\ UNCHANGED taken

(* Bytes are given up, and it is said. *)
Lose == broken' /\ UNCHANGED taken

Take ==
  /\ broken \/ pending # <<>>
  /\ pending' = <<>> /\ ~ broken'
  /\ taken' = IF pending # <<>> THEN Last(pending) ELSE NoByte

(* Another connection is adopted. *)
Restart == pending' = <<>> /\ ~ broken' /\ taken' = NoByte

Next == Grow \/ Lose \/ Take \/ Restart

Spec == Init /\ [][Next]_vars

=============================================================================
