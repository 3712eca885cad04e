------------------------- MODULE MCTcpReassembler -------------------------
(* Small instances of TcpReassembler.  The sequence space wraps inside the  *)
(* first connection's stream; the second connection starts behind it.       *)
EXTENDS TcpReassembler

ISNsOne == <<29>>
ISNsTwo == <<29, 20>>
=============================================================================
