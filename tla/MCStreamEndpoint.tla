--------------------------- MODULE MCStreamEndpoint ---------------------------
(* Finite instances of StreamEndpoint: only the number of payload bytes      *)
(* matters to it, so there is one byte value.                                *)
EXTENDS StreamEndpoint

CONSTANT b

OneByte == {b}
PlainHeaders == {{}, {"ACK"}}
AllHeaders == {{}, {"ACK"}, {"FIN"}, {"RST"}}
Deltas == {0, 3}
===============================================================================
