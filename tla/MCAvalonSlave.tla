--------------------------- MODULE MCAvalonSlave ---------------------------
(* AvalonSlave with 1-bit "bytes" (16 addresses), a burst length that        *)
(* carries between lanes, and a program that writes any address, the whole   *)
(* status register and both values of the start bit.                         *)
EXTENDS AvalonSlave

MCBurstLength == <<1, 1, 0, 0>>
MCBurst == [i \in Lane |-> MCBurstLength[i + 1]]
MCStartWrites == {{}, {0}}
MCStatusWrites == SUBSET (0 .. 2)
=============================================================================
