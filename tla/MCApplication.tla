--------------------------- MODULE MCApplication ---------------------------
(* main() with frames of two bursts, and 1-bit "bytes": 16 addresses.        *)
EXTENDS Application

MCWord(b0, b1, b2, b3) == [n \in 0 .. 3 |-> <<b0, b1, b2, b3>>[n + 1]]
MCFrame == MCWord(0, 0, 1, 0)
=============================================================================
