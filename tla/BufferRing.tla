----------------------------- MODULE BufferRing -----------------------------
(***************************************************************************)
(* What the camera controller promises the program about its frame         *)
(* buffers: the hardware marks a buffer full only when the program has     *)
(* cleared its flag, and it marks the buffers in cyclic order.  The        *)
(* program may rewrite the flags at any time, which moves nothing else.    *)
(***************************************************************************)
EXTENDS Integers

CONSTANT Buffers                   \* number of buffers in the ring, at least 1

Index == 0 .. Buffers - 1

VARIABLES full,                    \* the buffers flagged full
          next                     \* the buffer the hardware fills

ringVars == <<full, next>>

Init == full = {} /\ next = 0

(* The hardware completes the buffer it fills and moves on to the next. *)
Complete ==
  /\ next \notin full
  /\ full' = full \cup {next}
  /\ next' = (next + 1) % Buffers

(* The program writes the flags. *)
Flag(v) == full' = v /\ UNCHANGED next

Next == Complete \/ \E v \in SUBSET Index : Flag(v)

Spec == Init /\ [][Next]_ringVars
=============================================================================
