---------------------------- MODULE DualClockFifo ----------------------------
(***************************************************************************)
(* The FIFO between the two clock domains (FIFO.vhd), a wrapper around the *)
(* vendor's dcfifo_mixed_widths: 16-bit pixels go in, 32-bit words of two  *)
(* pixels come out.  The vendor's block is modelled from the generics that *)
(* the wrapper gives it: the word at the head is on the output before it   *)
(* is read (lpm_showahead), reads of an empty and writes to a full FIFO do  *)
(* nothing (underflow_checking, overflow_checking), each side sees the      *)
(* other side's pointer late (rdsync_delaypipe, wrsync_delaypipe), and aclr *)
(* empties both sides at once.  How late is left open.                     *)
(***************************************************************************)
EXTENDS Integers, Sequences

CONSTANTS Capacity,          \* pixels (lpm_numwords), an even number
          NoPixel            \* on the output when there is no word to read

VARIABLES queue,             \* the pixels in the FIFO, oldest first
          unseenReads,       \* pixels read of which the write side knows nothing yet
          unseenWrites       \* pixels written of which the read side knows nothing yet

fifoVars == <<queue, unseenReads, unseenWrites>>

FifoInit == queue = <<>> /\ unseenReads = 0 /\ unseenWrites = 0

(* The pixels in the FIFO for the write side, and whole words for the read  *)
(* side.                                                                    *)
WriteSideFill == Len(queue) + unseenReads
ReadSideWords == (Len(queue) - unseenWrites) \div 2

(* wrusedw and rdusedw have one bit too few to tell full from empty.        *)
FIFO_CI_UsedWords == WriteSideFill % Capacity
FIFO_AM_UsedWords == ReadSideWords % (Capacity \div 2)

(* The word at the head, if the read side knows of one. *)
FIFO_AM_ReadData ==
  IF ReadSideWords > 0 THEN SubSeq(queue, 1, 2) ELSE <<NoPixel, NoPixel>>

(* Rising edge of FIFO_WriteClk; late of the unseen reads stay unseen. *)
WriteClk(enable, pixel, late) ==
  /\ unseenReads' = late
  /\ IF enable /\ WriteSideFill < Capacity
     THEN queue' = Append(queue, pixel) /\ unseenWrites' = unseenWrites + 1
     ELSE UNCHANGED <<queue, unseenWrites>>

(* Rising edge of FIFO_ReadClk; late of the unseen writes stay unseen. *)
ReadClk(check, late) ==
  /\ unseenWrites' = late
  /\ IF check /\ ReadSideWords > 0
     THEN queue' = SubSeq(queue, 3, Len(queue)) /\ unseenReads' = unseenReads + 2
     ELSE UNCHANGED <<queue, unseenReads>>

Clear == queue' = <<>> /\ unseenReads' = 0 /\ unseenWrites' = 0
=============================================================================
