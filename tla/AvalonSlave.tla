---------------------------- MODULE AvalonSlave ----------------------------
(***************************************************************************)
(* The register file of the camera controller (Avalon_slave.vhd): the      *)
(* registers that the program writes byte by byte over the Avalon bus, the *)
(* ring of three frame buffers that moves on at the end of each frame, and *)
(* the registered outputs towards the Avalon master and the camera         *)
(* interface.  A step is one rising edge of AS_Clk.                        *)
(*                                                                         *)
(* A 32-bit register is a function from its four byte lanes to bytes; the  *)
(* control registers iRegStart and iRegStatus are the sets of their bits   *)
(* that are 1.                                                             *)
(***************************************************************************)
EXTENDS Integers

CONSTANTS ByteBase,        \* 256 in the code
          BURST_LENGTH,    \* distance between two buffers (X"00025800")
          StartWrites,     \* values the program writes to register 0
          AddressBytes,    \* bytes it writes to registers 1 to 4
          LengthBytes,     \* bytes it writes to registers 5 to 8
          StatusWrites     \* values it writes to register 9

Byte == 0 .. ByteBase - 1
Lane == 0 .. 3
Word == [Lane -> Byte]
Bits == SUBSET (0 .. 7)

ASSUME SlaveAssumption ==
  /\ ByteBase \in Nat /\ ByteBase >= 2
  /\ BURST_LENGTH \in Word
  /\ StartWrites \subseteq Bits
  /\ StatusWrites \subseteq Bits
  /\ AddressBytes \subseteq Byte
  /\ LengthBytes \subseteq Byte

Zero == [i \in Lane |-> 0]

(* a + b on four byte lanes; the carry out of the last lane is lost. *)
Plus(a, b) ==
  LET c1 == (a[0] + b[0]) \div ByteBase
      c2 == (a[1] + b[1] + c1) \div ByteBase
      c3 == (a[2] + b[2] + c2) \div ByteBase
  IN  [i \in Lane |-> (a[i] + b[i] + <<0, c1, c2, c3>>[i + 1]) % ByteBase]

VARIABLES iRegStart, iRegStartAddress, iRegBufferAddress, iRegLength,
          iRegStatus, prevStatus, nextBuffer,
          AS_AM_StartAddress, AS_AM_Length, AS_ALL_Start,
          moved   \* history: an address byte was written while the ring was
                  \* away from buffer 0, and no frame has been recorded since

outputs == <<AS_AM_StartAddress, AS_AM_Length, AS_ALL_Start>>
slaveVars == <<iRegStart, iRegStartAddress, iRegBufferAddress, iRegLength,
               iRegStatus, prevStatus, nextBuffer, outputs, moved>>

Init ==
  /\ iRegStart = {}
  /\ iRegStartAddress = Zero
  /\ iRegBufferAddress = Zero
  /\ iRegLength = Zero
  /\ iRegStatus = {}
  /\ prevStatus = FALSE
  /\ nextBuffer = 0
  /\ AS_AM_StartAddress = Zero
  /\ AS_AM_Length = Zero
  /\ AS_ALL_Start = FALSE
  /\ moved = FALSE

----------------------------------------------------------------------------
(* WriteProcess, a bus write: while AS_AB_WriteEnable is 1 the end of a     *)
(* frame is not looked at, whatever register the write is for.              *)

WriteStart(v) ==
  /\ iRegStart' = v
  /\ UNCHANGED <<iRegStartAddress, iRegBufferAddress, iRegLength, iRegStatus,
                 prevStatus, nextBuffer, moved>>

(* Wrong: the byte goes to iRegStartAddress only (lines 88, 91, 94, 97      *)
(* forgotten), so the ring keeps its old base until the next frame end.     *)
WriteStartAddressOnly(i, b) ==
  /\ iRegStartAddress' = [iRegStartAddress EXCEPT ![i] = b]
  /\ moved' = (moved \/ nextBuffer # 0)
  /\ UNCHANGED <<iRegStart, iRegBufferAddress, iRegLength, iRegStatus,
                 prevStatus, nextBuffer>>

(* Right: both registers take the byte. *)
WriteStartAddress(i, b) ==
  /\ iRegStartAddress' = [iRegStartAddress EXCEPT ![i] = b]
  /\ iRegBufferAddress' = [iRegBufferAddress EXCEPT ![i] = b]
  /\ moved' = (moved \/ nextBuffer # 0)
  /\ UNCHANGED <<iRegStart, iRegLength, iRegStatus, prevStatus, nextBuffer>>

WriteLength(i, b) ==
  /\ iRegLength' = [iRegLength EXCEPT ![i] = b]
  /\ UNCHANGED <<iRegStart, iRegStartAddress, iRegBufferAddress, iRegStatus,
                 prevStatus, nextBuffer, moved>>

WriteStatus(v) ==
  /\ iRegStatus' = v
  /\ UNCHANGED <<iRegStart, iRegStartAddress, iRegBufferAddress, iRegLength,
                 prevStatus, nextBuffer, moved>>

(* A write to one of the addresses that hold no register. *)
WriteNothing ==
  UNCHANGED <<iRegStart, iRegStartAddress, iRegBufferAddress, iRegLength,
              iRegStatus, prevStatus, nextBuffer, moved>>

BusWrite ==
  \/ \E v \in StartWrites : WriteStart(v)
  \/ \E i \in Lane, b \in AddressBytes : WriteStartAddress(i, b)
  \/ \E i \in Lane, b \in LengthBytes : WriteLength(i, b)
  \/ \E v \in StatusWrites : WriteStatus(v)
  \/ WriteNothing

----------------------------------------------------------------------------
(* WriteProcess with no bus write: the edge detector on AM_AS_Status and    *)
(* the ring of buffers.                                                     *)

(* Wrong: line 118 adds BURST_LENGTH once, so buffer 2 lies on buffer 1. *)
BufferStartOnce(s, k) == IF k = 0 THEN s ELSE Plus(s, BURST_LENGTH)

(* The address of buffer k of the ring that starts at s. *)
BufferStart(s, k) ==
  CASE k = 0 -> s
    [] k = 1 -> Plus(s, BURST_LENGTH)
    [] OTHER -> Plus(Plus(s, BURST_LENGTH), BURST_LENGTH)

(* Flag the buffer the ring points to and select buffer k. *)
Advance(k) ==
  /\ ~prevStatus
  /\ iRegStatus' = iRegStatus \cup {nextBuffer}
  /\ nextBuffer' = k
  /\ iRegBufferAddress' = BufferStart(iRegStartAddress, k)
  /\ prevStatus' = TRUE
  /\ moved' = FALSE
  /\ UNCHANGED <<iRegStart, iRegStartAddress, iRegLength>>

(* Wrong: the first halves of the conditions of lines 112, 116 and 120 are  *)
(* dropped, so a buffer the program has not released is recorded again.     *)
RecordFrameUnchecked == Advance((nextBuffer + 1) % 3)

(* Wrong: nextBuffer goes on to "11" after "10". *)
RecordFrameNoWrap == nextBuffer \notin iRegStatus /\ Advance(nextBuffer + 1)

RecordFrame == nextBuffer \notin iRegStatus /\ Advance((nextBuffer + 1) % 3)

(* The buffer the ring points to is still flagged: the frame is dropped. *)
DropFrame ==
  /\ ~prevStatus
  /\ nextBuffer \in iRegStatus
  /\ prevStatus' = TRUE
  /\ UNCHANGED <<iRegStart, iRegStartAddress, iRegBufferAddress, iRegLength,
                 iRegStatus, nextBuffer, moved>>

FrameEnd(status) == status /\ (RecordFrame \/ DropFrame)

(* Wrong: the branch of lines 125 and 126 does nothing. *)
RearmNever(status) ==
  /\ ~status /\ prevStatus
  /\ UNCHANGED <<iRegStart, iRegStartAddress, iRegBufferAddress, iRegLength,
                 iRegStatus, prevStatus, nextBuffer, moved>>

Rearm(status) ==
  /\ ~status /\ prevStatus
  /\ prevStatus' = FALSE
  /\ UNCHANGED <<iRegStart, iRegStartAddress, iRegBufferAddress, iRegLength,
                 iRegStatus, nextBuffer, moved>>

Hold(status) ==
  /\ status = prevStatus
  /\ UNCHANGED <<iRegStart, iRegStartAddress, iRegBufferAddress, iRegLength,
                 iRegStatus, prevStatus, nextBuffer, moved>>

RingStep(status) == FrameEnd(status) \/ Rearm(status) \/ Hold(status)

----------------------------------------------------------------------------
(* ReadProcess: the answer to a bus read, in the same clock. *)
ReadData(address) ==
  CASE address = 0 -> iRegStart
    [] address \in 1 .. 4 -> iRegStartAddress[address - 1]
    [] address \in 5 .. 8 -> iRegLength[address - 5]
    [] address = 9 -> iRegStatus
    [] OTHER -> 0

----------------------------------------------------------------------------
(* UpdateOutput: what the master and the camera interface see is one clock  *)
(* behind the registers.                                                    *)
UpdateOutput(pending) ==
  /\ AS_AM_StartAddress' = iRegBufferAddress
  /\ AS_AM_Length' = iRegLength
  /\ AS_ALL_Start' = (0 \in iRegStart /\ ~pending)

(* One rising edge: status is AM_AS_Status and pending is AS_CI_Pending. *)
SlaveEdge(status, pending) ==
  /\ UpdateOutput(pending)
  /\ BusWrite \/ RingStep(status)

Next == \E status, pending \in BOOLEAN : SlaveEdge(status, pending)

Spec == Init /\ [][Next]_slaveVars

----------------------------------------------------------------------------
(* Types of the registers and the outputs of Avalon_slave. *)
TypeOK ==
  /\ iRegStart \in Bits
  /\ iRegStartAddress \in Word
  /\ iRegBufferAddress \in Word
  /\ iRegLength \in Word
  /\ iRegStatus \in Bits
  /\ prevStatus \in BOOLEAN
  /\ nextBuffer \in 0 .. 2
  /\ AS_AM_StartAddress \in Word
  /\ AS_AM_Length \in Word
  /\ AS_ALL_Start \in BOOLEAN
  /\ moved \in BOOLEAN

(* The buffer address the master gets (iRegBufferAddress, updated in two    *)
(* places: byte by byte from the bus, and as a whole at a frame end) is the *)
(* start of the buffer the ring points to, for any order of bus writes and  *)
(* frame ends.  The exception is an address byte written between two frame  *)
(* ends away from buffer 0, and the next recorded frame repairs it.         *)
RingAligned ==
  ~moved => iRegBufferAddress = BufferStart(iRegStartAddress, nextBuffer)

Ring == INSTANCE BufferRing
          WITH Buffers <- 3, full <- iRegStatus \cap (0 .. 2), next <- nextBuffer

(* The three if-branches of WriteProcess and the bus write of iRegStatus    *)
(* together implement the abstract ring of buffers: buffers are flagged in  *)
(* cyclic order, and only when the program has cleared them.                *)
ImplementsRing == Ring!Spec
=============================================================================
