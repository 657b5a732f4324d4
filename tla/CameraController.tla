--------------------------- MODULE CameraController ---------------------------
(***************************************************************************)
(* The camera controller (Camera_controller_top_level.vhd): register file, *)
(* master, camera interface and FIFO on their two clocks, between the      *)
(* sensor generator, the memory bus and the program.                       *)
(*                                                                         *)
(* The program has configured the controller as main() does (start address *)
(* and length written while stopped); from then on it writes the start bit *)
(* and the status register.  Its writes are at least two clocks apart.     *)
(*                                                                         *)
(* The memory takes the address with the first word of a burst, and the    *)
(* following words at the following addresses.                             *)
(***************************************************************************)
EXTENDS CaptureChain, Sequences

CONSTANTS ByteBase, BURST_LENGTH, StatusWrites, StartAddress, FrameLength,
          BURSTCOUNT_LENGTH, ADDR_INCREMENT, Capacity

VARIABLES
  iRegStartAddress, iRegBufferAddress, iRegLength, iRegStatus, prevStatus,
  nextBuffer, AS_AM_StartAddress, AS_AM_Length, moved,
  iRegStateSM, iRegCounterAddress, iRegBurstCount,
  queue, unseenReads, unseenWrites,
  wrote,         \* the program used the bus in the last main clock
  burstAddress,  \* address that the memory took with the first word
  pass           \* history: what the memory got since the last first burst

ASSUME ControllerAssumption ==
  /\ Capacity \in Nat /\ Capacity % 2 = 0
  /\ Threshold + 1 < Capacity
  /\ BURSTCOUNT_LENGTH \in Nat /\ BURSTCOUNT_LENGTH >= 2
  /\ ADDR_INCREMENT = 4 * BURSTCOUNT_LENGTH
  /\ ByteBase \in Nat

AddressSpace == ByteBase * ByteBase * ByteBase * ByteBase

(* Register 0 of the register file: the start bit, the others are 0.        *)
StartRegister == IF startBit THEN {0} ELSE {}

Slave == INSTANCE AvalonSlave
           WITH iRegStart <- StartRegister,
                StartWrites <- {{}, {0}}, AddressBytes <- {}, LengthBytes <- {}
Master == INSTANCE AvalonMaster
Fifo == INSTANCE DualClockFifo

slaveVars == <<iRegStartAddress, iRegBufferAddress, iRegLength, iRegStatus,
               prevStatus, nextBuffer, AS_AM_StartAddress, AS_AM_Length, moved>>
masterVars == <<iRegStateSM, iRegCounterAddress, iRegBurstCount>>
fifoVars == <<queue, unseenReads, unseenWrites>>

vars == <<chainVars, slaveVars, masterVars, fifoVars, wrote, burstAddress, pass>>

(* The number on the 32 wires of a register. *)
Value(w) == w[0] + ByteBase * (w[1] + ByteBase * (w[2] + ByteBase * w[3]))

PixelBytes == 2
WordBytes == 4

BufferBase(k) == Value(Slave!BufferStart(StartAddress, k))

(* What main() configures: the length is that of a frame, in whole bursts,  *)
(* and the three buffers lie inside the address space.                      *)
ASSUME BufferAssumption ==
  /\ Value(FrameLength) = PixelBytes * PixelsPerFrame
  /\ Value(FrameLength) % ADDR_INCREMENT = 0
  /\ \A k \in 0 .. 2 : BufferBase(k) \in 0 .. AddressSpace - Value(FrameLength)

(* A function with no argument: nothing written. *)
Nothing == [a \in {} |-> NoSample]

ControllerInit ==
  /\ Init
  /\ iRegStartAddress = StartAddress /\ iRegBufferAddress = StartAddress
  /\ iRegLength = FrameLength
  /\ iRegStatus = {} /\ prevStatus = FALSE /\ nextBuffer = 0
  /\ AS_AM_StartAddress = StartAddress /\ AS_AM_Length = FrameLength
  /\ moved = FALSE
  /\ Master!MasterInit
  /\ Fifo!FifoInit
  /\ wrote = FALSE
  /\ burstAddress = 0
  /\ pass = Nothing

----------------------------------------------------------------------------
(* The wires of the top level in the current main clock.                   *)
Sig_Status(wait) == Master!AM_AS_Status(wait, Value(AS_AM_Length))
Sig_ReadCheck(wait) == Master!ReadCheck(wait)

(* The program: it sets or clears the start bit, or writes the status.      *)
ProgramWrite ==
  /\ ~wrote
  /\ \/ startBit /\ Slave!WriteStart({})
     \/ ~startBit /\ Slave!WriteStart({0})
     \/ \E v \in StatusWrites : Slave!WriteStatus(v)

(* The register file sees either a bus write or the status of the master.   *)
RegisterFile(wait) ==
  /\ Slave!UpdateOutput(CI_AS_Pending)
  /\ \/ ProgramWrite /\ wrote' = TRUE
     \/ Slave!RingStep(Sig_Status(wait)) /\ wrote' = FALSE

(* The memory stores the word of the FIFO that the master has on the bus;   *)
(* history pass starts again with the first burst of a frame, and with every *)
(* stop.                                                                     *)
Memory(wait) ==
  IF ~AS_ALL_Start
  THEN burstAddress' = 0 /\ pass' = Nothing
  ELSE IF Sig_ReadCheck(wait)
  THEN LET first == iRegStateSM = "BEGINTRANSFER"
           a == IF first THEN Master!MemoryAddress(Value(AS_AM_StartAddress))
                         ELSE burstAddress + WordBytes * iRegBurstCount
           word == Fifo!FIFO_AM_ReadData
           kept == IF first /\ iRegCounterAddress = 0 THEN Nothing ELSE pass
       IN  /\ burstAddress' = IF first THEN a
                              ELSE IF Master!BurstEnd(wait) THEN 0 ELSE burstAddress
           /\ pass' = [c \in DOMAIN kept \cup {a, a + PixelBytes} |->
                         IF c = a THEN word[1]
                         ELSE IF c = a + PixelBytes THEN word[2] ELSE kept[c]]
  ELSE UNCHANGED <<burstAddress, pass>>

(* Sig_Reset: the FIFO is held clear while Start is 0.                      *)
FifoRead(wait) ==
  IF AS_ALL_Start /\ AS_ALL_Start'
  THEN \E late \in 0 .. unseenWrites : Fifo!ReadClk(Sig_ReadCheck(wait), late)
  ELSE Fifo!Clear

(* Rising edge of TL_MainClk. *)
ControllerTick(wait) ==
  /\ \E bit \in BOOLEAN : MainTick(bit)
  /\ RegisterFile(wait)
  /\ Master!MasterEdge(AS_ALL_Start, AS_ALL_Start', Fifo!FIFO_AM_UsedWords, wait,
                       Value(AS_AM_Length))
  /\ FifoRead(wait)
  /\ Memory(wait)

(* Rising edge of TL_PixClk: the FIFO shows its new level. *)
PixelRise ==
  /\ IF AS_ALL_Start
     THEN \E late \in 0 .. unseenReads :
            Fifo!WriteClk(CI_FIFO_WriteEnable, CI_FIFO_WriteData, late)
     ELSE Fifo!Clear
  /\ Rise(Fifo!FIFO_CI_UsedWords')
  /\ UNCHANGED <<slaveVars, masterVars, wrote, burstAddress, pass>>

(* Falling edge of TL_PixClk. *)
PixelFall ==
  /\ Fall
  /\ UNCHANGED <<slaveVars, masterVars, fifoVars, wrote, burstAddress, pass>>

ControllerNext ==
  \/ \E wait \in BOOLEAN : ControllerTick(wait)
  \/ PixelRise
  \/ PixelFall

ControllerSpec == ControllerInit /\ [][ControllerNext]_vars

----------------------------------------------------------------------------
(* The contents of buffer k after a whole frame. *)
WholeFrame(k) ==
  [a \in {BufferBase(k) + PixelBytes * i : i \in 0 .. PixelsPerFrame - 1} |->
     Binned((a - BufferBase(k)) \div PixelBytes)]

FrameEnds == \E wait \in BOOLEAN : ControllerTick(wait) /\ Sig_Status(wait)

(* When the master reports the end of a frame, the memory has got, since    *)
(* the first burst, exactly the pixels of one frame, each at its place in   *)
(* the buffer the ring points to and nothing anywhere else.  This spans     *)
(* sensor, interface, FIFO, master and register file, with stops and frames *)
(* given up in between.                                                     *)
FrameIntegrity == [][FrameEnds => pass' = WholeFrame(nextBuffer)]_vars

(* The FIFO is never full: the threshold of the interface leaves room for   *)
(* every pixel that is on its way when the level passes it, so that no      *)
(* pixel is dropped and the level never wraps to 0.                         *)
NeverFull == Fifo!WriteSideFill < Capacity

(* While the bus stalls the first word of a burst, the address of the burst *)
(* does not move, although the register file may have just changed buffers. *)
AddressHeld ==
  [][iRegStateSM = "BEGINTRANSFER" /\ iRegStateSM' = "BEGINTRANSFER" =>
       Master!MemoryAddress(Value(AS_AM_StartAddress))'
         = Master!MemoryAddress(Value(AS_AM_StartAddress))]_vars

(* A frame end in a clock in which the program does not use the bus is      *)
(* recorded whenever the buffer is free: the edge detector has been armed   *)
(* again since the previous frame.                                          *)
FrameRecorded ==
  [][FrameEnds /\ ~wrote' /\ nextBuffer \notin iRegStatus =>
       /\ nextBuffer \in iRegStatus'
       /\ nextBuffer' = (nextBuffer + 1) % 3]_vars
=============================================================================
