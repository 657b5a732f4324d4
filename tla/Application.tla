----------------------------- MODULE Application -----------------------------
(***************************************************************************)
(* main() of hello_world.c against the register file and the master: it    *)
(* configures and starts the controller, waits for the status values 1, 3  *)
(* and 7 in turn, stops the controller and reads three frames from the     *)
(* memory.  It may be run again without a reset of the hardware, also after *)
(* it has been interrupted anywhere: the debugger downloads and starts it   *)
(* anew, and the controller does not notice.                                *)
(*                                                                         *)
(* A step is one edge of the main clock with at most one access of the     *)
(* program.  The rest of the controller is seen through the FIFO level and *)
(* AS_CI_Pending.  The memory holds, for each burst, the number of the     *)
(* frame it is from, counted since the start; 0 is anything older.         *)
(*                                                                         *)
(* While main() polls, it reads the status at least once between two frame *)
(* ends: a frame takes 16 ms, a poll a microsecond and the printf after a  *)
(* poll a few milliseconds.                                                *)
(***************************************************************************)
EXTENDS Integers

CONSTANTS ByteBase, BURST_LENGTH, FrameLength,
          BURSTCOUNT_LENGTH, ADDR_INCREMENT,
          MaxGiveUps,     \* frames given up in a run of main()
          MaxInterrupts,  \* runs of main() that are interrupted
          LastFrame       \* frame numbers stop here

VARIABLES
  iRegStart, iRegStartAddress, iRegBufferAddress, iRegLength, iRegStatus,
  prevStatus, nextBuffer, AS_AM_StartAddress, AS_AM_Length, AS_ALL_Start,
  moved,
  iRegStateSM, iRegCounterAddress, iRegBurstCount,
  pc, i,       \* the place in main(): a loop or a list of accesses, and where in it
  memory,      \* frame number of each burst
  frame,       \* history: number of the frame that the camera delivers
  polled,      \* history: the status was read since the last frame end
  giveUps,     \* history: frames given up in this run
  interrupts   \* history: runs interrupted

AddressSpace == ByteBase * ByteBase * ByteBase * ByteBase

Slave == INSTANCE AvalonSlave
           WITH StartWrites <- {{}, {0}}, StatusWrites <- {{}},
                AddressBytes <- {0}, LengthBytes <- 0 .. ByteBase - 1
Master == INSTANCE AvalonMaster

masterVars == <<iRegStateSM, iRegCounterAddress, iRegBurstCount>>
vars == <<iRegStart, iRegStartAddress, iRegBufferAddress, iRegLength, iRegStatus,
          prevStatus, nextBuffer, AS_AM_StartAddress, AS_AM_Length, AS_ALL_Start,
          moved, masterVars, pc, i, memory, frame, polled, giveUps, interrupts>>

Value(w) == w[0] + ByteBase * (w[1] + ByteBase * (w[2] + ByteBase * w[3]))

(* What main() and the generics of the master agree on: buffers are as long *)
(* as a frame, a frame is a number of whole bursts, and three buffers fit   *)
(* into the address space.  The numbers of frames go on for longer than a   *)
(* run of main() looks at them.                                             *)
ASSUME ApplicationAssumption ==
  /\ ByteBase \in Nat /\ ByteBase >= 2
  /\ FrameLength \in Slave!Word /\ BURST_LENGTH = FrameLength
  /\ BURSTCOUNT_LENGTH \in Nat /\ BURSTCOUNT_LENGTH >= 2
  /\ ADDR_INCREMENT \in Nat /\ ADDR_INCREMENT >= 1
  /\ Value(FrameLength) > 0 /\ Value(FrameLength) % ADDR_INCREMENT = 0
  /\ 3 * Value(FrameLength) <= AddressSpace
  /\ MaxGiveUps \in Nat /\ LastFrame \in Nat /\ LastFrame > MaxGiveUps + 3

BurstAddress == {ADDR_INCREMENT * n : n \in 0 .. (AddressSpace \div ADDR_INCREMENT) - 1}

Init ==
  /\ Slave!Init
  /\ Master!MasterInit
  /\ pc = "fill" /\ i = 0
  /\ memory = [a \in BurstAddress |-> 0]
  /\ frame = 1 /\ polled = TRUE /\ giveUps = 0 /\ interrupts = 0

----------------------------------------------------------------------------
(* main(): one access in a clock, or none.  Each action says what the       *)
(* register file does in that clock, and what the histories do.             *)

Goto(label) == pc' = label /\ i' = 0

Repeat(last, label) == IF i = last THEN Goto(label) ELSE i' = i + 1 /\ UNCHANGED pc

NoAccess(status) == Slave!RingStep(status)

(* The first buffer is filled with numbers. *)
Fill(status) ==
  /\ pc = "fill" /\ NoAccess(status)
  /\ Goto("stop") /\ UNCHANGED polled

Stop == pc = "stop" /\ Slave!WriteStart({}) /\ Goto("address") /\ UNCHANGED polled

Address == pc = "address" /\ Slave!WriteStartAddress(i, 0) /\ Repeat(3, "length") /\ UNCHANGED polled

Length ==
  pc = "length" /\ Slave!WriteLength(i, FrameLength[i]) /\ Repeat(3, "status") /\ UNCHANGED polled

Status == pc = "status" /\ Slave!WriteStatus({}) /\ Goto("start") /\ UNCHANGED polled

Start ==
  /\ pc = "start" /\ Slave!WriteStart({0})
  /\ Goto("poll") /\ polled' = TRUE

(* Wrong: the loops wait for their bits, and take others for granted. *)
PollBits(status) ==
  /\ pc = "poll" /\ NoAccess(status)
  /\ IF 0 .. i \subseteq Slave!ReadData(9) THEN Repeat(2, "halt") ELSE UNCHANGED <<pc, i>>
  /\ polled' = ~status

(* The loops wait for 1, 3 and 7: bits 0 to i, and no other. *)
Poll(status) ==
  /\ pc = "poll" /\ NoAccess(status)
  /\ IF Slave!ReadData(9) = 0 .. i THEN Repeat(2, "halt") ELSE UNCHANGED <<pc, i>>
  /\ polled' = ~status

Halt == pc = "halt" /\ Slave!WriteStart({}) /\ Goto("read") /\ UNCHANGED polled

(* Buffer i is read and written to a file. *)
Read(status) == pc = "read" /\ NoAccess(status) /\ Repeat(2, "fill") /\ UNCHANGED polled

Compute(status) ==
  /\ NoAccess(status)
  /\ polled' = (polled /\ ~(pc = "poll" /\ status))
  /\ UNCHANGED <<pc, i>>

(* main() is interrupted and starts anew; the hardware goes on. *)
Interrupt(status) ==
  /\ pc # "fill" /\ NoAccess(status)
  /\ Goto("fill") /\ UNCHANGED polled

Access(status) ==
  \/ Fill(status) \/ Stop \/ Address \/ Length \/ Status \/ Start
  \/ Poll(status) \/ Halt \/ Read(status)

----------------------------------------------------------------------------
(* The hardware.                                                           *)

Sig_Status(wait) == Master!AM_AS_Status(wait, Value(AS_AM_Length))

Started == pc \in {"poll", "halt", "read"}

(* The memory gets a burst at the address that goes with its first word.    *)
Memory(wait) ==
  memory' =
    IF ~Started THEN [a \in BurstAddress |-> 0]
    ELSE IF AS_ALL_Start /\ Master!ReadCheck(wait) /\ iRegStateSM = "BEGINTRANSFER"
    THEN [memory EXCEPT ![Master!MemoryAddress(Value(AS_AM_StartAddress))] = frame]
    ELSE memory

(* A frame is over when the master has reported it or Start cuts it off.    *)
FrameOver(wait) == Sig_Status(wait) \/ (AS_ALL_Start /\ ~AS_ALL_Start')

CountFrames(wait) ==
  frame' = IF ~Started THEN 1
           ELSE IF FrameOver(wait) /\ frame < LastFrame THEN frame + 1 ELSE frame

(* The FIFO fills, and the interface raises AS_CI_Pending.                  *)
GiveUp(pending) ==
  /\ pending => AS_ALL_Start /\ giveUps < MaxGiveUps
  /\ giveUps' = IF pc = "start" THEN 0 ELSE IF pending THEN giveUps + 1 ELSE giveUps

(* One clock of the hardware: used is the FIFO level, wait is WaitRequest.  *)
Hardware(used, wait, pending) ==
  /\ pc = "poll" /\ Sig_Status(wait) => polled
  /\ Slave!UpdateOutput(pending)
  /\ Master!MasterEdge(AS_ALL_Start, AS_ALL_Start', used, wait, Value(AS_AM_Length))
  /\ Memory(wait)
  /\ CountFrames(wait)
  /\ GiveUp(pending)

Interrupted(wait) ==
  /\ interrupts < MaxInterrupts /\ interrupts' = interrupts + 1
  /\ Interrupt(Sig_Status(wait))

Edge(used, wait, pending) ==
  /\ \/ (Access(Sig_Status(wait)) \/ Compute(Sig_Status(wait))) /\ UNCHANGED interrupts
     \/ Interrupted(wait)
  /\ Hardware(used, wait, pending)

Next ==
  \E used \in {0, BURSTCOUNT_LENGTH}, wait, pending \in BOOLEAN : Edge(used, wait, pending)

Spec == Init /\ [][Next]_vars

(* The program runs, and again and again there is a burst in the FIFO and   *)
(* the bus accepts a word.                                                  *)
ProgramRuns ==
  \E used \in {0, BURSTCOUNT_LENGTH}, wait, pending \in BOOLEAN :
    Access(Sig_Status(wait)) /\ Hardware(used, wait, pending) /\ UNCHANGED interrupts

FairSpec ==
  /\ Spec
  /\ WF_vars(Next)
  /\ WF_vars(ProgramRuns)
  /\ SF_vars(Edge(BURSTCOUNT_LENGTH, FALSE, FALSE))

----------------------------------------------------------------------------
(* Buffer k as main() reads it: at fixed distances from the first.          *)
Buffer(k) ==
  [n \in 0 .. (Value(FrameLength) \div ADDR_INCREMENT) - 1 |->
     memory[k * Value(FrameLength) + n * ADDR_INCREMENT]]

(* Buffer k holds one frame, taken since the start. *)
Whole(k) == \E f \in 1 .. LastFrame - 1 : \A n \in DOMAIN Buffer(k) : Buffer(k)[n] = f

(* When main() has seen the status 7 and reads, the second and the third    *)
(* buffer hold one whole frame each, in the order they were taken, although *)
(* frames may have been given up in between and the camera goes on until    *)
(* the stop has reached the master.                                         *)
LaterFramesKept ==
  pc = "read" => Whole(1) /\ Whole(2) /\ Buffer(1)[0] < Buffer(2)[0]

(* The same for the first frame: "READ THE FRAMES IN THE MEMORY" begins with *)
(* the first buffer and ends with "FRAME 1 FINISHED".                        *)
FirstFrameKept == pc = "read" => Whole(0) /\ Buffer(0)[0] < Buffer(1)[0]

(* The ring as main() expects it: filled in order from the first buffer.    *)
Aligned == \E n \in 0 .. 3 : iRegStatus = {k \in 0 .. 2 : k < n} /\ nextBuffer = n % 3

(* Each of the three loops ends, in every run of main() that is not         *)
(* interrupted and has found the ring at the first buffer: the status takes *)
(* the values 1, 3 and 7 in this order, and the program sees each.          *)
PollsEnd == pc = "poll" /\ Aligned ~> pc \in {"read", "fill"}

(* A run that has found the ring at another buffer, where an interrupted run *)
(* has left it, reads nothing: its loops do not end.                        *)
ReadsAligned == pc \in {"halt", "read"} => Aligned
=============================================================================
