---------------------------- MODULE AvalonProofs ----------------------------
(***************************************************************************)
(* The two ends of the controller on the Avalon bus, each by itself.  The   *)
(* register file: its types, the alignment of its ring and the refinement   *)
(* of BufferRing, for every byte size, buffer distance and set of written   *)
(* values.  The master on its bus: the safety properties of MasterOnBus, for *)
(* every burst length, burst size, FIFO depth and set of lengths.           *)
(***************************************************************************)
EXTENDS AvalonSlave, MasterOnBus, TLAPS

----------------------------------------------------------------------------
(* The register file (Spec).                                               *)

(* The lanes of a sum are bytes: the carries are natural numbers and the   *)
(* remainder of a lane is below ByteBase.                                  *)
LEMMA PlusType ==
  ASSUME NEW a \in Word, NEW b \in Word
  PROVE  Plus(a, b) \in Word
<1> DEFINE c1 == (a[0] + b[0]) \div ByteBase
           c2 == (a[1] + b[1] + c1) \div ByteBase
           c3 == (a[2] + b[2] + c2) \div ByteBase
           carry == <<0, c1, c2, c3>>
<1>1. ByteBase \in Nat /\ ByteBase >= 2
  BY SlaveAssumption
<1>2. \A i \in Lane : a[i] \in Nat /\ b[i] \in Nat
  BY DEF Word, Byte
<1>3. \A x \in Nat : x \div ByteBase \in Nat /\ x % ByteBase \in Byte
  BY <1>1 DEF Byte
<1>4. c1 \in Nat
  BY <1>2, <1>3 DEF Lane
<1> HIDE DEF c1
<1>5. c2 \in Nat
  BY <1>2, <1>3, <1>4 DEF Lane
<1> HIDE DEF c2
<1>6. c3 \in Nat
  BY <1>2, <1>3, <1>5 DEF Lane
<1> HIDE DEF c3
<1>7. \A i \in Lane : carry[i + 1] \in Nat
  BY <1>4, <1>5, <1>6 DEF Lane
<1>8. \A i \in Lane : (a[i] + b[i] + carry[i + 1]) % ByteBase \in Byte
  BY <1>2, <1>3, <1>7
<1>9. Plus(a, b) = [i \in Lane |-> (a[i] + b[i] + carry[i + 1]) % ByteBase]
  BY DEF Plus, c1, c2, c3
<1> QED
  BY <1>8, <1>9 DEF Word

(* The three buffers start at addresses of the bus. *)
LEMMA BufferStartType ==
  ASSUME NEW s \in Word, NEW k \in 0 .. 2
  PROVE  BufferStart(s, k) \in Word
<1>1. BURST_LENGTH \in Word
  BY SlaveAssumption
<1>2. Plus(s, BURST_LENGTH) \in Word
  BY <1>1, PlusType
<1>3. Plus(Plus(s, BURST_LENGTH), BURST_LENGTH) \in Word
  BY <1>1, <1>2, PlusType
<1> QED
  BY <1>2, <1>3 DEF BufferStart

(* The reset value of the 32-bit registers is a word. *)
LEMMA ZeroType == Zero \in Word
  BY SlaveAssumption DEF Zero, Word, Byte

(* Every register keeps its type. *)
THEOREM TypeCorrect == Spec => []TypeOK
<1>1. Init => TypeOK
  <2>1. {} \in Bits
    BY DEF Bits
  <2>2. Init => iRegStart \in Bits /\ iRegStatus \in Bits
    BY <2>1 DEF Init
  <2>3. Init => nextBuffer \in 0 .. 2
    BY DEF Init
  <2>4. Init => /\ prevStatus \in BOOLEAN
                /\ AS_ALL_Start \in BOOLEAN
                /\ moved \in BOOLEAN
    BY DEF Init
  <2>5. Init => /\ iRegStartAddress \in Word
                /\ iRegBufferAddress \in Word
                /\ iRegLength \in Word
                /\ AS_AM_StartAddress \in Word
                /\ AS_AM_Length \in Word
    BY ZeroType DEF Init
  <2> QED
    BY <2>2, <2>3, <2>4, <2>5 DEF TypeOK
<1>2. TypeOK /\ [Next]_slaveVars => TypeOK'
  <2> SUFFICES ASSUME TypeOK, [Next]_slaveVars PROVE TypeOK'
    OBVIOUS
  <2> USE DEF TypeOK
  <2>1. ASSUME NEW status \in BOOLEAN, NEW pending \in BOOLEAN,
               SlaveEdge(status, pending)
        PROVE  TypeOK'
    <3>1. /\ AS_AM_StartAddress' \in Word
          /\ AS_AM_Length' \in Word
          /\ AS_ALL_Start' \in BOOLEAN
      BY <2>1 DEF SlaveEdge, UpdateOutput
    <3>2. ASSUME NEW v \in StartWrites, WriteStart(v) PROVE TypeOK'
      BY <3>1, <3>2, SlaveAssumption DEF WriteStart
    <3>3. ASSUME NEW i \in Lane, NEW b \in AddressBytes, WriteStartAddress(i, b)
          PROVE  TypeOK'
      BY <3>1, <3>3, SlaveAssumption DEF WriteStartAddress, Word
    <3>4. ASSUME NEW i \in Lane, NEW b \in LengthBytes, WriteLength(i, b)
          PROVE  TypeOK'
      BY <3>1, <3>4, SlaveAssumption DEF WriteLength, Word
    <3>5. ASSUME NEW v \in StatusWrites, WriteStatus(v) PROVE TypeOK'
      BY <3>1, <3>5, SlaveAssumption DEF WriteStatus
    <3>6. CASE WriteNothing
      BY <3>1, <3>6 DEF WriteNothing
    <3>7. CASE RecordFrame
      <4>1. (nextBuffer + 1) % 3 \in 0 .. 2
        OBVIOUS
      <4>2. iRegBufferAddress' \in Word
        BY <3>7, <4>1, BufferStartType DEF RecordFrame, Advance
      <4>3. iRegStatus' \in Bits
        BY <3>7 DEF RecordFrame, Advance, Bits
      <4> QED
        BY <3>1, <3>7, <4>1, <4>2, <4>3 DEF RecordFrame, Advance
    <3>8. CASE DropFrame
      BY <3>1, <3>8 DEF DropFrame
    <3>9. CASE Rearm(status)
      BY <3>1, <3>9 DEF Rearm
    <3>10. CASE Hold(status)
      BY <3>1, <3>10 DEF Hold
    <3> QED
      BY <2>1, <3>2, <3>3, <3>4, <3>5, <3>6, <3>7, <3>8, <3>9, <3>10
      DEF SlaveEdge, BusWrite, RingStep, FrameEnd
  <2>2. CASE UNCHANGED slaveVars
    BY <2>2 DEF slaveVars, outputs
  <2> QED
    BY <2>1, <2>2 DEF Next
<1> QED
  BY <1>1, <1>2, PTL DEF Spec

(* For every order of bus writes and frame ends, the buffer address given  *)
(* to the master is the start of the buffer the ring points to, unless the *)
(* program wrote an address byte away from buffer 0 since the last recorded *)
(* frame.  RingAligned is inductive as it stands.                          *)
THEOREM RingAlignedCorrect == Spec => []RingAligned
<1>1. Init => RingAligned
  BY DEF Init, RingAligned, BufferStart
<1>2. TypeOK /\ RingAligned /\ [Next]_slaveVars => RingAligned'
  <2> SUFFICES ASSUME TypeOK, RingAligned, [Next]_slaveVars PROVE RingAligned'
    OBVIOUS
  <2>1. ASSUME NEW status \in BOOLEAN, NEW pending \in BOOLEAN,
               SlaveEdge(status, pending)
        PROVE  RingAligned'
    <3>1. CASE UNCHANGED <<iRegStartAddress, iRegBufferAddress, nextBuffer, moved>>
      BY <3>1 DEF RingAligned
    <3>2. ASSUME NEW i \in Lane, NEW b \in AddressBytes, WriteStartAddress(i, b),
                 ~moved'
          PROVE  iRegBufferAddress' = BufferStart(iRegStartAddress', nextBuffer')
      <4>1. ~moved /\ nextBuffer = 0 /\ nextBuffer' = 0
        BY <3>2 DEF WriteStartAddress
      <4>2. iRegBufferAddress = iRegStartAddress
        BY <4>1 DEF RingAligned, BufferStart
      <4> QED
        BY <3>2, <4>1, <4>2 DEF WriteStartAddress, BufferStart
    <3>3. CASE RecordFrame
      <4>1. iRegStartAddress' = iRegStartAddress
        BY <3>3 DEF RecordFrame, Advance
      <4>2. iRegBufferAddress' = BufferStart(iRegStartAddress, nextBuffer')
        BY <3>3 DEF RecordFrame, Advance
      <4> QED
        BY <4>1, <4>2 DEF RingAligned
    <3>4. \/ UNCHANGED <<iRegStartAddress, iRegBufferAddress, nextBuffer, moved>>
          \/ \E i \in Lane, b \in AddressBytes : WriteStartAddress(i, b)
          \/ RecordFrame
      BY <2>1 DEF SlaveEdge, BusWrite, RingStep, FrameEnd, WriteStart, WriteLength,
                  WriteStatus, WriteNothing, DropFrame, Rearm, Hold
    <3> QED
      BY <3>1, <3>2, <3>3, <3>4 DEF RingAligned
  <2>2. CASE UNCHANGED slaveVars
    BY <2>2 DEF slaveVars, RingAligned
  <2> QED
    BY <2>1, <2>2 DEF Next
<1> QED
  BY <1>1, <1>2, TypeCorrect, PTL DEF Spec

(* The register file implements the abstract ring of buffers: a recorded   *)
(* frame is Complete, a write of the status register is Flag, and every     *)
(* other edge is a stutter.                                                *)
THEOREM RingRefined == Spec => ImplementsRing
<1>1. Init => Ring!Init
  BY DEF Init, Ring!Init
<1>2. TypeOK /\ [Next]_slaveVars => [Ring!Next]_(Ring!ringVars)
  <2> SUFFICES ASSUME TypeOK, [Next]_slaveVars
               PROVE  [Ring!Next]_(Ring!ringVars)
    OBVIOUS
  <2>1. ASSUME NEW status \in BOOLEAN, NEW pending \in BOOLEAN,
               SlaveEdge(status, pending)
        PROVE  [Ring!Next]_(Ring!ringVars)
    <3>1. CASE UNCHANGED <<iRegStatus, nextBuffer>>
      BY <3>1 DEF Ring!ringVars
    <3>2. ASSUME NEW v \in StatusWrites, WriteStatus(v) PROVE Ring!Next
      <4>1. Ring!Flag(v \cap (0 .. 2))
        BY <3>2 DEF WriteStatus, Ring!Flag
      <4>2. v \cap (0 .. 2) \in SUBSET Ring!Index
        BY DEF Ring!Index
      <4> QED
        BY <4>1, <4>2 DEF Ring!Next
    <3>3. CASE RecordFrame
      <4>1. nextBuffer \in 0 .. 2
        BY DEF TypeOK
      <4>2. Ring!Complete
        BY <3>3, <4>1 DEF RecordFrame, Advance, Ring!Complete
      <4> QED
        BY <4>2 DEF Ring!Next
    <3>4. \/ UNCHANGED <<iRegStatus, nextBuffer>>
          \/ \E v \in StatusWrites : WriteStatus(v)
          \/ RecordFrame
      BY <2>1 DEF SlaveEdge, BusWrite, RingStep, FrameEnd, WriteStart,
                  WriteStartAddress, WriteLength, WriteNothing, DropFrame, Rearm,
                  Hold
    <3> QED
      BY <3>1, <3>2, <3>3, <3>4
  <2>2. CASE UNCHANGED slaveVars
    BY <2>2 DEF slaveVars, Ring!ringVars
  <2> QED
    BY <2>1, <2>2 DEF Next
<1> QED
  BY <1>1, <1>2, TypeCorrect, PTL DEF Spec, ImplementsRing, Ring!Spec

----------------------------------------------------------------------------
(* The master on its bus (BusSpec).                                        *)

(* Between bursts no word is counted, inside a burst at least one is, and   *)
(* while Start is 0 every register is cleared.                              *)
CountMatchesState ==
  /\ iRegStateSM = "BURST" => iRegBurstCount >= 1
  /\ iRegStateSM # "BURST" => iRegBurstCount = 0
  /\ ~AM_AS_Start => iRegStateSM = "WAITDATA"

BusInv == BusTypeOK /\ CountMatchesState /\ NoUnderflow /\ BusInStep

(* What an edge does when Start is 0 before or after it.                    *)
StoppedEdge ==
  /\ iRegStateSM' = "WAITDATA" /\ iRegCounterAddress' = 0 /\ iRegBurstCount' = 0
  /\ AM_FIFO_UsedWords' = 0
  /\ bursts' = 0

(* The edge while Start is 1, split by the step of the state machine.       *)
LEMMA EdgeCases ==
  ASSUME NEW start \in BOOLEAN, NEW arrival \in {0, 1}, NEW wait \in BOOLEAN,
         Edge(start, arrival, wait)
  PROVE  \/ ~Running /\ StoppedEdge
         \/ Running /\ ClockEdge(AM_FIFO_UsedWords, AM_AB_WaitRequest, AM_AS_Length)
<1>1. CASE Running
  BY <1>1 DEF Edge, MasterEdge, Running
<1>2. CASE ~Running
  BY <1>2 DEF Edge, MasterEdge, Running, Abort, Cleared, Fifo, CountBursts,
              StoppedEdge
<1> QED
  BY <1>1, <1>2

(* The input and history registers keep their types.                        *)
LEMMA InputTypes ==
  ASSUME BusTypeOK,
         NEW start \in BOOLEAN, NEW arrival \in {0, 1}, NEW wait \in BOOLEAN,
         Edge(start, arrival, wait)
  PROVE  /\ AM_AS_Start' \in BOOLEAN
         /\ AM_AS_Length' \in Lengths
         /\ AM_AB_WaitRequest' \in BOOLEAN
         /\ cut' \in BOOLEAN
         /\ frameDone' \in BOOLEAN
         /\ bursts' \in Nat
         /\ owed' \in 0 .. BURSTCOUNT_LENGTH - 1
<1>1. /\ AM_AS_Start' \in BOOLEAN
      /\ AM_AB_WaitRequest' \in BOOLEAN
      /\ cut' \in BOOLEAN
      /\ frameDone' \in BOOLEAN
  BY DEF Edge, BusAccept, CountBursts, AM_AS_Status, BurstEnd
<1>2. AM_AS_Length' \in Lengths
  BY DEF Edge, BusTypeOK
<1>3. bursts' \in Nat
  <2>1. bursts \in Nat
    BY DEF BusTypeOK
  <2>2. bursts' = 0 \/ bursts' = bursts + 1 \/ bursts' = bursts
    BY DEF Edge, CountBursts
  <2> QED
    BY <2>1, <2>2
<1>4. owed' \in 0 .. BURSTCOUNT_LENGTH - 1
  <2>1. \/ owed' = owed
        \/ owed' = BURSTCOUNT_LENGTH - 1
        \/ owed # 0 /\ owed' = owed - 1
    BY DEF Edge, BusAccept
  <2>2. owed \in 0 .. BURSTCOUNT_LENGTH - 1
    BY DEF BusTypeOK
  <2> QED
    BY <2>1, <2>2, MasterAssumption
<1> QED
  BY <1>1, <1>2, <1>3, <1>4

(* The state machine keeps its types, counts the words of a burst and finds *)
(* each of them in the FIFO.                                                *)
LEMMA MachineStep ==
  ASSUME BusInv,
         NEW start \in BOOLEAN, NEW arrival \in {0, 1}, NEW wait \in BOOLEAN,
         Edge(start, arrival, wait)
  PROVE  /\ iRegStateSM' \in State
         /\ iRegCounterAddress' \in Address
         /\ iRegBurstCount' \in 0 .. BURSTCOUNT_LENGTH - 1
         /\ AM_FIFO_UsedWords' \in Nat
         /\ CountMatchesState'
         /\ NoUnderflow'
<1>1. /\ BURSTCOUNT_LENGTH \in Nat /\ BURSTCOUNT_LENGTH >= 2
      /\ ADDR_INCREMENT \in Nat /\ ADDR_INCREMENT >= 1
      /\ AddressSpace \in Nat /\ AddressSpace >= ADDR_INCREMENT
  BY MasterAssumption
<1>2. /\ iRegStateSM \in State
      /\ iRegCounterAddress \in Address
      /\ iRegBurstCount \in 0 .. BURSTCOUNT_LENGTH - 1
      /\ AM_FIFO_UsedWords \in Nat
  BY DEF BusInv, BusTypeOK
<1>3. /\ iRegStateSM = "BURST" => iRegBurstCount >= 1
      /\ iRegStateSM # "BURST" => iRegBurstCount = 0
  BY DEF BusInv, CountMatchesState
<1>4. AM_FIFO_UsedWords >= Remaining
  BY DEF BusInv, NoUnderflow
<1>5. CASE ~Running /\ StoppedEdge
  <2>1. 0 \in Address
    BY <1>1 DEF Address
  <2>2. ~WriteAccess'
    BY <1>5 DEF WriteAccess, StoppedEdge
  <2>3. Remaining' = 0
    BY <2>2 DEF Remaining
  <2> QED
    BY <1>1, <1>5, <2>1, <2>3
    DEF StoppedEdge, State, CountMatchesState, NoUnderflow
<1>6. CASE Running /\ ClockEdge(AM_FIFO_UsedWords, AM_AB_WaitRequest, AM_AS_Length)
  <2>1. AM_AS_Start'
    BY <1>6 DEF Running
  <2>2. Fifo(arrival)
    BY DEF Edge
  <2>3. CASE ~ReadCheck(AM_AB_WaitRequest)
    <3>1. AM_FIFO_UsedWords' = AM_FIFO_UsedWords + arrival
      BY <1>2, <1>6, <2>2, <2>3 DEF Fifo
    <3>2. CASE StartBurst(AM_FIFO_UsedWords)
      <4>1. WriteAccess'
        BY <3>2 DEF StartBurst, WriteAccess
      <4>2. Remaining' = BURSTCOUNT_LENGTH - iRegBurstCount'
        BY <4>1 DEF Remaining
      <4> QED
        BY <1>1, <1>2, <1>3, <2>1, <3>1, <3>2, <4>2
        DEF StartBurst, AlmostEmpty, State, CountMatchesState, NoUnderflow
    <3>3. CASE Stay(AM_FIFO_UsedWords, AM_AB_WaitRequest)
      <4>1. UNCHANGED <<iRegStateSM, iRegCounterAddress, iRegBurstCount>>
        BY <3>3 DEF Stay, masterVars
      <4>2. Remaining' = Remaining
        BY <4>1 DEF Remaining, WriteAccess
      <4>3. Remaining \in Int
        BY <1>1, <1>2 DEF Remaining
      <4>4. NoUnderflow'
        BY <1>2, <1>4, <3>1, <4>2, <4>3 DEF NoUnderflow
      <4> QED
        BY <1>2, <1>3, <2>1, <3>1, <4>1, <4>4 DEF CountMatchesState
    <3> QED
      BY <1>6, <2>3, <3>2, <3>3
      DEF ClockEdge, FirstWord, NextWord, LastWord, BurstEnd, ReadCheck, WriteAccess
  <2>4. CASE ReadCheck(AM_AB_WaitRequest)
    <3>1. AM_FIFO_UsedWords' = AM_FIFO_UsedWords - 1 + arrival
      BY <1>2, <1>6, <2>2, <2>4 DEF Fifo
    <3>2. Remaining = BURSTCOUNT_LENGTH - iRegBurstCount
      BY <2>4 DEF ReadCheck, Remaining
    <3>3. AM_FIFO_UsedWords >= 1 /\ AM_FIFO_UsedWords' \in Nat
      BY <1>1, <1>2, <1>4, <3>1, <3>2
    <3>4. CASE FirstWord(AM_AB_WaitRequest) \/ NextWord(AM_AB_WaitRequest)
      <4>1. /\ iRegStateSM' = "BURST"
            /\ iRegBurstCount' = iRegBurstCount + 1
            /\ iRegCounterAddress' = iRegCounterAddress
        BY <3>4 DEF FirstWord, NextWord
      <4>2. iRegBurstCount # BURSTCOUNT_LENGTH - 1
        BY <1>1, <1>3, <3>4 DEF FirstWord, NextWord, BurstEnd
      <4>3. WriteAccess'
        BY <4>1 DEF WriteAccess
      <4>4. Remaining' = BURSTCOUNT_LENGTH - iRegBurstCount'
        BY <4>3 DEF Remaining
      <4> QED
        BY <1>1, <1>2, <1>4, <2>1, <3>1, <3>2, <3>3, <4>1, <4>2, <4>4
        DEF State, CountMatchesState, NoUnderflow
    <3>5. CASE LastWord(AM_AB_WaitRequest, AM_AS_Length)
      <4>1. iRegStateSM' = "WAITDATA" /\ iRegBurstCount' = 0
        BY <3>5 DEF LastWord
      <4>2. ~WriteAccess'
        BY <4>1 DEF WriteAccess
      <4>3. Remaining' = 0
        BY <4>2 DEF Remaining
      <4>4. iRegCounterAddress' \in Address
        <5>1. 0 \in Address
          BY <1>1 DEF Address
        <5>2. (iRegCounterAddress + ADDR_INCREMENT) % AddressSpace \in Address
          BY <1>1, <1>2 DEF Address
        <5> QED
          BY <3>5, <5>1, <5>2 DEF LastWord
      <4> QED
        BY <1>1, <2>1, <3>3, <4>1, <4>3, <4>4
        DEF State, CountMatchesState, NoUnderflow
    <3> QED
      BY <1>6, <2>4, <3>4, <3>5
      DEF ClockEdge, StartBurst, Stay, ReadCheck, WriteAccess
  <2> QED
    BY <2>3, <2>4
<1> QED
  BY <1>5, <1>6, EdgeCases

(* The bus and the master count the words of a burst together.              *)
LEMMA BusStep ==
  ASSUME BusInv,
         NEW start \in BOOLEAN, NEW arrival \in {0, 1}, NEW wait \in BOOLEAN,
         Edge(start, arrival, wait)
  PROVE  BusInStep'
<1>1. BURSTCOUNT_LENGTH \in Nat /\ BURSTCOUNT_LENGTH >= 2
  BY MasterAssumption
<1>2. /\ iRegBurstCount \in 0 .. BURSTCOUNT_LENGTH - 1
      /\ owed \in 0 .. BURSTCOUNT_LENGTH - 1
  BY DEF BusInv, BusTypeOK
<1>3. /\ iRegStateSM = "BURST" => iRegBurstCount >= 1
      /\ iRegStateSM # "BURST" => iRegBurstCount = 0
      /\ ~AM_AS_Start => iRegStateSM = "WAITDATA"
  BY DEF BusInv, CountMatchesState
<1> SUFFICES ASSUME ~cut'
             PROVE  owed' = IF iRegStateSM' = "BURST"
                            THEN BURSTCOUNT_LENGTH - iRegBurstCount' ELSE 0
  BY DEF BusInStep
<1>4. ~cut /\ (AM_AS_Start' \/ owed' = 0)
  BY DEF Edge, BusAccept
<1>5. /\ iRegStateSM = "BURST" => owed = BURSTCOUNT_LENGTH - iRegBurstCount
      /\ iRegStateSM # "BURST" => owed = 0
  BY <1>4 DEF BusInv, BusInStep
<1>6. /\ ~ReadCheck(AM_AB_WaitRequest) => owed' = owed
      /\ ReadCheck(AM_AB_WaitRequest) /\ owed = 0
           => owed' = BURSTCOUNT_LENGTH - 1
      /\ ReadCheck(AM_AB_WaitRequest) /\ owed # 0 => owed' = owed - 1
  BY DEF Edge, BusAccept
<1>7. CASE ~Running /\ StoppedEdge
  <2>1. iRegStateSM' # "BURST"
    BY <1>7 DEF StoppedEdge
  <2>2. CASE owed' = 0
    BY <2>1, <2>2
  <2>3. CASE AM_AS_Start'
    <3>1. ~AM_AS_Start
      BY <1>7, <2>3 DEF Running
    <3>2. iRegStateSM = "WAITDATA"
      BY <1>3, <3>1
    <3>3. ~ReadCheck(AM_AB_WaitRequest)
      BY <3>2 DEF ReadCheck, WriteAccess
    <3> QED
      BY <1>5, <1>6, <2>1, <3>2, <3>3
  <2> QED
    BY <1>4, <2>2, <2>3
<1>8. CASE Running /\ ClockEdge(AM_FIFO_UsedWords, AM_AB_WaitRequest, AM_AS_Length)
  <2>1. CASE StartBurst(AM_FIFO_UsedWords)
    <3>1. /\ iRegStateSM = "WAITDATA"
          /\ iRegStateSM' = "BEGINTRANSFER"
      BY <2>1 DEF StartBurst
    <3>2. ~ReadCheck(AM_AB_WaitRequest)
      BY <3>1 DEF ReadCheck, WriteAccess
    <3> QED
      BY <1>5, <1>6, <3>1, <3>2
  <2>2. CASE FirstWord(AM_AB_WaitRequest)
    <3>1. /\ iRegStateSM = "BEGINTRANSFER"
          /\ iRegStateSM' = "BURST"
          /\ iRegBurstCount' = iRegBurstCount + 1
          /\ ReadCheck(AM_AB_WaitRequest)
      BY <2>2 DEF FirstWord, ReadCheck, WriteAccess
    <3> QED
      BY <1>1, <1>3, <1>5, <1>6, <3>1
  <2>3. CASE NextWord(AM_AB_WaitRequest)
    <3>1. /\ iRegStateSM = "BURST"
          /\ iRegStateSM' = "BURST"
          /\ iRegBurstCount' = iRegBurstCount + 1
          /\ ReadCheck(AM_AB_WaitRequest)
      BY <2>3 DEF NextWord, ReadCheck, WriteAccess
    <3> QED
      BY <1>1, <1>2, <1>5, <1>6, <3>1
  <2>4. CASE LastWord(AM_AB_WaitRequest, AM_AS_Length)
    <3>1. /\ iRegStateSM = "BURST"
          /\ iRegStateSM' = "WAITDATA"
          /\ iRegBurstCount = BURSTCOUNT_LENGTH - 1
          /\ ReadCheck(AM_AB_WaitRequest)
      BY <2>4 DEF LastWord, BurstEnd, ReadCheck, WriteAccess
    <3> QED
      BY <1>1, <1>5, <1>6, <3>1
  <2>5. CASE Stay(AM_FIFO_UsedWords, AM_AB_WaitRequest)
    <3>1. /\ iRegStateSM' = iRegStateSM
          /\ iRegBurstCount' = iRegBurstCount
          /\ ~ReadCheck(AM_AB_WaitRequest)
      BY <2>5 DEF Stay, masterVars, ReadCheck, WriteAccess
    <3> QED
      BY <1>5, <1>6, <3>1
  <2> QED
    BY <1>8, <2>1, <2>2, <2>3, <2>4, <2>5 DEF ClockEdge
<1> QED
  BY <1>7, <1>8, EdgeCases

(* The invariant holds initially.                                           *)
LEMMA BusInitInv == BusInit => BusInv
<1> SUFFICES ASSUME BusInit PROVE BusInv
  OBVIOUS
<1>1. /\ BURSTCOUNT_LENGTH \in Nat /\ BURSTCOUNT_LENGTH >= 2
      /\ AddressSpace \in Nat /\ AddressSpace >= 1
  BY MasterAssumption
<1>2. iRegStateSM = "WAITDATA" /\ iRegCounterAddress = 0 /\ iRegBurstCount = 0
  BY DEF BusInit, MasterInit, Cleared
<1>3. owed = 0 /\ bursts = 0 /\ AM_FIFO_UsedWords = 0
  BY DEF BusInit
<1>4. /\ iRegCounterAddress \in Address
      /\ iRegBurstCount \in 0 .. BURSTCOUNT_LENGTH - 1
      /\ owed \in 0 .. BURSTCOUNT_LENGTH - 1
      /\ bursts \in Nat
      /\ AM_FIFO_UsedWords \in Nat
  BY <1>1, <1>2, <1>3 DEF Address
<1>5. /\ iRegStateSM \in State
      /\ AM_AS_Start \in BOOLEAN
      /\ AM_AS_Length \in Lengths
      /\ AM_AB_WaitRequest \in BOOLEAN
      /\ cut \in BOOLEAN
      /\ frameDone \in BOOLEAN
  BY <1>2 DEF BusInit, State
<1>6. ~WriteAccess
  BY <1>2 DEF WriteAccess
<1>7. NoUnderflow
  BY <1>3, <1>6 DEF NoUnderflow, Remaining
<1> QED
  BY <1>2, <1>3, <1>4, <1>5, <1>7
  DEF BusInv, BusTypeOK, CountMatchesState, BusInStep

(* Every step keeps the invariant.                                          *)
LEMMA BusStepInv == BusInv /\ [BusNext]_vars => BusInv'
<1> SUFFICES ASSUME BusInv, [BusNext]_vars PROVE BusInv'
  OBVIOUS
<1>1. ASSUME NEW start \in BOOLEAN, NEW arrival \in {0, 1}, NEW wait \in BOOLEAN,
             Edge(start, arrival, wait)
      PROVE  BusInv'
  <2>1. BusTypeOK
    BY DEF BusInv
  <2>2. BusTypeOK'
    BY <1>1, <2>1, InputTypes, MachineStep DEF BusTypeOK
  <2> QED
    BY <1>1, <2>2, MachineStep, BusStep DEF BusInv
<1>2. CASE UNCHANGED vars
  BY <1>2 DEF vars, masterVars, inputs, history, BusInv, BusTypeOK, CountMatchesState,
              NoUnderflow, BusInStep, Remaining, WriteAccess
<1> QED
  BY <1>1, <1>2 DEF BusNext

LEMMA BusInvariant == BusSpec => []BusInv
  BY BusInitInv, BusStepInv, PTL DEF BusSpec

(* The registers of the master and of the bus keep their types.             *)
THEOREM BusTypeCorrect == BusSpec => []BusTypeOK
<1>1. BusInv => BusTypeOK
  BY DEF BusInv
<1> QED
  BY <1>1, BusInvariant, PTL

(* The master never reads an empty FIFO: each word it still has to read of  *)
(* a burst is there, whatever Start, the bus and the camera do.             *)
THEOREM NoUnderflowCorrect == BusSpec => []NoUnderflow
<1>1. BusInv => NoUnderflow
  BY DEF BusInv
<1> QED
  BY <1>1, BusInvariant, PTL

(* Unless Start cuts a burst, the bus and the master agree on the number of *)
(* words left in the burst.                                                 *)
THEOREM BusInStepCorrect == BusSpec => []BusInStep
<1>1. BusInv => BusInStep
  BY DEF BusInv
<1> QED
  BY <1>1, BusInvariant, PTL

(* Multiples of the burst size are ordered like their factors.              *)
LEMMA Multiples ==
  ASSUME NEW c \in Nat, c >= 1, NEW k \in Nat, NEW n \in Nat, k < n
  PROVE  /\ k * c + c <= n * c
         /\ n * c - c \in Nat
         /\ k * c \in Nat
         /\ (k + 1) * c = k * c + c
         /\ k # n - 1 => k * c # n * c - c
<1>1. (k + 1) * c = k * c + c /\ k * c \in Nat /\ n * c \in Nat
  BY SMT
<1>2. PICK d \in Nat : n = k + 1 + d
  <2>1. n - k - 1 \in Nat /\ n = k + 1 + (n - k - 1)
    OBVIOUS
  <2> QED
    BY <2>1
<1>3. n * c = k * c + c + d * c /\ d * c \in Nat
  BY <1>2, SMT
<1>4. k # n - 1 => d >= 1
  BY <1>2
<1>5. d >= 1 => d * c >= 1
  BY SMT
<1> QED
  BY <1>1, <1>3, <1>4, <1>5

(* The last burst of a frame of n bursts is the one after n - 1 bursts, and *)
(* the address of a burst that is not the last is followed by another one   *)
(* inside the frame.                                                        *)
LEMMA LastBurstOfFrame ==
  ASSUME BusInv, CounterInFrame, NEW n \in 1 .. AddressSpace, WholeBursts(n)
  PROVE  /\ LastBurst(AM_AS_Length) => bursts + 1 = n
         /\ ~LastBurst(AM_AS_Length) =>
              /\ bursts + 1 < n
              /\ (iRegCounterAddress + ADDR_INCREMENT) % AddressSpace
                   = (bursts + 1) * ADDR_INCREMENT
<1>1. /\ ADDR_INCREMENT \in Nat /\ ADDR_INCREMENT >= 1
      /\ AddressSpace \in Nat /\ AddressSpace >= ADDR_INCREMENT
  BY MasterAssumption
<1>2. /\ iRegCounterAddress = bursts * ADDR_INCREMENT
      /\ bursts < n
      /\ AM_AS_Length = n * ADDR_INCREMENT
  BY DEF CounterInFrame, WholeBursts
<1>3. n \in Nat /\ bursts \in Nat /\ AM_AS_Length \in Nat /\ AM_AS_Length < AddressSpace
  BY <1>1, BusAssumption DEF BusInv, BusTypeOK, Address
<1>4. /\ bursts * ADDR_INCREMENT + ADDR_INCREMENT <= AM_AS_Length
      /\ AM_AS_Length - ADDR_INCREMENT \in Nat
      /\ bursts * ADDR_INCREMENT \in Nat
      /\ (bursts + 1) * ADDR_INCREMENT = bursts * ADDR_INCREMENT + ADDR_INCREMENT
      /\ bursts # n - 1 => bursts * ADDR_INCREMENT # AM_AS_Length - ADDR_INCREMENT
      /\ bursts = n - 1 => bursts * ADDR_INCREMENT = AM_AS_Length - ADDR_INCREMENT
  BY <1>1, <1>2, <1>3, Multiples
<1>5. \A x \in 0 .. AddressSpace - 1 : x % AddressSpace = x
  BY <1>1
<1>6. (AM_AS_Length - ADDR_INCREMENT) % AddressSpace = AM_AS_Length - ADDR_INCREMENT
  <2>1. AM_AS_Length - ADDR_INCREMENT \in 0 .. AddressSpace - 1
    BY <1>1, <1>3, <1>4
  <2> QED
    BY <1>5, <2>1
<1>7. (iRegCounterAddress + ADDR_INCREMENT) % AddressSpace
        = iRegCounterAddress + ADDR_INCREMENT
  <2>1. iRegCounterAddress + ADDR_INCREMENT \in 0 .. AddressSpace - 1
    BY <1>1, <1>2, <1>3, <1>4
  <2> QED
    BY <1>5, <2>1
<1>8. LastBurst(AM_AS_Length)
        <=> bursts * ADDR_INCREMENT = AM_AS_Length - ADDR_INCREMENT
  BY <1>2, <1>6 DEF LastBurst
<1> QED
  BY <1>2, <1>3, <1>4, <1>7, <1>8

(* One edge moves the counter to the next burst of the frame, or back to    *)
(* the first after the last one.                                            *)
LEMMA CounterStep ==
  ASSUME BusInv, CounterInFrame, [BusNext]_vars
  PROVE  CounterInFrame'
<1>1. /\ ADDR_INCREMENT \in Nat /\ ADDR_INCREMENT >= 1
      /\ AddressSpace \in Nat /\ AddressSpace >= ADDR_INCREMENT
  BY MasterAssumption
<1>2. CASE UNCHANGED vars
  BY <1>2 DEF vars, masterVars, inputs, history, CounterInFrame, WholeBursts
<1>3. ASSUME NEW start \in BOOLEAN, NEW arrival \in {0, 1}, NEW wait \in BOOLEAN,
             Edge(start, arrival, wait),
             NEW n \in 1 .. AddressSpace, WholeBursts(n)'
      PROVE  iRegCounterAddress' = bursts' * ADDR_INCREMENT /\ bursts' < n
  <2>1. CASE bursts' = 0 /\ iRegCounterAddress' = 0
    BY <1>1, <2>1
  <2>2. CASE Running /\ ClockEdge(AM_FIFO_UsedWords, AM_AB_WaitRequest, AM_AS_Length)
    <3>1. WholeBursts(n)
      BY <1>3, <2>2 DEF WholeBursts, Edge, Running
    <3>2. iRegCounterAddress = bursts * ADDR_INCREMENT /\ bursts < n
      BY <3>1 DEF CounterInFrame
    <3>3. bursts \in Nat /\ n \in Nat /\ n <= AddressSpace
      BY <1>1 DEF BusInv, BusTypeOK
    <3>4. CASE LastWord(AM_AB_WaitRequest, AM_AS_Length)
      <4>1. BurstEnd(AM_AB_WaitRequest)
        BY <3>4 DEF LastWord
      <4>2. CASE LastBurst(AM_AS_Length)
        <5>1. iRegCounterAddress' = 0
          BY <3>4, <4>2 DEF LastWord
        <5>2. frameDone'
          BY <1>3, <2>2, <4>1, <4>2 DEF Edge, CountBursts, AM_AS_Status, Running
        <5>3. bursts' = 0
          BY <1>3, <5>2 DEF Edge, CountBursts
        <5> QED
          BY <2>1, <5>1, <5>3
      <4>3. CASE ~LastBurst(AM_AS_Length)
        <5>1. /\ bursts + 1 < n
              /\ (iRegCounterAddress + ADDR_INCREMENT) % AddressSpace
                   = (bursts + 1) * ADDR_INCREMENT
          BY <3>1, <4>3, LastBurstOfFrame
        <5>2. ~frameDone'
          BY <1>3, <4>3 DEF Edge, CountBursts, AM_AS_Status
        <5>3. bursts < AddressSpace
          BY <1>1, <3>2, <3>3
        <5>4. bursts' = bursts + 1
          BY <1>3, <2>2, <4>1, <5>2, <5>3 DEF Edge, CountBursts
        <5>5. iRegCounterAddress'
                = (iRegCounterAddress + ADDR_INCREMENT) % AddressSpace
          BY <3>4, <4>3 DEF LastWord
        <5> QED
          BY <5>1, <5>4, <5>5
      <4> QED
        BY <4>2, <4>3
    <3>5. CASE /\ iRegCounterAddress' = iRegCounterAddress
               /\ ~BurstEnd(AM_AB_WaitRequest)
      <4>1. ~frameDone'
        BY <1>3, <3>5 DEF Edge, CountBursts, AM_AS_Status
      <4>2. bursts' = bursts
        BY <1>3, <2>2, <3>5, <4>1 DEF Edge, CountBursts
      <4> QED
        BY <3>2, <3>5, <4>2
    <3> QED
      BY <2>2, <3>4, <3>5
      DEF ClockEdge, StartBurst, FirstWord, NextWord, Stay, BurstEnd, WriteAccess,
          masterVars
  <2> QED
    BY <1>3, <2>1, <2>2, EdgeCases DEF StoppedEdge
<1> QED
  BY <1>2, <1>3 DEF BusNext, CounterInFrame

(* For a length of n bursts no burst starts beyond the n-th.                *)
THEOREM CounterInFrameCorrect == BusSpec => []CounterInFrame
<1>1. BusInit => CounterInFrame
  <2>1. BusInit => iRegCounterAddress = 0 /\ bursts = 0
    BY DEF BusInit, MasterInit, Cleared
  <2> QED
    BY <2>1, MasterAssumption DEF CounterInFrame
<1>2. BusInv /\ CounterInFrame /\ [BusNext]_vars => CounterInFrame'
  BY CounterStep
<1> QED
  BY <1>1, <1>2, BusInvariant, PTL DEF BusSpec

(* The end of a frame is reported after exactly its n bursts.               *)
THEOREM DoneAfterWholeFrameCorrect == BusSpec => DoneAfterWholeFrame
<1> DEFINE Whole == frameDone' =>
                      \A n \in 1 .. AddressSpace :
                        WholeBursts(n) => bursts + 1 = n /\ iRegCounterAddress' = 0
<1>1. BusInv /\ CounterInFrame /\ [BusNext]_vars => [Whole]_vars
  <2> SUFFICES ASSUME BusInv, CounterInFrame, BusNext, frameDone',
                      NEW n \in 1 .. AddressSpace, WholeBursts(n)
               PROVE  bursts + 1 = n /\ iRegCounterAddress' = 0
    OBVIOUS
  <2>1. PICK start \in BOOLEAN, arrival \in {0, 1}, wait \in BOOLEAN :
          Edge(start, arrival, wait)
    BY DEF BusNext
  <2>2. BurstEnd(AM_AB_WaitRequest) /\ LastBurst(AM_AS_Length)
    BY <2>1 DEF Edge, CountBursts, AM_AS_Status
  <2>3. bursts + 1 = n
    BY <2>2, LastBurstOfFrame
  <2>4. CASE ~Running /\ StoppedEdge
    BY <2>3, <2>4 DEF StoppedEdge
  <2>5. CASE ClockEdge(AM_FIFO_UsedWords, AM_AB_WaitRequest, AM_AS_Length)
    <3>1. LastWord(AM_AB_WaitRequest, AM_AS_Length)
      BY <2>2, <2>5 DEF ClockEdge, StartBurst, FirstWord, NextWord, Stay, BurstEnd,
                        WriteAccess
    <3> QED
      BY <2>2, <2>3, <3>1 DEF LastWord
  <2> QED
    BY <2>1, <2>4, <2>5, EdgeCases
<1> QED
  BY <1>1, BusInvariant, CounterInFrameCorrect, PTL DEF BusSpec, DoneAfterWholeFrame
=============================================================================
