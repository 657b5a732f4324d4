--------------------------- MODULE I2cDriverProofs ---------------------------
(***************************************************************************)
(* The I2C driver and its hardware, for every width of the bytes, every     *)
(* divisor and every device: the device hears the call and nothing else,    *)
(* and the driver returns what has happened.                                *)
(***************************************************************************)
EXTENDS I2cDriver, SequenceTheorems, FiniteSetTheorems, WellFoundedInduction, TLAPS

----------------------------------------------------------------------------
(* The lines.                                                              *)

(* Where SCL is 1, where it is 0, where it rises and falls, and where it    *)
(* stays.  A line is a clock behind its output, the output one behind the    *)
(* state, and a state that follows another one for sclk lasts two clocks.   *)
High == {"Reset", "Start_C", "Stop_C", "Rd_C", "Rd_D", "RdAck_C", "RdAck_D", "Wr_C", "WrAck_C"}
Low == {"Stop_A", "Rd_A", "Rd_F", "RdAck_A", "Wr_A", "Wr_E", "WrAck_A"}
Rising == {"Start_B", "Stop_B", "Rd_B", "RdAck_B", "Wr_B", "WrAck_B"}
Falling == {"Start_D", "Rd_E", "RdAck_E", "Wr_D", "WrAck_D"}
Still == {"Idle", "Done", "DoneAck", "Start_A"}

ClockInv ==
  /\ i_clkdiv_reg \in Nat \ {0} /\ clk_ctr \in Nat /\ sclk \in BOOLEAN
  /\ sclk => clk_ctr = 0

SclInv ==
  /\ p_state \in State
  /\ scl_out \in Bit /\ scl_in \in Bit
  /\ lineScl = scl_in /\ lineSda = sda_in
  /\ p_state \in High => scl_out = 1 /\ scl_in = 1
  /\ p_state \in Low => scl_out = 0 /\ scl_in = 0
  /\ p_state \in Rising => (scl_in = 1 => scl_out = 1) /\ (scl_out = 0 => ~sclk)
  /\ p_state \in Falling => (scl_in = 0 => scl_out = 0) /\ (scl_out = 1 => ~sclk)
  /\ p_state \in Still => scl_out = scl_in

(* While SCL is 1, SDA stays, but for the START and the STOP.               *)
SdaInv ==
  /\ sda_out \in Bit /\ sda_in \in Bit /\ pull \in Bit
  /\ p_state \in {"Wr_B", "Wr_C", "Wr_D", "Wr_E"} => sda_out = i_data_reg[i_ctr + 1]
  /\ p_state \in {"WrAck_B", "WrAck_C", "WrAck_D"} => sda_out = control.ack
  /\ p_state \in {"Reset", "Start_B", "Rd_B", "Rd_C", "Rd_D", "Rd_E", "Rd_F",
                  "RdAck_B", "RdAck_C", "RdAck_D", "RdAck_E"} => sda_out = 1
  /\ p_state \in {"Start_D", "Stop_B"} => sda_out = 0
  /\ p_state \in Still /\ scl_out = 1 => sda_out = 1
  /\ p_state = "Start_C" /\ sda_out = 1 => sda_in = 1 /\ ~sclk
  /\ p_state = "Stop_C" /\ sda_out = 0 => sda_in = 0 /\ ~sclk
  /\ scl_out = 1 /\ scl_in = 1 /\ p_state \notin {"Start_C", "Stop_C"} => sda_in = sda(pull)

----------------------------------------------------------------------------
(* The handshake of a command.                                             *)

Busy == p_state \notin {"Reset", "Idle", "DoneAck"}

HandshakeInv ==
  /\ i_tip_reg => /\ pc = "wait_after" /\ control = Current.control
                  /\ Current.data # <<>> => i_data_reg = Current.data[1]
  /\ Busy => i_tip_reg
  /\ cmd_done => p_state \in {"DoneAck", "Idle"} /\ pc \in {"wait_after", "status", "value"}
  /\ p_state = "DoneAck" => cmd_done /\ pc = "wait_after" /\ (i_cmd_done_ack <=> ~i_tip_reg)
  /\ i_cmd_done_ack => p_state = "DoneAck"
  /\ p_state = "Idle" /\ i_tip_reg => ~cmd_done
  /\ p_state = "Reset" => pc \in {"returned", "wait_before"}
  /\ pc = "control" /\ Current.data # <<>> => i_data_reg = Current.data[1]

----------------------------------------------------------------------------
(* The calls.                                                              *)

Writes(k, command) == \E byte \in Byte : call[k] = Set(byte, command)

WriteShape ==
  \A k \in 3 .. Len(call) : Writes(k, IF k < Len(call) THEN WRITE ELSE WRITE_STOP)

ReadShape ==
  /\ Len(call) > 3
  /\ Writes(3, START) /\ call[3].data[1][Bits] = 1
  /\ \A k \in 4 .. Len(call) : call[k] = Get(IF k < Len(call) THEN READ ELSE READ_STOP)

CallShape ==
  /\ call \in Seq(Range(call)) /\ Len(call) >= 3
  /\ Writes(1, START) /\ call[1].data[1][Bits] = 0
  /\ Writes(2, WRITE)
  /\ WriteShape \/ ReadShape

(* Events of the script before transfer k. *)
Before(k) ==
  (k - 1) + (IF k > 1 THEN 1 ELSE 0) + (IF k > 3 /\ call[3].control.start THEN 1 ELSE 0)

Idling == pc \in {"returned", "configure_irq", "configure_no_irq"}

DriverInv ==
  /\ pc \in {"returned", "configure_irq", "configure_no_irq", "wait_before", "data", "control",
             "wait_after", "status", "value", "abort"}
  /\ call = <<>> => Idling /\ step = 1
  /\ call # <<>> => CallShape /\ step \in DOMAIN call
  /\ pc \in {"data", "status", "abort"} => Current.data # <<>>
  /\ pc = "value" => Current.data = <<>>
  /\ pc = "abort" => i_ack_out = 1

----------------------------------------------------------------------------
(* The device.                                                             *)

Asleep == mode = "asleep" /\ pull = 1
Waiting == mode = "receive" /\ count = 0 /\ pull = 1
Receiving(c) ==
  mode = "receive" /\ count = c /\ pull = 1 /\ \A k \in 1 .. c : shift[k] = i_data_reg[k]
Answering == mode = "answer" /\ shift = i_data_reg
Sending(c) == mode = "send" /\ count = c /\ c < Bits /\ pull = shift[c + 1]
SentBit(c) == mode = "send" /\ count = c /\ pull = shift[c]
Listening == mode = "listen" /\ pull = 1 /\ i_dout = shift
Called == mode \in {"asleep", "receive"} /\ pull = 1

Held == scl_out = 0 /\ scl_in = 0

(* The next transfer of the call is a read. *)
Continues ==
  \/ Current.data = <<>>
  \/ Current.control.start /\ Current.data[1][Bits] = 1

(* How the device is left by a byte. *)
Left ==
  IF IF Current.data # <<>> THEN i_ack_out = 1 ELSE Current.control.ack = 1 THEN Asleep
  ELSE IF Continues THEN Sending(0) ELSE Waiting

(* How a transfer finds the device. *)
Ready ==
  IF step = 1 THEN Asleep
  ELSE Held /\ IF Current.data = <<>> THEN Sending(0) ELSE Waiting

DoneInv == IF Current.control.stop THEN Asleep /\ scl_out = 1 ELSE Held /\ Left

(* The bits that have gone over the wires. *)
Arrived(c) == \A k \in 1 .. c : i_dout[k] = shift[k]

DeviceInv ==
  /\ mode \in D!Mode /\ shift \in Byte /\ count \in Nat
  /\ i_ctr \in 0 .. Bits - 1
  /\ p_state \in Still /\ scl_out = 1 => Asleep
  /\ p_state \in {"Reset", "Idle"} /\ Idling => Asleep
  /\ pc = "abort" => Asleep
  /\ pc \in {"wait_before", "data", "control"} \/ (p_state = "Idle" /\ i_tip_reg) => Ready
  /\ \/ p_state \in {"Done", "DoneAck"} \/ pc \in {"status", "value"}
     \/ pc = "wait_after" /\ ~i_tip_reg
     => DoneInv
  /\ p_state \in {"Start_A", "Start_B", "Stop_B"} => Called
  /\ p_state \in {"Start_A", "Start_B", "Start_C", "Start_D"} => i_ctr = 0
  /\ p_state = "Start_C" => IF sda_in = 1 THEN Called ELSE Waiting
  /\ p_state = "Start_D" => Waiting
  /\ p_state = "Stop_A" => Called
  /\ p_state = "Stop_C" => IF sda_in = 0 THEN Called ELSE Asleep

WriteInv ==
  /\ p_state = "Wr_A" => Receiving(i_ctr)
  /\ p_state = "Wr_B" => Receiving(i_ctr + scl_in)
  /\ p_state = "Wr_C" => Receiving(i_ctr + 1)
  /\ p_state = "Wr_D" => IF scl_in = 0 /\ LastBit THEN Answering ELSE Receiving(i_ctr + 1)
  /\ p_state = "Wr_E" => Receiving(i_ctr + 1) /\ ~LastBit
  /\ p_state \in {"RdAck_A", "RdAck_B", "RdAck_C", "RdAck_D"} => Answering
  /\ p_state = "RdAck_D" => i_ack_out = pull
  /\ p_state = "RdAck_E" => IF scl_in = 1 THEN Answering /\ i_ack_out = pull ELSE Left
  /\ p_state \in {"Wr_A", "Wr_B", "Wr_C", "Wr_D", "Wr_E",
                  "RdAck_A", "RdAck_B", "RdAck_C", "RdAck_D", "RdAck_E"}
     => Current.data # <<>>

ReadInv ==
  /\ p_state = "Rd_A" => Sending(i_ctr) /\ Arrived(i_ctr)
  /\ p_state = "Rd_B" => /\ IF scl_in = 0 THEN Sending(i_ctr) ELSE SentBit(i_ctr + 1)
                         /\ Arrived(i_ctr)
  /\ p_state = "Rd_C" => SentBit(i_ctr + 1) /\ Arrived(i_ctr)
  /\ p_state = "Rd_D" => SentBit(i_ctr + 1) /\ Arrived(i_ctr + 1)
  /\ p_state = "Rd_E" => /\ IF scl_in = 1 THEN SentBit(i_ctr + 1)
                            ELSE IF LastBit THEN Listening ELSE Sending(i_ctr + 1)
                         /\ Arrived(i_ctr + 1)
  /\ p_state = "Rd_F" => Sending(i_ctr + 1) /\ Arrived(i_ctr + 1) /\ ~LastBit
  /\ p_state \in {"WrAck_A", "WrAck_B", "WrAck_C"} => Listening
  /\ p_state = "WrAck_D" => IF scl_in = 1 THEN Listening ELSE Left
  /\ p_state \in {"Rd_A", "Rd_B", "Rd_C", "Rd_D", "Rd_E", "Rd_F",
                  "WrAck_A", "WrAck_B", "WrAck_C", "WrAck_D"} => Current.data = <<>>

CommandInv ==
  /\ p_state \in {"Start_A", "Start_B", "Start_C", "Start_D"} =>
       Current.control.start /\ Current.data # <<>>
  /\ p_state \in {"Stop_A", "Stop_B", "Stop_C"} => Current.control.stop
  /\ p_state # "Rd_D" => data_out = i_dout
  /\ p_state # "RdAck_D" => ack_out = i_ack_out

----------------------------------------------------------------------------
(* What the device has heard.                                              *)

Started == IF Current.control.start THEN 1 ELSE 0

(* Events of the transfer that the device has heard. *)
Progress ==
  IF pc \in {"wait_before", "data", "control"} \/ (p_state = "Idle" /\ i_tip_reg) THEN 0
  ELSE IF p_state \in {"Start_A", "Start_B"} \/ (p_state = "Start_C" /\ sda_in = 1) THEN 0
  ELSE IF \/ p_state \in {"Start_C", "Start_D", "Wr_A", "Wr_B", "Wr_C", "Wr_E",
                          "Rd_A", "Rd_B", "Rd_C", "Rd_D", "Rd_E", "Rd_F", "WrAck_A"}
          \/ p_state = "Wr_D" /\ ~(scl_in = 0 /\ LastBit)
          \/ p_state = "WrAck_B" /\ scl_in = 0
       THEN Started
  ELSE IF \/ p_state \in {"RdAck_A", "RdAck_B", "RdAck_C", "RdAck_D", "RdAck_E", "Wr_D",
                          "WrAck_B", "WrAck_C", "WrAck_D", "Stop_A", "Stop_B"}
          \/ p_state = "Stop_C" /\ sda_in = 0
       THEN Started + 1
  ELSE Started + (IF Current.control.stop THEN 2 ELSE 1)

(* The place of the byte of the transfer among the events. *)
ByteAt == Before(step) + Started + 1

(* The answer of the device to a byte written. *)
AnswerBit == IF Answering THEN pull ELSE i_ack_out

Events == [what : {"START", "STOP", "WRITE", "READ"}, byte : Byte, ack : Bit]

HeardInv ==
  /\ heard \in Seq(Events)
  /\ call = <<>> => heard = <<>>
  /\ call # <<>> =>
       /\ pc # "returned" /\ ~Idling => Len(heard) = Before(step) + Progress
       /\ \A k \in DOMAIN heard : Matches(heard[k], Script[k])
       /\ \A k \in 1 .. Before(step) : ~Refused(k)
       /\ Len(heard) >= ByteAt /\ Current.data # <<>> =>
            heard[ByteAt].ack = AnswerBit
       /\ Len(heard) >= ByteAt /\ Current.data = <<>> => heard[ByteAt].byte = i_dout

(* What a call has read, and its end. *)
ValueInv ==
  /\ ~ReadShape => value = <<>>
  /\ ReadShape =>
       value = [j \in 1 .. (IF step <= 3 THEN 0
                            ELSE IF Idling THEN step - 3 ELSE step - 4)
                |-> heard[j + 5].byte]

ReturnInv ==
  Idling /\ call # <<>> =>
    \/ /\ result = "I2C_SUCCESS" /\ step = Len(call)
       /\ Len(heard) = ByteAt + 1
       /\ Current.data # <<>> => i_ack_out = 0
    \/ /\ result = IF Current.control.start THEN "I2C_ENODEV" ELSE "I2C_EBADACK"
       /\ Len(heard) = ByteAt + (IF Current.control.stop THEN 1 ELSE 0)
       /\ Current.data # <<>> /\ i_ack_out = 1

----------------------------------------------------------------------------
(* One clock of the hardware.                                              *)

(* All of it but the registers that the bus writes. *)
Wires ==
  /\ CoreEdge(sclk, control, i_cmd_done_ack, i_data_reg, scl_in, sda_in)
  /\ ClockGenerator
  /\ scl_in' = scl
  /\ sda_in' = sda(pull)
  /\ D!DeviceEdge(scl, sda(pull))

(* A step is a clock, in which a transfer in progress ignores the bus, or it *)
(* begins a call.                                                          *)
LEMMA AccessIsClock ==
  ASSUME NEW access, Access(access)
  PROVE  /\ Wires
         /\ i_tip_reg => Transfer
         /\ ~i_tip_reg => BusWrite(access)
  BY DEF Access, InterfaceEdge, Wires

LEMMA StepIsClock ==
  ASSUME [Next]_vars
  PROVE  \/ UNCHANGED vars
         \/ Call
         \/ Wires /\ (i_tip_reg => Transfer)
<1>1. CASE UNCHANGED vars
  BY <1>1
<1>2. CASE Next
  BY <1>2, AccessIsClock
     DEF Next, Program, Compute, i2c_init, i2c_configure, ConfigureInterrupt, WaitBefore,
         wait_end_of_transfer, WriteData, WriteControl, WaitAfter, CheckAcknowledge,
         ReadValue, Abort
<1> QED
  BY <1>1, <1>2

(* How a state is left; a state of a quarter period waits for sclk. *)
LEMMA Moves ==
  ASSUME Wires, p_state \in State
  PROVE  /\ p_state \in Quarter /\ ~sclk => p_state' = p_state
         /\ p_state \in Quarter /\ sclk => p_state' = n_state(control, i_cmd_done_ack)
         /\ p_state \notin Quarter => p_state' = n_state(control, i_cmd_done_ack)
         /\ p_state' \in State
<1>1. n_state(control, i_cmd_done_ack) \in State
  BY DEF n_state, Successor, State, Quarter, FirstState, AfterStart, AfterAck
<1> QED
  BY <1>1 DEF Wires, CoreEdge, Advance

LEMMA ClockStep ==
  ASSUME ClockInv, Wires, i_clkdiv_reg' \in Nat \ {0}
  PROVE  ClockInv' /\ ~(sclk /\ sclk')
<1> DEFINE over == clk_ctr >= i_clkdiv_reg
<1>1. /\ sclk' = over
      /\ clk_ctr' = IF over THEN 0 ELSE clk_ctr + 1
  BY DEF Wires, ClockGenerator
<1>2. over \in BOOLEAN
  BY DEF ClockInv
<1>3. over => clk_ctr' = 0
  BY <1>1
<1>4. clk_ctr' \in Nat
  BY <1>1 DEF ClockInv
<1>5. sclk => ~over
  BY DEF ClockInv
<1> HIDE DEF over
<1>6. sclk' \in BOOLEAN /\ (sclk' <=> over)
  BY <1>1, <1>2, Zenon
<1> QED
  BY <1>3, <1>4, <1>5, <1>6 DEF ClockInv

(* The states from which a state is entered. *)
LEMMA Entries ==
  ASSUME Wires, p_state \in State
  PROVE  LET from(states) == p_state \in states /\ (p_state \in Quarter => sclk) IN
         \/ p_state' = p_state /\ p_state \in Quarter \union {"Idle", "DoneAck"}
         \/ p_state' = "Idle" /\ from({"Reset", "DoneAck"})
         \/ p_state' = "Start_A" /\ from({"Idle"})
         \/ p_state' = "Start_B" /\ from({"Start_A"})
         \/ p_state' = "Start_C" /\ from({"Start_B"})
         \/ p_state' = "Start_D" /\ from({"Start_C"})
         \/ p_state' = "Stop_A" /\ from({"WrAck_D", "RdAck_E"})
         \/ p_state' = "Stop_B" /\ from({"Stop_A"})
         \/ p_state' = "Stop_C" /\ from({"Stop_B"})
         \/ p_state' = "Wr_A" /\ from({"Idle", "Start_D", "Wr_E"})
         \/ p_state' = "Wr_B" /\ from({"Wr_A"})
         \/ p_state' = "Wr_C" /\ from({"Wr_B"})
         \/ p_state' = "Wr_D" /\ from({"Wr_C"})
         \/ p_state' = "Wr_E" /\ from({"Wr_D"})
         \/ p_state' = "RdAck_A" /\ from({"Wr_D"})
         \/ p_state' = "RdAck_B" /\ from({"RdAck_A"})
         \/ p_state' = "RdAck_C" /\ from({"RdAck_B"})
         \/ p_state' = "RdAck_D" /\ from({"RdAck_C"})
         \/ p_state' = "RdAck_E" /\ from({"RdAck_D"})
         \/ p_state' = "Rd_A" /\ from({"Idle", "Start_D", "Rd_F"})
         \/ p_state' = "Rd_B" /\ from({"Rd_A"})
         \/ p_state' = "Rd_C" /\ from({"Rd_B"})
         \/ p_state' = "Rd_D" /\ from({"Rd_C"})
         \/ p_state' = "Rd_E" /\ from({"Rd_D"})
         \/ p_state' = "Rd_F" /\ from({"Rd_E"})
         \/ p_state' = "WrAck_A" /\ from({"Rd_E"})
         \/ p_state' = "WrAck_B" /\ from({"WrAck_A"})
         \/ p_state' = "WrAck_C" /\ from({"WrAck_B"})
         \/ p_state' = "WrAck_D" /\ from({"WrAck_C"})
         \/ p_state' = "Done" /\ from({"Stop_C", "WrAck_D", "RdAck_E"})
         \/ p_state' = "DoneAck" /\ from({"Done"})
  BY DEF Wires, CoreEdge, Advance, n_state, Successor, State, Quarter, FirstState, AfterStart, AfterAck

LEMMA SclStep ==
  ASSUME SclInv, Wires, sclk \in BOOLEAN, ~(sclk /\ sclk'),
         p_state = "Idle" /\ p_state' \in {"Wr_A", "Rd_A"} => scl_out = 0
  PROVE  SclInv'
<1>1. /\ scl_out' = i_scl_out(scl_in) /\ scl_in' = scl_out
      /\ lineScl' = scl_out /\ lineSda' = sda_in'
  BY DEF Wires, CoreEdge, Outputs, scl, D!DeviceEdge
<1>2. /\ scl_out' \in Bit /\ scl_in' \in Bit
      /\ lineScl' = scl_in' /\ lineSda' = sda_in'
  BY <1>1 DEF SclInv, i_scl_out, Bit
<1>3. p_state \in State /\ p_state' \in State
  BY Moves DEF SclInv
<1>4. p_state' \in High => scl_out' = 1 /\ scl_in' = 1
  BY <1>1, <1>3, Entries DEF SclInv, i_scl_out, Holding, High, Low, Rising, Falling, Still, Bit, Quarter
<1>5. p_state' \in Low => scl_out' = 0 /\ scl_in' = 0
  BY <1>1, <1>3, Entries DEF SclInv, i_scl_out, Holding, High, Low, Rising, Falling, Still, Bit, Quarter
<1>6. p_state' \in Rising => (scl_in' = 1 => scl_out' = 1) /\ (scl_out' = 0 => ~sclk')
  BY <1>1, <1>3, Entries DEF SclInv, i_scl_out, Holding, High, Low, Rising, Falling, Still, Bit, Quarter
<1>7. p_state' \in Falling => (scl_in' = 0 => scl_out' = 0) /\ (scl_out' = 1 => ~sclk')
  BY <1>1, <1>3, Entries DEF SclInv, i_scl_out, Holding, High, Low, Rising, Falling, Still, Bit, Quarter
<1>8. p_state' \in Still => scl_out' = scl_in'
  BY <1>1, <1>3, Entries DEF SclInv, i_scl_out, Holding, High, Low, Rising, Falling, Still, Bit, Quarter
<1> QED
  BY <1>2, <1>3, <1>4, <1>5, <1>6, <1>7, <1>8 DEF SclInv

(* What the device makes of a clock. *)
LEMMA DeviceStep ==
  ASSUME SclInv, Wires
  PROVE  \/ scl_in = 1 /\ scl_out = 1 /\ sda(pull) # sda_in /\ D!Condition(sda(pull))
         \/ scl_in = 0 /\ scl_out = 1 /\ D!Rise(sda(pull))
         \/ scl_in = 1 /\ scl_out = 0 /\ D!Fall
         \/ /\ scl_in = scl_out /\ (scl_in = 1 => sda(pull) = sda_in)
            /\ UNCHANGED <<mode, count, pull, shift, heard>>
  BY DEF SclInv, Wires, D!DeviceEdge, scl, Bit

(* SDA is let go by the device when the master makes a START or a STOP. *)
LetGo ==
  (p_state \in Still /\ scl_out = 1) \/ p_state \in {"Start_A", "Start_B", "Start_C", "Stop_C"}
  => pull = 1

LEMMA SdaStep ==
  ASSUME SclInv, SclInv', SdaInv, LetGo, Wires, sclk \in BOOLEAN, ~(sclk /\ sclk'),
         i_data_reg \in Byte, control.ack \in Bit, i_ctr \in 0 .. Bits - 1, pull' \in Bit,
         Busy => i_data_reg' = i_data_reg /\ control'.ack = control.ack
  PROVE  SdaInv'
<1>1. /\ sda_out' = i_sda_out(sda_in, control.ack, i_data_reg) /\ sda_in' = sda(pull)
      /\ scl_out' = i_scl_out(scl_in) /\ scl_in' = scl_out
      /\ p_state \notin {"Idle", "Rd_F", "Wr_E"} => i_ctr' = i_ctr
  BY DEF Wires, CoreEdge, Outputs, scl, Count
<1>2. i_data_reg[i_ctr + 1] \in Bit
  BY BitsAssumption DEF Byte
<1>3. /\ sda_out' \in Bit /\ sda_in' \in Bit
  BY <1>1, <1>2 DEF SdaInv, i_sda_out, i_data_in, Bit, sda
<1>4. p_state \in State /\ p_state' \in State
  BY Moves DEF SclInv
<1>5. scl_out = 1 => pull' = pull
  <2>1. CASE scl_in = 1 /\ scl_out = 1 /\ sda(pull) # sda_in /\ D!Condition(sda(pull))
    <3>1. p_state \in {"Start_C", "Stop_C"}
      BY <2>1 DEF SdaInv
    <3> QED
      BY <2>1, <3>1 DEF LetGo, D!Condition, D!Become
  <2>2. CASE scl_in = 0 /\ scl_out = 1 /\ D!Rise(sda(pull))
    BY <2>2 DEF D!Rise, D!Become
  <2>3. CASE scl_in = 1 /\ scl_out = 0 /\ D!Fall
    BY <2>3
  <2>4. CASE scl_in = scl_out /\ UNCHANGED <<mode, count, pull, shift, heard>>
    BY <2>4
  <2> QED
    BY <2>1, <2>2, <2>3, <2>4, DeviceStep
<1>6. p_state' \in {"Wr_B", "Wr_C", "Wr_D", "Wr_E"} => sda_out' = i_data_reg'[i_ctr' + 1]
  BY <1>1, <1>4, Entries DEF i_sda_out, i_data_in, Holding, Busy, Quarter
<1>7. p_state' \in {"WrAck_B", "WrAck_C", "WrAck_D"} => sda_out' = control'.ack
  BY <1>1, <1>4, Entries DEF i_sda_out, Holding, Busy
<1>8. /\ p_state' \in {"Reset", "Start_B", "Rd_B", "Rd_C", "Rd_D", "Rd_E", "Rd_F",
                       "RdAck_B", "RdAck_C", "RdAck_D", "RdAck_E"} => sda_out' = 1
      /\ p_state' \in {"Start_D", "Stop_B"} => sda_out' = 0
  BY <1>1, <1>4, Entries DEF i_sda_out, Holding
<1>9. scl_out = 1 /\ scl_out' = 1 =>
        \/ sda_out' = sda_out
        \/ p_state' \in {"Start_C", "Stop_C"}
  <2> SUFFICES ASSUME scl_out = 1, scl_out' = 1, p_state' \notin {"Start_C", "Stop_C"}
               PROVE  sda_out' = sda_out
    OBVIOUS
  <2>1. CASE Holding
    <3>1. scl_in = 1 /\ sda_out = 1 /\ pull = 1
      BY <2>1 DEF Holding, Still, SclInv, SdaInv, LetGo
    <3>2. sda_in = 1
      BY <2>1, <3>1 DEF Holding, SdaInv, sda
    <3> QED
      BY <1>1, <2>1, <3>1, <3>2 DEF i_sda_out
  <2>2. CASE p_state \in {"Wr_A", "Wr_B", "Wr_C", "Wr_D", "Wr_E"}
    BY <1>1, <2>2 DEF i_sda_out, i_data_in, SdaInv, SclInv, Holding, Low, i_scl_out
  <2>3. CASE p_state \in {"Start_C", "Stop_C"}
    BY <1>1, <1>4, <2>3, Entries DEF i_sda_out, SdaInv, SclInv, Holding, Quarter, Bit
  <2>4. CASE p_state \in State \ ({"Idle", "Done", "DoneAck", "Wr_A", "Wr_B", "Wr_C", "Wr_D",
                                   "Wr_E", "Start_C", "Stop_C"})
    BY <1>1, <2>4 DEF i_sda_out, SdaInv, SclInv, Holding, Low, Still, i_scl_out, State, Quarter
  <2> QED
    BY <1>4, <2>1, <2>2, <2>3, <2>4 DEF Holding
<1>10. p_state' \in Still /\ scl_out' = 1 => sda_out' = 1
  <2>1. CASE Holding
    <3>1. scl_out' = 1 => scl_in = 1 /\ scl_out = 1 /\ sda_out = 1 /\ pull = 1
      BY <1>1, <2>1 DEF Holding, Still, SclInv, SdaInv, LetGo, i_scl_out
    <3>2. scl_out' = 1 => sda_in = 1
      BY <2>1, <3>1 DEF Holding, SdaInv, sda
    <3> QED
      BY <1>1, <2>1, <3>1, <3>2 DEF i_sda_out
  <2>2. CASE ~Holding
    BY <1>1, <1>4, <2>2, Entries DEF i_sda_out, i_scl_out, Holding, Still, Falling, SclInv, Quarter, Bit
  <2> QED
    BY <2>1, <2>2
<1>11. /\ p_state' = "Start_C" /\ sda_out' = 1 => sda_in' = 1 /\ ~sclk'
       /\ p_state' = "Stop_C" /\ sda_out' = 0 => sda_in' = 0 /\ ~sclk'
  BY <1>1, <1>4, Entries DEF i_sda_out, Holding, SdaInv, LetGo, sda, Bit, Quarter
<1>12. scl_out' = 1 /\ scl_in' = 1 /\ p_state' \notin {"Start_C", "Stop_C"} => sda_in' = sda(pull)'
  BY <1>1, <1>5, <1>9 DEF sda
<1> QED
  BY <1>3, <1>6, <1>7, <1>8, <1>10, <1>11, <1>12 DEF SdaInv

----------------------------------------------------------------------------
(* The transfers of a call.                                                *)

(* What a transfer is, and how it is followed. *)
Kind(k) ==
  /\ call[k].control \in Control
  /\ call[k].data # <<>> =>
       /\ \E byte \in Byte : call[k].data = <<byte>>
       /\ call[k].control.write /\ ~call[k].control.read /\ call[k].control.ack = 0
  /\ call[k].data = <<>> =>
       /\ call[k].control.read /\ ~call[k].control.write /\ ~call[k].control.start
       /\ call[k].control.ack = 1 <=> call[k].control.stop
       /\ k > 3 /\ call[3].control.start
  /\ k = 1 => call[k].control.start
  /\ call[k].control.start => call[k].data # <<>> /\ k \in {1, 3} /\ ~call[k].control.stop
  /\ call[k].control.stop <=> k = Len(call)
  /\ k < Len(call) =>
       (call[k + 1].data = <<>>
          <=> call[k].data = <<>> \/ (call[k].control.start /\ call[k].data[1][Bits] = 1))

LEMMA Commands ==
  /\ /\ START \in Control /\ START.ack = 0
     /\ START.write /\ ~START.read /\ START.start /\ ~START.stop
  /\ /\ WRITE \in Control /\ WRITE.ack = 0
     /\ WRITE.write /\ ~WRITE.read /\ ~WRITE.start /\ ~WRITE.stop
  /\ /\ WRITE_STOP \in Control /\ WRITE_STOP.ack = 0
     /\ WRITE_STOP.write /\ ~WRITE_STOP.read /\ ~WRITE_STOP.start /\ WRITE_STOP.stop
  /\ /\ READ \in Control /\ READ.ack = 0
     /\ ~READ.write /\ READ.read /\ ~READ.start /\ ~READ.stop
  /\ /\ READ_STOP \in Control /\ READ_STOP.ack = 1
     /\ ~READ_STOP.write /\ READ_STOP.read /\ ~READ_STOP.start /\ READ_STOP.stop
  /\ /\ STOP \in Control
     /\ ~STOP.write /\ ~STOP.read
<1>1. NoCommand \in Control /\ ~NoCommand.write /\ ~NoCommand.read
  BY DEF NoCommand, Control, Bit
<1>2. /\ START \in Control /\ START.ack = 0
      /\ START.write /\ ~START.read /\ START.start /\ ~START.stop
  BY DEF START, NoCommand, Control, Bit
<1>3. /\ WRITE \in Control /\ WRITE.ack = 0
      /\ WRITE.write /\ ~WRITE.read /\ ~WRITE.start /\ ~WRITE.stop
  BY DEF WRITE, NoCommand, Control, Bit
<1>4. /\ WRITE_STOP \in Control /\ WRITE_STOP.ack = 0
      /\ WRITE_STOP.write /\ ~WRITE_STOP.read /\ ~WRITE_STOP.start /\ WRITE_STOP.stop
  BY DEF WRITE_STOP, NoCommand, Control, Bit
<1>5. /\ READ \in Control /\ READ.ack = 0
      /\ ~READ.write /\ READ.read /\ ~READ.start /\ ~READ.stop
  BY DEF READ, NoCommand, Control, Bit
<1>6. /\ READ_STOP \in Control /\ READ_STOP.ack = 1
      /\ ~READ_STOP.write /\ READ_STOP.read /\ ~READ_STOP.start /\ READ_STOP.stop
  BY DEF READ_STOP, NoCommand, Control, Bit
<1>7. STOP \in Control /\ ~STOP.write /\ ~STOP.read
  BY DEF STOP, NoCommand, Control, Bit
<1> QED
  BY <1>2, <1>3, <1>4, <1>5, <1>6, <1>7

LEMMA Written ==
  ASSUME NEW k, NEW c, Writes(k, c)
  PROVE  /\ call[k].control = c
         /\ call[k].data # <<>>
         /\ \E byte \in Byte : call[k].data = <<byte>>
  BY DEF Writes, Set

LEMMA Asked ==
  ASSUME NEW k, NEW c, call[k] = Get(c)
  PROVE  call[k].control = c /\ call[k].data = <<>>
  BY DEF Get

LEMMA Kinds ==
  ASSUME CallShape, NEW k \in DOMAIN call
  PROVE  Kind(k)
<1>1. Len(call) \in Nat /\ Len(call) >= 3 /\ DOMAIN call = 1 .. Len(call) /\ k \in Nat
  BY DEF CallShape
<1>2. /\ call[1].control = START /\ call[1].data # <<>> /\ call[1].data[1][Bits] = 0
      /\ call[2].control = WRITE /\ call[2].data # <<>>
      /\ \E byte \in Byte : call[1].data = <<byte>>
      /\ \E byte \in Byte : call[2].data = <<byte>>
  BY Written DEF CallShape
<1>3. CASE WriteShape
  <2>1. \A j \in 3 .. Len(call) :
          /\ call[j].control = IF j < Len(call) THEN WRITE ELSE WRITE_STOP
          /\ call[j].data # <<>> /\ \E byte \in Byte : call[j].data = <<byte>>
    BY <1>3, Written DEF WriteShape
  <2>2. CASE k = 1
    BY <1>1, <1>2, <2>2, Commands DEF Kind
  <2>3. CASE k = 2
    BY <1>1, <1>2, <2>1, <2>3, Commands DEF Kind
  <2>4. CASE k \in 3 .. Len(call)
    <3>1. k < Len(call) => call[k + 1].data # <<>>
      BY <1>1, <2>1, <2>4
    <3> QED
      BY <1>1, <2>1, <2>4, <3>1, Commands DEF Kind
  <2> QED
    BY <1>1, <2>2, <2>3, <2>4
<1>4. CASE ReadShape
  <2>1. /\ call[3].control = START /\ call[3].data # <<>> /\ call[3].data[1][Bits] = 1
        /\ \E byte \in Byte : call[3].data = <<byte>>
        /\ Len(call) > 3
    BY <1>4, Written DEF ReadShape
  <2>2. \A j \in 4 .. Len(call) :
          /\ call[j].control = IF j < Len(call) THEN READ ELSE READ_STOP
          /\ call[j].data = <<>>
    BY <1>4, Asked DEF ReadShape
  <2>3. CASE k = 1
    BY <1>1, <1>2, <2>1, <2>3, Commands DEF Kind
  <2>4. CASE k = 2
    BY <1>1, <1>2, <2>1, <2>4, Commands DEF Kind
  <2>5. CASE k = 3
    <3>1. call[k + 1].data = <<>> /\ k # Len(call)
      BY <1>1, <2>1, <2>2, <2>5
    <3>2. /\ START \in Control /\ START.ack = 0
          /\ START.write /\ ~START.read /\ START.start /\ ~START.stop
      BY Commands
    <3> QED
      BY <2>1, <2>5, <3>1, <3>2 DEF Kind
  <2>6. CASE k \in 4 .. Len(call)
    <3>1. k < Len(call) => call[k + 1].data = <<>>
      BY <1>1, <2>2, <2>6
    <3>2. call[k].data = <<>> /\ call[3].control.start
      BY <2>1, <2>2, <2>6, Commands
    <3>3. CASE k < Len(call)
      <4>1. call[k].control = READ
        BY <1>1, <2>2, <2>6, <3>3
      <4> QED
        BY <1>1, <2>6, <3>1, <3>2, <3>3, <4>1, Commands DEF Kind
    <3>4. CASE k = Len(call)
      <4>1. call[k].control = READ_STOP
        BY <1>1, <2>2, <2>6, <3>4
      <4> QED
        BY <1>1, <2>6, <3>2, <3>4, <4>1, Commands DEF Kind
    <3> QED
      BY <1>1, <2>6, <3>3, <3>4
  <2> QED
    BY <1>1, <2>3, <2>4, <2>5, <2>6
<1> QED
  BY <1>3, <1>4 DEF CallShape

----------------------------------------------------------------------------
(* The invariant.                                                          *)

Registers ==
  /\ i_dout \in Byte /\ data_out \in Byte /\ i_data_reg \in Byte
  /\ i_ack_out \in Bit /\ ack_out \in Bit
  /\ cmd_done \in BOOLEAN /\ i_int_pe_reg \in BOOLEAN
  /\ i_cmd_done_ack \in BOOLEAN /\ irq \in BOOLEAN
  /\ control \in Control
  /\ i_clkdiv_reg \in Divisors \union {ResetDivisor}
  /\ \E divisor \in Divisors \union {ResetDivisor} : clk_ctr \in 0 .. divisor

DevicePart == DeviceInv /\ WriteInv /\ ReadInv /\ CommandInv

Inv ==
  /\ Registers /\ ClockInv /\ SclInv /\ SdaInv
  /\ HandshakeInv /\ DriverInv
  /\ DevicePart
  /\ HeardInv /\ ValueInv /\ ReturnInv

----------------------------------------------------------------------------
(* A clock while a transfer is in progress: the program polls.             *)

Transferring == i_tip_reg /\ Wires /\ Transfer /\ UNCHANGED driverVars

LEMMA TransferFacts ==
  ASSUME Inv, Transferring
  PROVE  /\ pc = "wait_after" /\ pc' = "wait_after"
         /\ call # <<>> /\ call' = call /\ step' = step /\ Kind(step) /\ step \in DOMAIN call
         /\ control = Current.control
         /\ Current.data # <<>> => i_data_reg = Current.data[1]
         /\ i_data_reg' = i_data_reg /\ i_clkdiv_reg' = i_clkdiv_reg
         /\ control'.ack = control.ack
         /\ p_state # "DoneAck" => control' = control /\ i_cmd_done_ack' = FALSE
         /\ p_state # "Reset"
<1>1. pc = "wait_after" /\ control = Current.control
      /\ (Current.data # <<>> => i_data_reg = Current.data[1])
  BY DEF Inv, Transferring, HandshakeInv
<1>2. /\ pc' = pc /\ call' = call /\ step' = step
      /\ i_data_reg' = i_data_reg /\ i_clkdiv_reg' = i_clkdiv_reg
  BY DEF Transferring, driverVars, Transfer
<1>3. p_state # "Reset" /\ (p_state # "DoneAck" => cmd_done = FALSE)
  BY <1>1 DEF Inv, Transferring, HandshakeInv, Registers
<1>4. control'.ack = control.ack
  BY DEF Transferring, Transfer, Inv, Registers, Control
<1>5. p_state # "DoneAck" => control' = control /\ i_cmd_done_ack' = FALSE
  BY <1>3 DEF Transferring, Transfer
<1>6. call # <<>> /\ step \in DOMAIN call /\ CallShape
  BY <1>1 DEF Inv, DriverInv, Idling
<1>7. Kind(step)
  BY <1>6, Kinds
<1> QED
  BY <1>1, <1>2, <1>3, <1>4, <1>5, <1>6, <1>7

(* The registers of the core. *)
LEMMA CoreFacts ==
  ASSUME Wires
  PROVE  /\ scl_in' = scl_out /\ sda_in' = sda(pull)
         /\ i_ctr' = IF p_state = "Idle" THEN 0
                     ELSE IF p_state \in {"Rd_F", "Wr_E"} THEN (i_ctr + 1) % 8 ELSE i_ctr
         /\ i_dout' = IF p_state = "Rd_C" THEN [i_dout EXCEPT ![i_ctr + 1] = sda_in] ELSE i_dout
         /\ i_ack_out' = IF p_state = "RdAck_C" THEN sda_in ELSE i_ack_out
         /\ data_out' = i_dout /\ ack_out' = i_ack_out
  BY DEF Wires, CoreEdge, Count, Sample, Outputs, scl

LEMMA NextBit ==
  ASSUME i_ctr \in 0 .. Bits - 1, ~LastBit
  PROVE  (i_ctr + 1) % 8 = i_ctr + 1 /\ i_ctr + 1 \in 0 .. Bits - 1
  BY BitsAssumption DEF LastBit

LEMMA SameByte ==
  ASSUME NEW a \in Byte, NEW b \in Byte, \A k \in 1 .. Bits : a[k] = b[k]
  PROVE  a = b
<1>1. a = [k \in 1 .. Bits |-> a[k]] /\ b = [k \in 1 .. Bits |-> b[k]]
  BY DEF Byte
<1>2. [k \in 1 .. Bits |-> a[k]] = [k \in 1 .. Bits |-> b[k]]
  OBVIOUS
<1> QED
  BY <1>1, <1>2

(* A bit more of a byte has been taken. *)
LEMMA TakeBit ==
  ASSUME NEW a \in Byte, NEW b \in Byte, NEW c \in 0 .. Bits - 1, NEW bit \in Bit,
         \A k \in 1 .. c : a[k] = b[k], bit = b[c + 1]
  PROVE  /\ [a EXCEPT ![c + 1] = bit] \in Byte
         /\ \A k \in 1 .. c + 1 : [a EXCEPT ![c + 1] = bit][k] = b[k]
<1>1. c + 1 \in 1 .. Bits /\ 1 .. c \subseteq 1 .. Bits
  BY BitsAssumption
<1>2. DOMAIN a = 1 .. Bits
  BY DEF Byte
<1>3. \A k \in 1 .. c + 1 : k \in 1 .. c \/ k = c + 1
  BY BitsAssumption
<1>4. ASSUME NEW k \in 1 .. c PROVE [a EXCEPT ![c + 1] = bit][k] = b[k]
  BY <1>1, <1>2, BitsAssumption
<1>5. [a EXCEPT ![c + 1] = bit][c + 1] = b[c + 1]
  BY <1>1, <1>2
<1> QED
  BY <1>3, <1>4, <1>5 DEF Byte

LEMMA WriteLow ==
  ASSUME Inv, Transferring, p_state \in {"Wr_A", "Wr_E"}
  PROVE  DevicePart'
<1>1. scl_in = 0 /\ scl_out = 0
  BY DEF Inv, SclInv, Low
<1>2. UNCHANGED <<mode, count, pull, shift, heard>>
  BY <1>1, DeviceStep DEF Inv, Transferring
<1>3. /\ p_state = "Wr_A" => p_state' \in {"Wr_A", "Wr_B"} /\ i_ctr' = i_ctr
      /\ p_state = "Wr_E" => p_state' = "Wr_A" /\ i_ctr' = i_ctr + 1
      /\ i_ctr' \in 0 .. Bits - 1
  BY CoreFacts, Entries, NextBit DEF Inv, DevicePart, WriteInv, Transferring, DeviceInv, SclInv, Quarter
<1>4. Receiving(i_ctr)' /\ scl_in' = 0 /\ scl_out' = 0
  BY <1>1, <1>2, <1>3, CoreFacts, TransferFacts
     DEF Inv, DevicePart, WriteInv, Receiving, Transferring, Wires, CoreEdge, Outputs, i_scl_out, Holding
<1>5. Current' = Current /\ Current.data # <<>> /\ pc' = "wait_after" /\ i_tip_reg'
  BY TransferFacts DEF Inv, DevicePart, WriteInv, Current, Transferring, i_tip_reg
<1>6. DeviceInv'
  BY <1>2, <1>3, <1>5 DEF Inv, DevicePart, DeviceInv, Still, Idling
<1>7. WriteInv'
  BY <1>3, <1>4, <1>5 DEF WriteInv
<1>8. ReadInv'
  BY <1>3 DEF ReadInv
<1>9. CommandInv'
  BY <1>3, CoreFacts DEF CommandInv, Transferring
<1> QED
  BY <1>6, <1>7, <1>8, <1>9 DEF DevicePart

(* The device samples a bit while SCL is 1. *)
LEMMA WriteRise ==
  ASSUME Inv, Transferring, p_state \in {"Wr_B", "Wr_C"}
  PROVE  DevicePart'
<1>1. /\ p_state' \in {"Wr_B", "Wr_C", "Wr_D"} /\ i_ctr' = i_ctr
      /\ p_state' = "Wr_C" => scl_out = 1
      /\ p_state' = "Wr_D" => scl_out = 1 /\ scl_in = 1 /\ p_state = "Wr_C"
      /\ p_state = "Wr_C" => scl_out = 1 /\ scl_in = 1
      /\ scl_in' = scl_out
  BY CoreFacts, Entries DEF Inv, SclInv, Transferring, Quarter, Rising, High, Bit
<1>2. /\ i_ctr \in 0 .. Bits - 1 /\ scl_in \in Bit /\ scl_out \in Bit
      /\ i_data_reg \in Byte /\ shift \in Byte /\ pull = 1
      /\ i_data_reg[i_ctr + 1] \in Bit
      /\ IF p_state = "Wr_B" THEN Receiving(i_ctr + scl_in) ELSE Receiving(i_ctr + 1)
  BY BitsAssumption DEF Inv, DevicePart, DeviceInv, SclInv, Registers, WriteInv, Receiving, Byte
<1>3. sda(pull) = i_data_reg[i_ctr + 1]
  BY <1>2 DEF Inv, SdaInv, sda, Bit
<1>4. /\ Current' = Current /\ Current.data # <<>> /\ pc' = "wait_after" /\ i_tip_reg'
      /\ i_data_reg' = i_data_reg
  BY TransferFacts DEF Inv, DevicePart, WriteInv, Current, Transferring, i_tip_reg
<1>5. CASE scl_in = 0 /\ scl_out = 1
  <2>1. D!Rise(sda(pull))
    BY <1>5, DeviceStep DEF Inv, Transferring
  <2>2. Receiving(i_ctr) /\ p_state = "Wr_B"
    BY <1>1, <1>2, <1>5
  <2>3. /\ mode' = "receive" /\ count' = i_ctr + 1 /\ pull' = 1
        /\ shift' = [shift EXCEPT ![i_ctr + 1] = sda(pull)]
    BY <2>1, <2>2 DEF D!Rise, D!Become, Receiving
  <2>4. shift' \in Byte /\ \A k \in 1 .. i_ctr + 1 : shift'[k] = i_data_reg[k]
    <3>1. /\ \A k \in 1 .. i_ctr : shift[k] = i_data_reg[k]
          /\ sda(pull) \in Bit
      BY <1>2, <1>3, <2>2 DEF Receiving
    <3>2. /\ [shift EXCEPT ![i_ctr + 1] = sda(pull)] \in Byte
          /\ \A k \in 1 .. i_ctr + 1 :
               [shift EXCEPT ![i_ctr + 1] = sda(pull)][k] = i_data_reg[k]
      BY <1>2, <1>3, <3>1, TakeBit
    <3> QED
      BY <2>3, <3>2
  <2>6. Receiving(i_ctr + 1)'
    BY <1>1, <1>4, <2>3, <2>4 DEF Receiving
  <2>7. /\ p_state' \in {"Wr_B", "Wr_C"} /\ scl_in' = 1
    BY <1>1, <1>5
  <2>8. DeviceInv'
    BY <1>1, <1>2, <1>4, <2>3, <2>4, <2>7 DEF DeviceInv, Still, Idling, D!Mode
  <2>9. WriteInv'
    BY <1>1, <1>4, <2>6, <2>7 DEF WriteInv
  <2>10. ReadInv'
    BY <2>7 DEF ReadInv
  <2>11. CommandInv'
    BY <2>7, CoreFacts, <1>1 DEF CommandInv, Transferring
  <2> QED
    BY <2>8, <2>9, <2>10, <2>11 DEF DevicePart
<1>6. CASE ~(scl_in = 0 /\ scl_out = 1)
  <2>1. scl_in = scl_out
    BY <1>2, <1>6 DEF Inv, SclInv, Rising, High, Bit
  <2>2. UNCHANGED <<mode, count, pull, shift, heard>>
    BY <2>1, DeviceStep DEF Inv, Transferring, SdaInv, Bit
  <2>3. IF p_state' = "Wr_B" THEN Receiving(i_ctr + scl_in)' ELSE Receiving(i_ctr + 1)'
    BY <1>1, <1>2, <1>4, <2>1, <2>2 DEF Receiving
  <2>4. p_state' = "Wr_D" => scl_in' = 1
    BY <1>1
  <2>5. DeviceInv'
    BY <1>1, <1>2, <1>4, <2>2 DEF Inv, DevicePart, DeviceInv, Still, Idling
  <2>6. WriteInv'
    BY <1>1, <1>4, <2>3, <2>4 DEF WriteInv
  <2>7. ReadInv'
    BY <1>1 DEF ReadInv
  <2>8. CommandInv'
    BY <1>1, CoreFacts DEF CommandInv, Transferring
  <2> QED
    BY <2>5, <2>6, <2>7, <2>8 DEF DevicePart
<1> QED
  BY <1>5, <1>6

LEMMA WriteFall ==
  ASSUME Inv, Transferring, p_state = "Wr_D"
  PROVE  DevicePart'
<1>1. /\ p_state' = IF sclk THEN (IF LastBit THEN "RdAck_A" ELSE "Wr_E") ELSE "Wr_D"
      /\ i_ctr' = i_ctr /\ scl_in' = scl_out
      /\ sclk => scl_out = 0
      /\ (scl_in = 0 => scl_out = 0) /\ scl_in \in Bit /\ scl_out \in Bit
  BY CoreFacts, Moves DEF Inv, SclInv, Transferring, Quarter, Falling, n_state, Bit, State
<1>2. /\ i_ctr \in 0 .. Bits - 1
      /\ i_data_reg \in Byte /\ shift \in Byte /\ count \in Nat /\ mode \in D!Mode
      /\ IF scl_in = 0 /\ LastBit THEN Answering ELSE Receiving(i_ctr + 1)
  BY DEF Inv, DevicePart, DeviceInv, Registers, WriteInv
<1>3. /\ Current' = Current /\ Current.data # <<>> /\ pc' = "wait_after" /\ i_tip_reg'
      /\ i_data_reg' = i_data_reg
  BY TransferFacts DEF Inv, DevicePart, WriteInv, Current, Transferring, i_tip_reg
<1>4. /\ IF scl_in' = 0 /\ LastBit' THEN Answering' ELSE Receiving(i_ctr + 1)'
      /\ mode' \in D!Mode /\ shift' \in Byte /\ count' \in Nat
  <2>1. CASE scl_in = 1 /\ scl_out = 0
    <3>1. D!Fall /\ Receiving(i_ctr + 1)
      BY <1>2, <2>1, DeviceStep DEF Inv, Transferring
    <3>2. CASE LastBit
      <4>1. count = Bits /\ mode = "receive"
        BY <1>2, <3>1, <3>2, BitsAssumption DEF Receiving, LastBit
      <4>2. mode' = "answer" /\ shift' = shift /\ count' = 0
        BY <3>1, <4>1, BitsAssumption DEF D!Fall, D!Become
      <4>3. shift = i_data_reg
        <5>1. \A k \in 1 .. Bits : shift[k] = i_data_reg[k]
          BY <1>2, <3>1, <3>2, BitsAssumption DEF Receiving, LastBit
        <5> QED
          BY <1>2, <5>1, SameByte
      <4> QED
        BY <1>1, <1>2, <1>3, <2>1, <3>2, <4>2, <4>3 DEF Answering, D!Mode, LastBit
    <3>3. CASE ~LastBit
      <4>1. count = i_ctr + 1 /\ count < Bits /\ mode = "receive"
        BY <1>2, <3>1, <3>3, BitsAssumption DEF Receiving, LastBit
      <4>2. UNCHANGED <<mode, count, pull, shift, heard>>
        BY <3>1, <4>1, BitsAssumption DEF D!Fall
      <4> QED
        BY <1>1, <1>2, <1>3, <3>1, <3>3, <4>2 DEF Receiving, LastBit
    <3> QED
      BY <3>2, <3>3
  <2>2. CASE ~(scl_in = 1 /\ scl_out = 0)
    <3>1. scl_in = scl_out
      BY <1>1, <2>2 DEF Bit
    <3>2. UNCHANGED <<mode, count, pull, shift, heard>>
      BY <3>1, DeviceStep DEF Inv, Transferring, SdaInv, Bit
    <3> QED
      BY <1>1, <1>2, <1>3, <3>1, <3>2 DEF Receiving, Answering, LastBit
  <2> QED
    BY <2>1, <2>2
<1>5. DeviceInv'
  BY <1>1, <1>2, <1>3, <1>4 DEF DeviceInv, Still, Idling
<1>6. WriteInv'
  BY <1>1, <1>3, <1>4 DEF WriteInv, LastBit
<1>7. ReadInv'
  BY <1>1 DEF ReadInv
<1>8. CommandInv'
  BY <1>1, CoreFacts DEF CommandInv, Transferring
<1> QED
  BY <1>5, <1>6, <1>7, <1>8 DEF DevicePart

(* The device recalls whether it was addressed for reading, and the answer  *)
(* that it got to its byte.                                                *)
Remembered ==
  /\ p_state = "RdAck_E" /\ scl_in = 1 => (D!AddressedToRead <=> Continues)
  /\ p_state = "WrAck_D" /\ scl_in = 1 => heard[Len(heard)].ack = Current.control.ack

LEMMA AnswerHeld ==
  ASSUME Inv, Transferring, p_state \in {"RdAck_A", "RdAck_B", "RdAck_C", "RdAck_D"}
  PROVE  DevicePart'
<1>1. /\ p_state' \in {"RdAck_A", "RdAck_B", "RdAck_C", "RdAck_D", "RdAck_E"} /\ i_ctr' = i_ctr
      /\ p_state' = "RdAck_D" => p_state \in {"RdAck_C", "RdAck_D"}
      /\ p_state' = "RdAck_E" => p_state = "RdAck_D"
      /\ p_state = "RdAck_C" => p_state' = "RdAck_D"
      /\ p_state \in {"RdAck_C", "RdAck_D"} => scl_out = 1 /\ scl_in = 1
      /\ scl_in' = scl_out
      /\ i_ack_out' = IF p_state = "RdAck_C" THEN sda_in ELSE i_ack_out
      /\ i_dout' = i_dout
  BY CoreFacts, Entries DEF Inv, SclInv, Transferring, Quarter, High, Bit
<1>2. /\ Answering /\ (p_state = "RdAck_D" => i_ack_out = pull)
      /\ i_ctr \in 0 .. Bits - 1 /\ shift \in Byte /\ count \in Nat /\ mode \in D!Mode
      /\ scl_in \in Bit /\ scl_out \in Bit /\ pull \in Bit
  BY DEF Inv, DevicePart, DeviceInv, WriteInv, SclInv, SdaInv
<1>3. /\ Current' = Current /\ Current.data # <<>> /\ pc' = "wait_after" /\ i_tip_reg'
      /\ i_data_reg' = i_data_reg
  BY TransferFacts DEF Inv, DevicePart, WriteInv, Current, Transferring, i_tip_reg
<1>4. UNCHANGED <<mode, count, pull, shift>>
  <2>1. ~(scl_in = 1 /\ scl_out = 0)
    BY DEF Inv, SclInv, Low, Rising, High
  <2>2. ~(scl_in = 1 /\ scl_out = 1 /\ sda(pull) # sda_in)
    BY DEF Inv, SdaInv
  <2>3. CASE scl_in = 0 /\ scl_out = 1 /\ D!Rise(sda(pull))
    BY <1>2, <2>3 DEF D!Rise, D!Become, Answering
  <2> QED
    BY <2>1, <2>2, <2>3, DeviceStep DEF Inv, Transferring
<1>5. p_state = "RdAck_C" => sda_in = pull
  BY <1>1, <1>2 DEF Inv, SdaInv, sda, Bit
<1>6. /\ Answering'
      /\ p_state' = "RdAck_D" => i_ack_out' = pull'
      /\ p_state' = "RdAck_E" => scl_in' = 1 /\ i_ack_out' = pull'
  BY <1>1, <1>2, <1>3, <1>4, <1>5 DEF Answering
<1>7. DeviceInv'
  BY <1>1, <1>2, <1>3, <1>4 DEF DeviceInv, Still, Idling
<1>8. WriteInv'
  BY <1>1, <1>3, <1>6 DEF WriteInv
<1>9. ReadInv'
  BY <1>1 DEF ReadInv
<1>10. CommandInv'
  BY <1>1, CoreFacts DEF CommandInv, Transferring
<1> QED
  BY <1>7, <1>8, <1>9, <1>10 DEF DevicePart

(* After a byte: the STOP, or the end of the transfer. *)
LEMMA ByteEnds ==
  ASSUME Inv, Transferring, p_state \in {"RdAck_E", "WrAck_D"},
         IF scl_in' = 1 THEN p_state = "RdAck_E" => Answering' /\ i_ack_out' = pull'
                        ELSE Left',
         p_state = "WrAck_D" /\ scl_in' = 1 => Listening',
         mode' \in D!Mode, shift' \in Byte, count' \in Nat
  PROVE  DevicePart'
<1>1. /\ p_state' \in {p_state, "Stop_A", "Done"} /\ i_ctr' = i_ctr
      /\ p_state' = "Stop_A" => Current.control.stop
      /\ p_state' = "Done" => ~Current.control.stop
      /\ p_state' # p_state => scl_in' = 0 /\ scl_out' = 0
      /\ i_dout' = i_dout /\ i_ack_out' = i_ack_out
      /\ data_out' = i_dout /\ ack_out' = i_ack_out
  BY CoreFacts, Moves, TransferFacts
     DEF Inv, SclInv, Transferring, Quarter, Falling, n_state, AfterAck, Bit, Wires, CoreEdge, Outputs,
         i_scl_out, Holding
<1>2. i_ctr \in 0 .. Bits - 1
  BY DEF Inv, DevicePart, DeviceInv
<1>3. /\ Current' = Current /\ pc' = "wait_after" /\ i_tip_reg'
      /\ i_data_reg' = i_data_reg /\ Kind(step)
      /\ p_state = "RdAck_E" => Current.data # <<>>
      /\ p_state = "WrAck_D" => Current.data = <<>>
  BY TransferFacts DEF Inv, DevicePart, WriteInv, ReadInv, Current, Transferring, i_tip_reg
<1>4. p_state' = "Stop_A" => Called'
  <2> SUFFICES ASSUME p_state' = "Stop_A" PROVE Called'
    OBVIOUS
  <2>1. Left' /\ Current.control.stop
    BY <1>1
  <2>2. Current.data # <<>> => ~Current.control.start
    BY <2>1, <1>3 DEF Kind, Current
  <2>3. Current.data = <<>> => Current.control.ack = 1
    BY <2>1, <1>3 DEF Kind, Current
  <2> QED
    BY <1>3, <2>1, <2>2, <2>3 DEF Left, Continues, Asleep, Waiting, Called
<1>5. p_state' = "Done" => DoneInv'
  BY <1>1, <1>3 DEF DoneInv, Held
<1>6. DeviceInv'
  BY <1>1, <1>2, <1>3, <1>4, <1>5 DEF DeviceInv, Still, Idling
<1>7. WriteInv'
  BY <1>1, <1>3 DEF WriteInv
<1>8. ReadInv'
  BY <1>1, <1>3 DEF ReadInv
<1>9. CommandInv'
  BY <1>1, <1>3 DEF CommandInv
<1> QED
  BY <1>6, <1>7, <1>8, <1>9 DEF DevicePart

LEMMA AnswerFall ==
  ASSUME Inv, Transferring, Remembered, p_state = "RdAck_E"
  PROVE  DevicePart'
<1>1. /\ scl_in' = scl_out /\ i_ack_out' = i_ack_out
      /\ (scl_in = 0 => scl_out = 0) /\ scl_in \in Bit /\ scl_out \in Bit
  BY CoreFacts DEF Inv, SclInv, Transferring, Falling
<1>2. /\ shift \in Byte /\ count \in Nat /\ mode \in D!Mode /\ pull \in Bit
      /\ IF scl_in = 1 THEN Answering /\ i_ack_out = pull ELSE Left
  BY DEF Inv, DevicePart, DeviceInv, WriteInv, SdaInv
<1>3. /\ Current' = Current /\ Current.data # <<>>
      /\ i_data_reg' = i_data_reg
  BY TransferFacts DEF Inv, DevicePart, WriteInv, Current
<1>4. /\ IF scl_in' = 1 THEN Answering' /\ i_ack_out' = pull' ELSE Left'
      /\ mode' \in D!Mode /\ shift' \in Byte /\ count' \in Nat
  <2>1. CASE scl_in = 1 /\ scl_out = 0
    <3>1. D!Fall /\ mode = "answer" /\ i_ack_out = pull
      BY <1>2, <2>1, DeviceStep DEF Inv, Transferring, Answering
    <3>2. CASE pull = 1
      <4>1. mode' = "asleep" /\ count' = 0 /\ pull' = 1 /\ shift' = shift
        BY <3>1, <3>2 DEF D!Fall, D!Become
      <4> QED
        BY <1>1, <1>2, <1>3, <2>1, <3>1, <3>2, <4>1 DEF Left, Asleep, D!Mode
    <3>3. CASE pull = 0 /\ Continues
      <4>1. PICK byte \in Sent : mode' = "send" /\ count' = 0 /\ pull' = byte[1] /\ shift' = byte
        BY <2>1, <3>1, <3>3 DEF D!Fall, D!Become, D!Send, Remembered
      <4>2. byte \in Byte
        BY ByteAssumption
      <4> QED
        BY <1>1, <1>2, <1>3, <2>1, <3>1, <3>3, <4>1, <4>2, BitsAssumption
           DEF Left, Sending, Continues, D!Mode
    <3>4. CASE pull = 0 /\ ~Continues
      <4>1. mode' = "receive" /\ count' = 0 /\ pull' = 1 /\ shift' = shift
        BY <2>1, <3>1, <3>4 DEF D!Fall, D!Become, Remembered
      <4> QED
        BY <1>1, <1>2, <1>3, <2>1, <3>1, <3>4, <4>1 DEF Left, Waiting, Continues, D!Mode
    <3> QED
      BY <1>2, <3>2, <3>3, <3>4 DEF Bit
  <2>2. CASE ~(scl_in = 1 /\ scl_out = 0)
    <3>1. scl_in = scl_out
      BY <1>1, <2>2 DEF Bit
    <3>2. UNCHANGED <<mode, count, pull, shift, heard>>
      BY <3>1, DeviceStep DEF Inv, Transferring, SdaInv, Bit
    <3> QED
      BY <1>1, <1>2, <1>3, <3>1, <3>2 DEF Answering, Left, Asleep, Waiting, Sending, Continues
  <2> QED
    BY <2>1, <2>2
<1> QED
  BY <1>4, ByteEnds

(* The bits of the device, and its look at the answer. *)
LEMMA ReadLow ==
  ASSUME Inv, Transferring, p_state \in {"Rd_A", "Rd_F", "WrAck_A"}
  PROVE  DevicePart'
<1>1. scl_in = 0 /\ scl_out = 0
  BY DEF Inv, SclInv, Low
<1>2. UNCHANGED <<mode, count, pull, shift, heard>>
  BY <1>1, DeviceStep DEF Inv, Transferring
<1>3. /\ p_state = "Rd_A" => p_state' \in {"Rd_A", "Rd_B"} /\ i_ctr' = i_ctr
      /\ p_state = "Rd_F" => p_state' = "Rd_A" /\ i_ctr' = i_ctr + 1
      /\ p_state = "WrAck_A" => p_state' \in {"WrAck_A", "WrAck_B"} /\ i_ctr' = i_ctr
      /\ i_ctr' \in 0 .. Bits - 1
      /\ i_dout' = i_dout /\ scl_in' = 0
  BY <1>1, CoreFacts, Entries, NextBit
     DEF Inv, DevicePart, ReadInv, Transferring, DeviceInv, SclInv, Quarter
<1>4. /\ p_state \in {"Rd_A", "Rd_F"} => Sending(i_ctr)' /\ Arrived(i_ctr)'
      /\ p_state = "WrAck_A" => Listening'
  BY <1>2, <1>3 DEF Inv, DevicePart, ReadInv, Sending, Arrived, Listening
<1>5. Current' = Current /\ Current.data = <<>> /\ pc' = "wait_after" /\ i_tip_reg'
  BY TransferFacts DEF Inv, DevicePart, ReadInv, Current, Transferring, i_tip_reg
<1>6. DeviceInv'
  BY <1>2, <1>3, <1>5 DEF Inv, DevicePart, DeviceInv, Still, Idling
<1>7. WriteInv'
  BY <1>3 DEF WriteInv
<1>8. ReadInv'
  BY <1>3, <1>4, <1>5 DEF ReadInv
<1>9. CommandInv'
  BY <1>3, CoreFacts DEF CommandInv, Transferring
<1> QED
  BY <1>6, <1>7, <1>8, <1>9 DEF DevicePart

LEMMA ReadRise ==
  ASSUME Inv, Transferring, p_state \in {"Rd_B", "Rd_C", "Rd_D"}
  PROVE  DevicePart'
<1>1. /\ p_state' \in {"Rd_B", "Rd_C", "Rd_D", "Rd_E"} /\ i_ctr' = i_ctr
      /\ p_state' = "Rd_C" => scl_out = 1 /\ p_state = "Rd_B"
      /\ p_state' = "Rd_D" => p_state \in {"Rd_C", "Rd_D"}
      /\ p_state' = "Rd_E" => p_state = "Rd_D"
      /\ p_state' = "Rd_B" => p_state = "Rd_B"
      /\ p_state = "Rd_C" => p_state' = "Rd_D"
      /\ p_state \in {"Rd_C", "Rd_D"} => scl_out = 1 /\ scl_in = 1
      /\ scl_in' = scl_out /\ scl_in \in Bit /\ scl_out \in Bit
      /\ scl_in = 1 => scl_out = 1
      /\ i_dout' = IF p_state = "Rd_C" THEN [i_dout EXCEPT ![i_ctr + 1] = sda_in] ELSE i_dout
  BY CoreFacts, Entries DEF Inv, SclInv, Transferring, Quarter, Rising, High, Bit
<1>2. /\ i_ctr \in 0 .. Bits - 1 /\ shift \in Byte /\ count \in Nat /\ mode \in D!Mode
      /\ i_dout \in Byte /\ pull \in Bit
      /\ IF p_state = "Rd_B" /\ scl_in = 0 THEN Sending(i_ctr) ELSE SentBit(i_ctr + 1)
      /\ IF p_state = "Rd_D" THEN Arrived(i_ctr + 1) ELSE Arrived(i_ctr)
  BY <1>1 DEF Inv, DevicePart, DeviceInv, ReadInv, SdaInv, Registers
<1>3. Current' = Current /\ Current.data = <<>> /\ pc' = "wait_after" /\ i_tip_reg'
  BY TransferFacts DEF Inv, DevicePart, ReadInv, Current, Transferring, i_tip_reg
<1>4. /\ UNCHANGED <<mode, pull, shift>> /\ count' \in Nat
      /\ IF scl_in' = 0 THEN Sending(i_ctr)' ELSE SentBit(i_ctr + 1)'
  <2>1. ~(scl_in = 1 /\ scl_out = 1 /\ sda(pull) # sda_in)
    BY DEF Inv, SdaInv
  <2>2. CASE scl_in = 0 /\ scl_out = 1 /\ D!Rise(sda(pull))
    <3>1. Sending(i_ctr) /\ p_state = "Rd_B"
      BY <1>1, <1>2, <2>2
    <3>2. UNCHANGED <<mode, pull, shift>> /\ count' = i_ctr + 1
      BY <2>2, <3>1 DEF D!Rise, D!Become, Sending
    <3> QED
      BY <1>1, <1>2, <2>2, <3>1, <3>2 DEF Sending, SentBit
  <2>3. CASE scl_in = scl_out /\ UNCHANGED <<mode, count, pull, shift, heard>>
    BY <1>1, <1>2, <2>3 DEF Sending, SentBit, Bit
  <2> QED
    BY <1>1, <2>1, <2>2, <2>3, DeviceStep DEF Inv, Transferring
<1>5. IF p_state' \in {"Rd_B", "Rd_C"} THEN Arrived(i_ctr)' ELSE Arrived(i_ctr + 1)'
  <2>1. CASE p_state = "Rd_C"
    <3>1. sda_in = shift[i_ctr + 1]
      BY <1>1, <1>2, <2>1 DEF Inv, SdaInv, sda, SentBit, Bit
    <3>2. sda_in \in Bit /\ \A k \in 1 .. i_ctr : i_dout[k] = shift[k]
      BY <1>2, <2>1 DEF Inv, SdaInv, Arrived
    <3>3. i_dout \in Byte /\ shift \in Byte /\ i_ctr \in 0 .. Bits - 1
      BY <1>2
    <3>4. /\ [i_dout EXCEPT ![i_ctr + 1] = sda_in] \in Byte
          /\ \A k \in 1 .. i_ctr + 1 : [i_dout EXCEPT ![i_ctr + 1] = sda_in][k] = shift[k]
      BY <3>1, <3>2, <3>3, TakeBit
    <3> QED
      BY <1>1, <1>4, <2>1, <3>4 DEF Arrived
  <2>2. CASE p_state # "Rd_C"
    BY <1>1, <1>2, <1>4, <2>2 DEF Arrived
  <2> QED
    BY <2>1, <2>2
<1>6. DeviceInv'
  BY <1>1, <1>2, <1>3, <1>4 DEF DeviceInv, Still, Idling
<1>7. WriteInv'
  BY <1>1 DEF WriteInv
<1>8. ReadInv'
  BY <1>1, <1>3, <1>4, <1>5 DEF ReadInv
<1>9. CommandInv'
  BY <1>1, CoreFacts DEF CommandInv, Transferring
<1> QED
  BY <1>6, <1>7, <1>8, <1>9 DEF DevicePart

LEMMA ReadFall ==
  ASSUME Inv, Transferring, p_state = "Rd_E"
  PROVE  DevicePart'
<1>1. /\ p_state' = IF sclk THEN (IF LastBit THEN "WrAck_A" ELSE "Rd_F") ELSE "Rd_E"
      /\ i_ctr' = i_ctr /\ scl_in' = scl_out /\ i_dout' = i_dout
      /\ sclk => scl_out = 0
      /\ (scl_in = 0 => scl_out = 0) /\ scl_in \in Bit /\ scl_out \in Bit
  BY CoreFacts, Moves DEF Inv, SclInv, Transferring, Quarter, Falling, n_state, Bit, State
<1>2. /\ i_ctr \in 0 .. Bits - 1
      /\ shift \in Byte /\ i_dout \in Byte /\ count \in Nat /\ mode \in D!Mode
      /\ IF scl_in = 1 THEN SentBit(i_ctr + 1)
         ELSE IF LastBit THEN Listening ELSE Sending(i_ctr + 1)
      /\ Arrived(i_ctr + 1)
  BY DEF Inv, DevicePart, DeviceInv, Registers, ReadInv
<1>3. Current' = Current /\ Current.data = <<>> /\ pc' = "wait_after" /\ i_tip_reg'
  BY TransferFacts DEF Inv, DevicePart, ReadInv, Current, Transferring, i_tip_reg
<1>4. /\ IF scl_in' = 1 THEN SentBit(i_ctr + 1)'
         ELSE IF LastBit THEN Listening' ELSE Sending(i_ctr + 1)'
      /\ mode' \in D!Mode /\ shift' = shift /\ count' \in Nat
  <2>1. CASE scl_in = 1 /\ scl_out = 0
    <3>1. D!Fall /\ mode = "send" /\ count = i_ctr + 1
      BY <1>2, <2>1, DeviceStep DEF Inv, Transferring, SentBit
    <3>2. CASE LastBit
      <4>1. mode' = "listen" /\ shift' = shift /\ count' = 0 /\ pull' = 1
        BY <1>2, <3>1, <3>2, BitsAssumption DEF D!Fall, D!Become, LastBit
      <4>2. i_dout = shift
        <5>1. \A k \in 1 .. Bits : i_dout[k] = shift[k]
          BY <1>2, <3>2, BitsAssumption DEF Arrived, LastBit
        <5> QED
          BY <1>2, <5>1, SameByte
      <4> QED
        BY <1>1, <2>1, <3>2, <4>1, <4>2 DEF Listening, D!Mode
    <3>3. CASE ~LastBit
      <4>1. count < Bits /\ i_ctr + 1 < Bits
        BY <1>2, <3>1, <3>3, BitsAssumption DEF LastBit
      <4>2. mode' = "send" /\ shift' = shift /\ count' = count /\ pull' = shift[count + 1]
        BY <3>1, <4>1, BitsAssumption DEF D!Fall, D!Become
      <4> QED
        BY <1>1, <1>2, <2>1, <3>1, <3>3, <4>1, <4>2 DEF Sending, D!Mode
    <3> QED
      BY <3>2, <3>3
  <2>2. CASE ~(scl_in = 1 /\ scl_out = 0)
    <3>1. scl_in = scl_out
      BY <1>1, <2>2 DEF Bit
    <3>2. UNCHANGED <<mode, count, pull, shift, heard>>
      BY <3>1, DeviceStep DEF Inv, Transferring, SdaInv, Bit
    <3> QED
      BY <1>1, <1>2, <3>1, <3>2 DEF SentBit, Listening, Sending
  <2> QED
    BY <2>1, <2>2
<1>5. Arrived(i_ctr + 1)'
  BY <1>1, <1>2, <1>4 DEF Arrived
<1>6. DeviceInv'
  BY <1>1, <1>2, <1>3, <1>4 DEF DeviceInv, Still, Idling
<1>7. WriteInv'
  BY <1>1 DEF WriteInv
<1>8. ReadInv'
  BY <1>1, <1>3, <1>4, <1>5 DEF ReadInv, LastBit
<1>9. CommandInv'
  BY <1>1, CoreFacts DEF CommandInv, Transferring
<1> QED
  BY <1>6, <1>7, <1>8, <1>9 DEF DevicePart

LEMMA AnswerRise ==
  ASSUME Inv, Transferring, p_state \in {"WrAck_B", "WrAck_C"}
  PROVE  DevicePart'
<1>1. /\ p_state' \in {"WrAck_B", "WrAck_C", "WrAck_D"} /\ i_ctr' = i_ctr
      /\ p_state' = "WrAck_D" => scl_out = 1
      /\ scl_in = 1 => scl_out = 1
      /\ scl_in' = scl_out /\ i_dout' = i_dout
  BY CoreFacts, Entries DEF Inv, SclInv, Transferring, Quarter, High, Rising, Bit
<1>2. /\ Listening
      /\ i_ctr \in 0 .. Bits - 1 /\ shift \in Byte /\ count \in Nat /\ mode \in D!Mode
  BY DEF Inv, DevicePart, DeviceInv, ReadInv
<1>3. Current' = Current /\ Current.data = <<>> /\ pc' = "wait_after" /\ i_tip_reg'
  BY TransferFacts DEF Inv, DevicePart, ReadInv, Current, Transferring, i_tip_reg
<1>4. UNCHANGED <<mode, count, pull, shift>>
  <2>1. ~(scl_in = 1 /\ scl_out = 1 /\ sda(pull) # sda_in)
    BY DEF Inv, SdaInv
  <2>2. CASE scl_in = 0 /\ scl_out = 1 /\ D!Rise(sda(pull))
    BY <1>2, <2>2 DEF D!Rise, D!Become, Listening
  <2> QED
    BY <1>1, <2>1, <2>2, DeviceStep DEF Inv, Transferring
<1>5. Listening'
  BY <1>1, <1>2, <1>4 DEF Listening
<1>6. DeviceInv'
  BY <1>1, <1>2, <1>3, <1>4 DEF DeviceInv, Still, Idling
<1>7. WriteInv'
  BY <1>1 DEF WriteInv
<1>8. ReadInv'
  BY <1>1, <1>3, <1>5 DEF ReadInv
<1>9. CommandInv'
  BY <1>1, CoreFacts DEF CommandInv, Transferring
<1> QED
  BY <1>6, <1>7, <1>8, <1>9 DEF DevicePart

LEMMA ListenFall ==
  ASSUME Inv, Transferring, Remembered, p_state = "WrAck_D"
  PROVE  DevicePart'
<1>1. /\ scl_in' = scl_out /\ i_dout' = i_dout
      /\ (scl_in = 0 => scl_out = 0) /\ scl_in \in Bit /\ scl_out \in Bit
  BY CoreFacts DEF Inv, SclInv, Transferring, Falling
<1>2. /\ shift \in Byte /\ count \in Nat /\ mode \in D!Mode /\ pull \in Bit
      /\ IF scl_in = 1 THEN Listening ELSE Left
  BY DEF Inv, DevicePart, DeviceInv, ReadInv, SdaInv
<1>3. Current' = Current /\ Current.data = <<>> /\ Current.control.ack \in Bit
  BY TransferFacts DEF Inv, DevicePart, ReadInv, Current, Kind, Control
<1>4. /\ IF scl_in' = 1 THEN Listening' ELSE Left'
      /\ mode' \in D!Mode /\ shift' \in Byte /\ count' \in Nat
  <2>1. CASE scl_in = 1 /\ scl_out = 0
    <3>1. D!Fall /\ mode = "listen"
      BY <1>2, <2>1, DeviceStep DEF Inv, Transferring, Listening
    <3>2. CASE Current.control.ack = 1
      <4>1. mode' = "asleep" /\ count' = 0 /\ pull' = 1 /\ shift' = shift
        BY <2>1, <3>1, <3>2 DEF D!Fall, D!Become, Remembered
      <4> QED
        BY <1>1, <1>2, <1>3, <2>1, <3>2, <4>1 DEF Left, Asleep, D!Mode
    <3>3. CASE Current.control.ack = 0
      <4>1. PICK byte \in Sent : mode' = "send" /\ count' = 0 /\ pull' = byte[1] /\ shift' = byte
        BY <2>1, <3>1, <3>3 DEF D!Fall, D!Become, D!Send, Remembered
      <4>2. byte \in Byte
        BY ByteAssumption
      <4> QED
        BY <1>1, <1>2, <1>3, <2>1, <3>3, <4>1, <4>2, BitsAssumption
           DEF Left, Sending, Continues, D!Mode
    <3> QED
      BY <1>3, <3>2, <3>3 DEF Bit
  <2>2. CASE ~(scl_in = 1 /\ scl_out = 0)
    <3>1. scl_in = scl_out
      BY <1>1, <2>2 DEF Bit
    <3>2. UNCHANGED <<mode, count, pull, shift, heard>>
      BY <3>1, DeviceStep DEF Inv, Transferring, SdaInv, Bit
    <3>3. i_ack_out' = i_ack_out
      BY CoreFacts DEF Transferring
    <3> QED
      BY <1>1, <1>2, <1>3, <3>1, <3>2, <3>3
         DEF Listening, Left, Asleep, Waiting, Sending, Continues
  <2> QED
    BY <2>1, <2>2
<1> QED
  BY <1>4, ByteEnds

(* The START and the STOP, and the ends of a command. *)
LEMMA Begins ==
  ASSUME Inv, Transferring, p_state \in {"Idle", "Start_A"}
  PROVE  DevicePart'
<1>1. /\ scl_in = scl_out /\ scl_in \in Bit /\ (scl_out = 1 => Asleep)
      /\ i_ctr \in 0 .. Bits - 1 /\ shift \in Byte /\ count \in Nat /\ mode \in D!Mode
      /\ p_state = "Start_A" => Called /\ i_ctr = 0
  BY DEF Inv, SclInv, Still, DevicePart, DeviceInv
<1>2. UNCHANGED <<mode, count, pull, shift, heard>>
  BY <1>1, DeviceStep DEF Inv, Transferring, SdaInv, Bit
<1>3. /\ Current' = Current /\ pc' = "wait_after" /\ i_tip_reg' /\ Kind(step)
      /\ control = Current.control /\ step' = step
  BY TransferFacts DEF Current, Transferring, i_tip_reg
<1>4. /\ p_state = "Idle" => p_state' = FirstState(control) /\ i_ctr' = 0
      /\ p_state = "Start_A" => p_state' \in {"Start_A", "Start_B"} /\ i_ctr' = 0
      /\ scl_in' = scl_in /\ scl_out' = scl_in /\ i_dout' = i_dout
  BY <1>1, CoreFacts, Moves
     DEF Inv, SclInv, Transferring, Quarter, n_state, Successor, State, Wires, CoreEdge, Outputs,
         i_scl_out, Holding
<1>5. p_state = "Idle" => Ready
  BY DEF Inv, DevicePart, DeviceInv, Transferring
<1>6. p_state = "Idle" =>
        \/ p_state' = "Start_A" /\ Called /\ Current.control.start /\ Current.data # <<>>
        \/ p_state' = "Wr_A" /\ Waiting /\ Held /\ Current.data # <<>>
        \/ p_state' = "Rd_A" /\ Sending(0) /\ Held /\ Current.data = <<>>
  BY <1>3, <1>4, <1>5 DEF FirstState, Ready, Kind, Current, Called, Waiting, Asleep
<1>7. p_state = "Start_A" => Current.control.start /\ Current.data # <<>>
  BY DEF Inv, DevicePart, CommandInv
<1>8. /\ p_state' \in {"Start_A", "Start_B"} => Called' /\ Current.control.start /\ Current.data # <<>>
      /\ p_state' = "Wr_A" => Receiving(i_ctr)' /\ Current.data # <<>>
      /\ p_state' = "Rd_A" => Sending(i_ctr)' /\ Arrived(i_ctr)' /\ Current.data = <<>>
      /\ p_state' \in {"Start_A", "Start_B", "Wr_A", "Rd_A"}
      /\ scl_out' = 1 => Asleep'
  BY <1>1, <1>2, <1>3, <1>4, <1>6, <1>7
     DEF Called, Receiving, Sending, Arrived, Waiting, Asleep
<1>9. DeviceInv'
  BY <1>1, <1>2, <1>3, <1>4, <1>8, BitsAssumption DEF DeviceInv, Still, Idling
<1>10. WriteInv'
  BY <1>3, <1>8 DEF WriteInv
<1>11. ReadInv'
  BY <1>3, <1>8 DEF ReadInv
<1>12. CommandInv'
  <2>1. data_out' = i_dout' /\ ack_out' = i_ack_out'
    BY CoreFacts DEF Transferring
  <2> QED
    BY <1>3, <1>8, <2>1 DEF CommandInv
<1> QED
  BY <1>9, <1>10, <1>11, <1>12 DEF DevicePart

(* SCL rises before the START or the STOP. *)
LEMMA ConditionRise ==
  ASSUME Inv, Transferring, p_state \in {"Start_B", "Stop_A", "Stop_B"}
  PROVE  DevicePart'
<1>1. /\ Called /\ i_ctr \in 0 .. Bits - 1 /\ shift \in Byte /\ count \in Nat
      /\ (scl_in = 1 => scl_out = 1)
      /\ sda(pull) \in Bit
      /\ p_state = "Start_B" => i_ctr = 0 /\ sda(pull) = 1
      /\ p_state = "Stop_B" => sda(pull) = 0
  BY DEF Inv, SclInv, SdaInv, Rising, Low, DevicePart, DeviceInv, Called, Bit, sda
<1>2. /\ Current' = Current /\ pc' = "wait_after" /\ i_tip_reg'
      /\ p_state = "Start_B" => Current.control.start /\ Current.data # <<>>
      /\ p_state # "Start_B" => Current.control.stop
  BY TransferFacts DEF Current, Transferring, i_tip_reg, Inv, DevicePart, CommandInv
<1>3. /\ p_state = "Start_B" => p_state' \in {"Start_B", "Start_C"}
      /\ p_state = "Stop_A" => p_state' \in {"Stop_A", "Stop_B"}
      /\ p_state = "Stop_B" => p_state' \in {"Stop_B", "Stop_C"}
      /\ i_ctr' = i_ctr /\ i_dout' = i_dout /\ sda_in' = sda(pull)
  BY CoreFacts, Moves DEF Inv, SclInv, Transferring, Quarter, n_state, Successor, State
<1>4. Called' /\ shift' \in Byte /\ count' \in Nat
  <2>1. ~(scl_in = 1 /\ scl_out = 1 /\ sda(pull) # sda_in)
    BY DEF Inv, SdaInv
  <2>2. CASE D!Rise(sda(pull))
    BY <1>1, <2>2 DEF D!Rise, D!Become, Called, Byte
  <2>3. CASE UNCHANGED <<mode, count, pull, shift, heard>>
    BY <1>1, <2>3 DEF Called
  <2> QED
    BY <1>1, <2>1, <2>2, <2>3, DeviceStep DEF Inv, Transferring
<1>5. DeviceInv'
  BY <1>1, <1>2, <1>3, <1>4 DEF DeviceInv, Still, Idling, D!Mode, Called
<1>6. WriteInv'
  BY <1>3 DEF WriteInv
<1>7. ReadInv'
  BY <1>3 DEF ReadInv
<1>8. CommandInv'
  <2>1. data_out' = i_dout' /\ ack_out' = i_ack_out'
    BY CoreFacts DEF Transferring
  <2> QED
    BY <1>2, <1>3, <2>1 DEF CommandInv
<1> QED
  BY <1>5, <1>6, <1>7, <1>8 DEF DevicePart

LEMMA StartCondition ==
  ASSUME Inv, Transferring, p_state = "Start_C"
  PROVE  DevicePart'
<1>1. /\ scl_in = 1 /\ scl_out = 1 /\ i_ctr = 0
      /\ sda_in \in Bit /\ sda_out \in Bit /\ pull = 1
      /\ sda_out = 1 => sda_in = 1 /\ ~sclk
      /\ shift \in Byte /\ count \in Nat /\ mode \in D!Mode
      /\ IF sda_in = 1 THEN Called ELSE Waiting
  BY DEF Inv, SclInv, SdaInv, High, DevicePart, DeviceInv, Called, Waiting
<1>2. /\ Current' = Current /\ pc' = "wait_after" /\ i_tip_reg'
      /\ Current.control.start /\ Current.data # <<>>
  BY TransferFacts DEF Current, Transferring, i_tip_reg, Inv, DevicePart, CommandInv
<1>3. /\ p_state' \in {"Start_C", "Start_D"} /\ (p_state' = "Start_D" => sda_out = 0)
      /\ i_ctr' = 0 /\ i_dout' = i_dout /\ sda_in' = sda_out
  BY <1>1, CoreFacts, Moves
     DEF Inv, SclInv, Transferring, Quarter, n_state, Successor, State, sda, Bit
<1>4. /\ IF sda_out = 1 THEN Called' ELSE Waiting'
      /\ shift' \in Byte /\ count' \in Nat /\ mode' \in D!Mode
  <2>1. sda(pull) = sda_out
    BY <1>1 DEF sda, Bit
  <2>2. CASE sda_out # sda_in
    <3>1. sda_out = 0 /\ D!Condition(0)
      BY <1>1, <2>1, <2>2, DeviceStep DEF Inv, Transferring, Bit
    <3> QED
      BY <1>1, <3>1 DEF D!Condition, D!Become, Waiting, D!Mode
  <2>3. CASE sda_out = sda_in
    <3>1. UNCHANGED <<mode, count, pull, shift, heard>>
      BY <1>1, <2>1, <2>3, DeviceStep DEF Inv, Transferring
    <3> QED
      BY <1>1, <2>3, <3>1 DEF Called, Waiting
  <2> QED
    BY <2>2, <2>3
<1>5. DeviceInv'
  BY <1>2, <1>3, <1>4, BitsAssumption DEF DeviceInv, Still, Idling
<1>6. WriteInv'
  BY <1>3 DEF WriteInv
<1>7. ReadInv'
  BY <1>3 DEF ReadInv
<1>8. CommandInv'
  <2>1. data_out' = i_dout' /\ ack_out' = i_ack_out'
    BY CoreFacts DEF Transferring
  <2> QED
    BY <1>2, <1>3, <2>1 DEF CommandInv
<1> QED
  BY <1>5, <1>6, <1>7, <1>8 DEF DevicePart

LEMMA StartFall ==
  ASSUME Inv, Transferring, p_state = "Start_D"
  PROVE  DevicePart'
<1>1. /\ Waiting /\ i_ctr = 0 /\ (scl_in = 0 => scl_out = 0)
      /\ scl_in \in Bit /\ scl_out \in Bit
      /\ shift \in Byte /\ count \in Nat /\ mode \in D!Mode
  BY DEF Inv, SclInv, Falling, DevicePart, DeviceInv
<1>2. /\ Current' = Current /\ pc' = "wait_after" /\ i_tip_reg'
      /\ Current.control.start /\ Current.data # <<>> /\ control.write
  BY TransferFacts DEF Current, Transferring, i_tip_reg, Inv, DevicePart, CommandInv, Kind
<1>3. p_state' \in {"Start_D", "Wr_A"} /\ i_ctr' = 0 /\ i_dout' = i_dout
  BY <1>1, <1>2, CoreFacts, Moves
     DEF Inv, SclInv, Transferring, Quarter, n_state, AfterStart, State
<1>4. UNCHANGED <<mode, count, pull, shift>>
  <2>1. CASE D!Fall
    BY <1>1, <2>1, BitsAssumption DEF D!Fall, Waiting
  <2> QED
    BY <1>1, <2>1, DeviceStep DEF Inv, Transferring, SdaInv, Bit
<1>5. Waiting' /\ Receiving(i_ctr)'
  BY <1>1, <1>3, <1>4 DEF Waiting, Receiving
<1>6. DeviceInv'
  BY <1>1, <1>2, <1>3, <1>4, <1>5, BitsAssumption DEF DeviceInv, Still, Idling
<1>7. WriteInv'
  BY <1>2, <1>3, <1>5 DEF WriteInv
<1>8. ReadInv'
  BY <1>3 DEF ReadInv
<1>9. CommandInv'
  <2>1. data_out' = i_dout' /\ ack_out' = i_ack_out'
    BY CoreFacts DEF Transferring
  <2> QED
    BY <1>2, <1>3, <2>1 DEF CommandInv
<1> QED
  BY <1>6, <1>7, <1>8, <1>9 DEF DevicePart

LEMMA StopCondition ==
  ASSUME Inv, Transferring, p_state = "Stop_C"
  PROVE  DevicePart'
<1>1. /\ scl_in = 1 /\ scl_out = 1 /\ i_ctr \in 0 .. Bits - 1
      /\ sda_in \in Bit /\ sda_out \in Bit /\ pull = 1
      /\ sda_out = 0 => sda_in = 0 /\ ~sclk
      /\ shift \in Byte /\ count \in Nat /\ mode \in D!Mode
      /\ IF sda_in = 0 THEN Called ELSE Asleep
  BY DEF Inv, SclInv, SdaInv, High, DevicePart, DeviceInv, Called, Asleep
<1>2. Current' = Current /\ pc' = "wait_after" /\ i_tip_reg' /\ Current.control.stop
  BY TransferFacts DEF Current, Transferring, i_tip_reg, Inv, DevicePart, CommandInv
<1>3. /\ p_state' \in {"Stop_C", "Done"} /\ (p_state' = "Done" => sda_out = 1)
      /\ i_ctr' = i_ctr /\ i_dout' = i_dout /\ sda_in' = sda_out /\ scl_out' = 1
  BY <1>1, CoreFacts, Moves
     DEF Inv, SclInv, Transferring, Quarter, n_state, Successor, State, sda, Bit,
         Wires, CoreEdge, Outputs, i_scl_out, Holding
<1>4. /\ IF sda_out = 0 THEN Called' ELSE Asleep'
      /\ shift' \in Byte /\ count' \in Nat /\ mode' \in D!Mode
  <2>1. sda(pull) = sda_out
    BY <1>1 DEF sda, Bit
  <2>2. CASE sda_out # sda_in
    <3>1. sda_out = 1 /\ D!Condition(1)
      BY <1>1, <2>1, <2>2, DeviceStep DEF Inv, Transferring, Bit
    <3> QED
      BY <1>1, <3>1 DEF D!Condition, D!Become, Asleep, D!Mode
  <2>3. CASE sda_out = sda_in
    <3>1. UNCHANGED <<mode, count, pull, shift, heard>>
      BY <1>1, <2>1, <2>3, DeviceStep DEF Inv, Transferring
    <3> QED
      BY <1>1, <2>3, <3>1 DEF Called, Asleep
  <2> QED
    BY <2>2, <2>3
<1>5. DeviceInv'
  BY <1>1, <1>2, <1>3, <1>4 DEF DeviceInv, Still, Idling, DoneInv
<1>6. WriteInv'
  BY <1>3 DEF WriteInv
<1>7. ReadInv'
  BY <1>3 DEF ReadInv
<1>8. CommandInv'
  <2>1. data_out' = i_dout' /\ ack_out' = i_ack_out'
    BY CoreFacts DEF Transferring
  <2> QED
    BY <1>2, <1>3, <2>1 DEF CommandInv
<1> QED
  BY <1>5, <1>6, <1>7, <1>8 DEF DevicePart

LEMMA CommandEnds ==
  ASSUME Inv, Transferring, p_state \in {"Done", "DoneAck"}
  PROVE  DevicePart'
<1>1. /\ scl_in = scl_out /\ scl_in \in Bit /\ (scl_out = 1 => Asleep) /\ DoneInv
      /\ i_ctr \in 0 .. Bits - 1 /\ shift \in Byte /\ count \in Nat /\ mode \in D!Mode
  BY DEF Inv, SclInv, Still, DevicePart, DeviceInv
<1>2. UNCHANGED <<mode, count, pull, shift, heard>>
  BY <1>1, DeviceStep DEF Inv, Transferring, SdaInv, Bit
<1>3. Current' = Current /\ pc' = "wait_after"
  BY TransferFacts DEF Current
<1>4. /\ p_state' = "DoneAck" /\ i_ctr' = i_ctr
      /\ scl_in' = scl_in /\ scl_out' = scl_in /\ i_dout' = i_dout /\ i_ack_out' = i_ack_out
  BY <1>1, CoreFacts, Moves
     DEF Inv, SclInv, Transferring, Quarter, n_state, Successor, State, Wires, CoreEdge, Outputs,
         i_scl_out, Holding, HandshakeInv, Registers
<1>5. DoneInv' /\ (scl_out' = 1 => Asleep')
  BY <1>1, <1>2, <1>3, <1>4 DEF DoneInv, Asleep, Held, Left, Sending, Waiting, Continues
<1>6. DeviceInv'
  BY <1>1, <1>2, <1>3, <1>4, <1>5 DEF DeviceInv, Still, Idling
<1>7. WriteInv'
  BY <1>4 DEF WriteInv
<1>8. ReadInv'
  BY <1>4 DEF ReadInv
<1>9. CommandInv'
  <2>1. data_out' = i_dout' /\ ack_out' = i_ack_out'
    BY <1>4, CoreFacts DEF Transferring
  <2> QED
    BY <1>4, <2>1 DEF CommandInv
<1> QED
  BY <1>6, <1>7, <1>8, <1>9 DEF DevicePart

----------------------------------------------------------------------------
(* The script of a call.                                                   *)

One(condition) == IF condition THEN 1 ELSE 0

(* w is the sequences ss put end to end; ss[k] follows its first at[k]      *)
(* elements.                                                               *)
EndToEnd(ss, w, at, S) ==
  LET n == Len(ss) IN
  /\ n \in Nat \ {0} /\ ss = [i \in 1 .. n |-> ss[i]] /\ \A k \in 1 .. n : ss[k] \in Seq(S)
  /\ w \in Seq(S)
  /\ \A k \in 1 .. n + 1 : at[k] \in Nat /\ at[k] <= Len(w)
  /\ at[1] = 0 /\ at[n + 1] = Len(w)
  /\ \A k \in 1 .. n : at[k + 1] = at[k] + Len(ss[k])
  /\ \A k \in 1 .. n : \A e \in 1 .. Len(ss[k]) : w[at[k] + e] = ss[k][e]

LEMMA Flatten ==
  ASSUME NEW S, NEW ss, NEW w, NEW at, EndToEnd(ss, w, at, S)
  PROVE  FlattenSeq(ss) = w
<1> DEFINE n == Len(ss)
           g == [i \in 1 .. n |-> [j \in 1 .. at[i + 1] |-> w[j]]]
           Flattens(f) == f = [i \in 1 .. n |-> IF i = 1 THEN ss[i] ELSE f[i - 1] \o ss[i]]
           flatten == CHOOSE f : Flattens(f)
<1>0. n \in Nat /\ n > 0 /\ w \in Seq(S) /\ Len(w) \in Nat /\ at[1] = 0 /\ at[n + 1] = Len(w)
  BY LenProperties DEF EndToEnd
<1>1. ASSUME NEW i \in 1 .. n
      PROVE  g[i] \in Seq(S) /\ Len(g[i]) = at[i + 1] /\ \A j \in 1 .. at[i + 1] : g[i][j] = w[j]
  <2>1. at[i + 1] \in Nat /\ at[i + 1] <= Len(w)
    BY <1>0 DEF EndToEnd
  <2>2. \A j \in 1 .. at[i + 1] : w[j] \in S
    BY <1>0, <2>1, ElementOfSeq
  <2>3. g[i] = [j \in 1 .. at[i + 1] |-> w[j]]
    OBVIOUS
  <2>4. g[i] \in [1 .. at[i + 1] -> S]
    BY <2>2, <2>3
  <2> QED
    BY <2>1, <2>3, <2>4
<1>2. ASSUME NEW k \in 1 .. n
      PROVE  /\ ss[k] \in Seq(S) /\ Len(ss[k]) \in Nat
             /\ at[k] \in Nat /\ at[k + 1] = at[k] + Len(ss[k])
             /\ \A e \in 1 .. Len(ss[k]) : w[at[k] + e] = ss[k][e]
  BY <1>0, LenProperties DEF EndToEnd
<1> HIDE DEF g
<1>3. g[1] = ss[1]
  <2>1. 1 \in 1 .. n /\ 1 + 1 = 2
    BY <1>0
  <2>2. g[1] \in Seq(S) /\ ss[1] \in Seq(S) /\ Len(g[1]) = Len(ss[1])
    BY <1>0, <1>1, <1>2, <2>1
  <2>3. ASSUME NEW i \in 1 .. Len(g[1]) PROVE g[1][i] = ss[1][i]
    <3>1. Len(g[1]) = at[2] /\ Len(ss[1]) = at[2] /\ at[2] \in Nat
      BY <1>0, <1>1, <1>2, <2>1, <2>2
    <3>2. i \in 1 .. at[2] /\ i \in 1 .. Len(ss[1]) /\ at[1] + i = i
      BY <1>0, <3>1
    <3>3. g[1][i] = w[i]
      BY <1>1, <2>1, <3>2
    <3>4. w[at[1] + i] = ss[1][i]
      BY <1>2, <2>1, <3>2
    <3> QED
      BY <3>2, <3>3, <3>4
  <2> QED
    BY <2>2, <2>3, SeqEqual
<1>4. ASSUME NEW i \in 2 .. n PROVE g[i] = g[i - 1] \o ss[i]
  <2>1. i \in 1 .. n /\ i - 1 \in 1 .. n /\ (i - 1) + 1 = i
    BY <1>0
  <2>2. /\ g[i] \in Seq(S) /\ Len(g[i]) = at[i] + Len(ss[i])
        /\ \A j \in 1 .. at[i] + Len(ss[i]) : g[i][j] = w[j]
    BY <1>1, <1>2, <2>1
  <2>3. /\ g[i - 1] \in Seq(S) /\ Len(g[i - 1]) = at[i]
        /\ \A j \in 1 .. at[i] : g[i - 1][j] = w[j]
    BY <1>1, <2>1
  <2>4. /\ g[i - 1] \o ss[i] \in Seq(S) /\ Len(g[i - 1] \o ss[i]) = at[i] + Len(ss[i])
        /\ \A j \in 1 .. at[i] + Len(ss[i]) :
             (g[i - 1] \o ss[i])[j] = IF j <= at[i] THEN g[i - 1][j] ELSE ss[i][j - at[i]]
    <3>1. ss[i] \in Seq(S)
      BY <1>2, <2>1
    <3>2. /\ g[i - 1] \o ss[i] \in Seq(S) /\ Len(g[i - 1] \o ss[i]) = Len(g[i - 1]) + Len(ss[i])
          /\ \A j \in 1 .. Len(g[i - 1]) + Len(ss[i]) :
             (g[i - 1] \o ss[i])[j] = IF j <= Len(g[i - 1]) THEN g[i - 1][j] ELSE ss[i][j - Len(g[i - 1])]
      BY <2>3, <3>1, ConcatProperties
    <3> QED
      BY <2>3, <3>2
  <2>5. ASSUME NEW j \in 1 .. at[i] + Len(ss[i]) PROVE g[i][j] = (g[i - 1] \o ss[i])[j]
    <3>0. at[i] \in Nat /\ Len(ss[i]) \in Nat /\ j \in Nat
      BY <1>2, <2>1
    <3>1. g[i][j] = w[j]
      BY <2>2
    <3>2. (g[i - 1] \o ss[i])[j] = IF j <= at[i] THEN g[i - 1][j] ELSE ss[i][j - at[i]]
      BY <2>4
    <3>3. j <= at[i] => g[i - 1][j] = w[j]
      <4>1. j <= at[i] => j \in 1 .. at[i]
        BY <3>0
      <4> QED
        BY <2>3, <4>1
    <3>4. ~(j <= at[i]) => ss[i][j - at[i]] = w[j]
      <4>1. ~(j <= at[i]) => j - at[i] \in 1 .. Len(ss[i]) /\ at[i] + (j - at[i]) = j
        BY <3>0
      <4>2. \A e \in 1 .. Len(ss[i]) : w[at[i] + e] = ss[i][e]
        BY <1>2, <2>1
      <4> HIDE DEF n
      <4> QED
        BY <4>1, <4>2
    <3> QED
      BY <3>1, <3>2, <3>3, <3>4
  <2> QED
    BY <2>2, <2>4, <2>5, SeqEqual
<1>5. Flattens(g)
  <2>1. g = [i \in 1 .. n |-> g[i]]
    BY DEF g
  <2>2. ASSUME NEW i \in 1 .. n PROVE g[i] = IF i = 1 THEN ss[i] ELSE g[i - 1] \o ss[i]
    <3>1. i # 1 => i \in 2 .. n
      BY <1>0
    <3> QED
      BY <1>3, <1>4, <3>1
  <2>3. [i \in 1 .. n |-> g[i]] = [i \in 1 .. n |-> IF i = 1 THEN ss[i] ELSE g[i - 1] \o ss[i]]
    BY <2>2
  <2> QED
    BY <2>1, <2>3
<1>6. Flattens(flatten)
  <2> HIDE DEF Flattens
  <2> QED
    BY <1>5
<1> HIDE DEF flatten
<1>7. \A i \in 1 .. n : flatten[i] = g[i]
  <2> DEFINE wrong == {i \in 1 .. n : flatten[i] # g[i]}
  <2> SUFFICES ASSUME wrong # {} PROVE FALSE
    OBVIOUS
  <2>1. wrong \subseteq Nat
    OBVIOUS
  <2>2. PICK i \in wrong : \A j \in wrong : ~(<<j, i>> \in OpToRel(<, Nat))
    BY <2>1, NatLessThanWellFounded, WFMin
  <2>3. i \in 1 .. n /\ flatten[i] # g[i]
    OBVIOUS
  <2>4. CASE i = 1
    BY <1>3, <1>6, <2>3, <2>4
  <2>5. CASE i # 1
    <3>1. i \in 2 .. n /\ i - 1 \in 1 .. n /\ i - 1 < i
      BY <1>0, <2>3, <2>5
    <3>2. flatten[i - 1] = g[i - 1]
      <4>1. i - 1 \in wrong => <<i - 1, i>> \in OpToRel(<, Nat)
        BY <1>0, <3>1 DEF OpToRel
      <4> QED
        BY <2>2, <3>1, <4>1
    <3>3. flatten[i] = flatten[i - 1] \o ss[i]
      BY <1>6, <2>3, <2>5
    <3> QED
      BY <1>4, <2>3, <3>1, <3>2, <3>3
  <2> QED
    BY <2>4, <2>5
<1>8. FlattenSeq(ss) = flatten[n]
  BY <1>0 DEF FlattenSeq, flatten
<1>9. g[n] = w
  <2>1. n \in 1 .. n
    BY <1>0
  <2>2. g[n] \in Seq(S) /\ Len(g[n]) = Len(w) /\ \A j \in 1 .. Len(w) : g[n][j] = w[j]
    BY <1>0, <1>1, <2>1
  <2> QED
    BY <1>0, <2>2, SeqEqual
<1> QED
  BY <1>0, <1>7, <1>8, <1>9

(* Three sequences in a row, the one in the middle of one element. *)
LEMMA ThreeParts ==
  ASSUME NEW S, NEW a, NEW b, NEW c, a \in Seq(S), b \in Seq(S), c \in Seq(S), Len(b) = 1
  PROVE  /\ (a \o b) \o c \in Seq(S) /\ Len((a \o b) \o c) = Len(a) + 1 + Len(c)
         /\ Len(a) = 1 => ((a \o b) \o c)[1] = a[1]
         /\ ((a \o b) \o c)[Len(a) + 1] = b[1]
         /\ Len(c) = 1 => ((a \o b) \o c)[Len(a) + 2] = c[1]
<1>1. Len(a) \in Nat /\ Len(c) \in Nat
  BY LenProperties
<1>2. /\ a \o b \in Seq(S) /\ Len(a \o b) = Len(a) + 1
      /\ \A i \in 1 .. Len(a) : (a \o b)[i] = a[i]
      /\ (a \o b)[Len(a) + 1] = b[1]
  <2>1. /\ a \o b \in Seq(S) /\ Len(a \o b) = Len(a) + Len(b)
        /\ \A i \in 1 .. Len(a) + Len(b) :
             (a \o b)[i] = IF i <= Len(a) THEN a[i] ELSE b[i - Len(a)]
    BY ConcatProperties
  <2> QED
    BY <1>1, <2>1
<1> DEFINE ab == a \o b
<1> HIDE DEF ab
<1>3. /\ ab \in Seq(S) /\ Len(ab) = Len(a) + 1
      /\ \A i \in 1 .. Len(a) : ab[i] = a[i]
      /\ ab[Len(a) + 1] = b[1]
  BY <1>2 DEF ab
<1>4. /\ ab \o c \in Seq(S) /\ Len(ab \o c) = Len(ab) + Len(c)
      /\ \A i \in 1 .. Len(ab) + Len(c) :
           (ab \o c)[i] = IF i <= Len(ab) THEN ab[i] ELSE c[i - Len(ab)]
  BY <1>3, ConcatProperties
<1>5. (ab \o c)[Len(a) + 1] = b[1] /\ (Len(a) = 1 => (ab \o c)[1] = a[1])
  BY <1>1, <1>3, <1>4
<1>6. Len(c) = 1 => (ab \o c)[Len(a) + 2] = c[1]
  BY <1>1, <1>3, <1>4
<1> QED
  BY <1>3, <1>4, <1>5, <1>6 DEF ab

(* The events of a transfer, one by one. *)
LEMMA EventsOf ==
  ASSUME NEW k, Kind(k)
  PROVE  LET s == One(call[k].control.start)
             t == One(call[k].control.stop)
             e == Expected(call[k])
         IN  /\ e \in Seq(Events)
             /\ Len(e) = s + 1 + t
             /\ s = 1 => e[1].what = "START"
             /\ call[k].data # <<>> => e[s + 1].what = "WRITE" /\ e[s + 1].byte = call[k].data[1]
             /\ call[k].data = <<>> => e[s + 1].what = "READ" /\ e[s + 1].ack = call[k].control.ack
             /\ t = 1 => e[s + 2].what = "STOP"
<1> DEFINE start == D!Event("START", D!Blank, 0)
           write == D!Event("WRITE", call[k].data[1], 0)
           read == D!Event("READ", D!Blank, call[k].control.ack)
           stop == D!Event("STOP", D!Blank, 0)
           byte == IF call[k].data # <<>> THEN write ELSE read
           S == {start, IF call[k].data # <<>> THEN write ELSE read, stop}
           a == IF call[k].control.start THEN <<start>> ELSE <<>>
           b == IF call[k].data # <<>> THEN <<write>> ELSE <<read>>
           c == IF call[k].control.stop THEN <<stop>> ELSE <<>>
           e == Expected(call[k])
<1>1. /\ start.what = "START" /\ stop.what = "STOP"
      /\ write.what = "WRITE" /\ write.byte = call[k].data[1]
      /\ read.what = "READ" /\ read.ack = call[k].control.ack
  BY DEF D!Event
<1>2. e = (a \o b) \o c
  BY DEF Expected
<1>3. /\ call[k].control.start \in BOOLEAN /\ call[k].control.stop \in BOOLEAN
      /\ call[k].control.ack \in Bit
  BY DEF Kind, Control
<1>10. /\ start \in Events /\ stop \in Events /\ read \in Events
       /\ call[k].data # <<>> => write \in Events
  <2>1. D!Blank \in Byte /\ 0 \in Bit
    BY DEF D!Blank, Byte, Bit
  <2>2. call[k].data # <<>> => call[k].data[1] \in Byte
    BY DEF Kind
  <2> QED
    BY <1>3, <2>1, <2>2 DEF D!Event, Events
<1> HIDE DEF start, write, read, stop, e
<1>11. S \subseteq Events
  BY <1>10
<1>4. a \in Seq(S) /\ Len(a) = One(call[k].control.start) /\ (call[k].control.start => a[1] = start)
  <2>1. CASE call[k].control.start
    BY <2>1 DEF One
  <2>2. CASE ~call[k].control.start
    BY <2>2 DEF One
  <2> QED
    BY <2>1, <2>2
<1>5. c \in Seq(S) /\ Len(c) = One(call[k].control.stop) /\ (call[k].control.stop => c[1] = stop)
  <2>1. CASE call[k].control.stop
    BY <2>1 DEF One
  <2>2. CASE ~call[k].control.stop
    BY <2>2 DEF One
  <2> QED
    BY <2>1, <2>2
<1>6. b \in Seq(S) /\ Len(b) = 1 /\ b[1] = IF call[k].data # <<>> THEN write ELSE read
  <2>1. CASE call[k].data # <<>>
    BY <2>1
  <2>2. CASE call[k].data = <<>>
    BY <2>2
  <2> QED
    BY <2>1, <2>2
<1> HIDE DEF a, b, c, S
<1>7. /\ e \in Seq(S) /\ Len(e) = Len(a) + 1 + Len(c)
      /\ Len(a) = 1 => e[1] = a[1]
      /\ e[Len(a) + 1] = b[1]
      /\ Len(c) = 1 => e[Len(a) + 2] = c[1]
  <2>1. /\ (a \o b) \o c \in Seq(S) /\ Len((a \o b) \o c) = Len(a) + 1 + Len(c)
        /\ Len(a) = 1 => ((a \o b) \o c)[1] = a[1]
        /\ ((a \o b) \o c)[Len(a) + 1] = b[1]
        /\ Len(c) = 1 => ((a \o b) \o c)[Len(a) + 2] = c[1]
    <3>1. a \in Seq(S) /\ b \in Seq(S) /\ c \in Seq(S) /\ Len(b) = 1
      BY <1>4, <1>5, <1>6
    <3> QED
      BY <3>1, ThreeParts
  <2> QED
    BY <1>2, <2>1
<1>12. e \in Seq(Events)
  BY <1>7, <1>11, SeqMonotonic
<1>8. One(call[k].control.start) = 1 => e[1].what = "START"
  BY <1>1, <1>3, <1>4, <1>7 DEF One
<1>9. One(call[k].control.stop) = 1 => e[One(call[k].control.start) + 2].what = "STOP"
  BY <1>1, <1>3, <1>4, <1>5, <1>7 DEF One
<1> QED
  BY <1>1, <1>4, <1>5, <1>6, <1>7, <1>8, <1>9, <1>12 DEF e

Size(k) == Len(Expected(call[k]))

(* Where the events of the transfers are, one transfer after the other. *)
LEMMA Places ==
  ASSUME CallShape, NEW k \in DOMAIN call
  PROVE  /\ k \in Nat /\ Len(call) \in Nat /\ DOMAIN call = 1 .. Len(call)
         /\ Size(k) = One(call[k].control.start) + 1 + One(call[k].control.stop)
         /\ Before(k) \in Nat /\ Before(1) = 0
         /\ k < Len(call) => Before(k + 1) = Before(k) + Size(k)
<1>1. Kind(k) /\ Size(k) = One(call[k].control.start) + 1 + One(call[k].control.stop)
  BY Kinds, EventsOf DEF Size
<1>2. k \in Nat /\ k >= 1 /\ Len(call) \in Nat /\ DOMAIN call = 1 .. Len(call) /\ k <= Len(call)
  BY DEF CallShape
<1>3. Before(k) \in Nat /\ Before(1) = 0
  BY <1>2 DEF Before
<1>4. ASSUME k < Len(call) PROVE Before(k + 1) = Before(k) + Size(k)
  <2>1. /\ Size(k) = IF call[k].control.start THEN 2 ELSE 1
        /\ k = 1 => call[k].control.start
        /\ call[k].control.start => k \in {1, 3}
    BY <1>1, <1>2, <1>4 DEF Kind, One, Control
  <2>2. CASE k = 1
    BY <2>1, <2>2 DEF Before
  <2>3. CASE k = 2
    BY <2>1, <2>3 DEF Before
  <2>4. CASE k = 3
    BY <2>1, <2>4 DEF Before
  <2>5. CASE k > 3
    BY <1>2, <2>1, <2>5 DEF Before
  <2> QED
    BY <1>2, <2>2, <2>3, <2>4, <2>5
<1> QED
  BY <1>1, <1>2, <1>3, <1>4

Total == Before(Len(call)) + Size(Len(call))

(* The transfer of the event at a place. *)
Place(j) ==
  IF j <= 2 THEN 1
  ELSE IF j = 3 THEN 2
  ELSE IF call[3].control.start
       THEN IF j <= 5 THEN 3 ELSE IF j <= Len(call) + 2 THEN j - 2 ELSE Len(call)
       ELSE IF j <= Len(call) + 1 THEN j - 1 ELSE Len(call)

LEMMA PlaceOf ==
  ASSUME CallShape, NEW k \in DOMAIN call, NEW e \in 1 .. Size(k)
  PROVE  Place(Before(k) + e) = k /\ Before(k) + e \in 1 .. Total
<1>1. /\ k \in Nat /\ k >= 1 /\ k <= Len(call) /\ Len(call) \in Nat /\ Len(call) >= 3
      /\ DOMAIN call = 1 .. Len(call)
      /\ Kind(k) /\ Size(k) = One(call[k].control.start) + 1 + One(call[k].control.stop)
  BY Kinds, Places DEF CallShape
<1>2. /\ Kind(1) /\ Kind(2) /\ Kind(3) /\ Kind(Len(call))
      /\ Size(Len(call)) = One(call[Len(call)].control.start) + 1
                              + One(call[Len(call)].control.stop)
  BY <1>1, Kinds, Places
<1>3. /\ e \in Nat /\ e >= 1 /\ e <= Size(k)
      /\ Size(k) = (IF call[k].control.start THEN 2 ELSE 1) + (IF k = Len(call) THEN 1 ELSE 0)
      /\ k = 1 => call[k].control.start
      /\ call[k].control.start => k \in {1, 3} /\ k # Len(call)
  BY <1>1 DEF Kind, One, Control
<1>4. /\ Size(Len(call)) = 2
      /\ Total = Before(Len(call)) + 2
  BY <1>2, <1>1 DEF Kind, One, Control, Total
<1>5. call[3].control.start => Len(call) > 3
  BY <1>1, <1>2 DEF Kind
<1>6. Before(k) \in Nat
  BY Places
<1> DEFINE n == Len(call)
           r == call[3].control.start
           b == Before(k)
<1>7. /\ k = 1 => b = 0
      /\ k \in {2, 3} => b = k
      /\ k > 3 => b = IF r THEN k + 1 ELSE k
  BY <1>1 DEF Before
<1>8. Total = IF r THEN n + 3 ELSE n + 2
  <2>1. \A m \in Nat : m >= 3 => Before(m) = IF m > 3 /\ r THEN m + 1 ELSE m
    BY DEF Before
  <2>2. Before(n) = IF n > 3 /\ r THEN n + 1 ELSE n
    BY <1>1, <2>1
  <2> QED
    BY <1>1, <1>4, <1>5, <2>2
<1>9. n \in Nat /\ n >= 3 /\ k <= n
  BY <1>1
<1>10. e = 1 \/ (e = 2 /\ (k = 1 \/ (k = 3 /\ r) \/ (k = n /\ k >= 3 /\ (k = 3 => ~r))))
  BY <1>1, <1>3, <1>5
<1>11. \A j \in Nat : Place(j) =
         IF j <= 2 THEN 1
         ELSE IF j = 3 THEN 2
         ELSE IF r THEN IF j <= 5 THEN 3 ELSE IF j <= n + 2 THEN j - 2 ELSE n
              ELSE IF j <= n + 1 THEN j - 1 ELSE n
  BY DEF Place
<1>12. k = 3 => Before(3) = 3 /\ (r => n > 3)
  BY <1>5, <1>7
<1> HIDE DEF n, r, b
<1>13. Place(b + e) = k
  <2>1. CASE k = 1
    BY <1>3, <1>7, <1>9, <1>10, <1>11, <2>1
  <2>2. CASE k = 2
    BY <1>3, <1>7, <1>9, <1>10, <1>11, <2>2
  <2>3. CASE k = 3
    BY <1>3, <1>7, <1>9, <1>10, <1>11, <2>3
  <2>4. CASE k > 3
    BY <1>1, <1>7, <1>9, <1>10, <1>11, <2>4
  <2> QED
    BY <1>1, <2>1, <2>2, <2>3, <2>4
<1>14. b + e \in 1 .. Total
  BY <1>1, <1>3, <1>7, <1>8, <1>9, <1>10, <1>12
<1> QED
  BY <1>13, <1>14 DEF b

LEMMA ScriptAt ==
  ASSUME CallShape
  PROVE  /\ Script \in Seq(Events) /\ Len(Script) = Total /\ Total \in Nat
         /\ \A k \in DOMAIN call : \A e \in 1 .. Size(k) :
              /\ Before(k) + e \in 1 .. Total
              /\ Script[Before(k) + e] = Expected(call[k])[e]
<1> DEFINE n == Len(call)
           ss == [k \in DOMAIN call |-> Expected(call[k])]
           here(j) == Expected(call[Place(j)])[j - Before(Place(j))]
           w == [j \in 1 .. Total |->
                   IF here(j) \in Events THEN here(j) ELSE D!Event("STOP", D!Blank, 0)]
           at == [k \in 1 .. n + 1 |-> IF k <= n THEN Before(k) ELSE Total]
<1>1. n \in Nat /\ n >= 3 /\ DOMAIN call = 1 .. n
  BY DEF CallShape
<1>2. ASSUME NEW k \in 1 .. n
      PROVE  /\ Expected(call[k]) \in Seq(Events) /\ Len(Expected(call[k])) = Size(k)
             /\ Size(k) \in Nat /\ Before(k) \in Nat
             /\ \A e \in 1 .. Size(k) : Expected(call[k])[e] \in Events
  <2>1. Kind(k) /\ k \in DOMAIN call
    BY <1>1, Kinds
  <2>2. Expected(call[k]) \in Seq(Events) /\ Len(Expected(call[k])) = Size(k)
    BY <2>1, EventsOf DEF Size
  <2> QED
    BY <2>1, <2>2, LenProperties, ElementOfSeq, Places
<1>3. Total \in Nat /\ Total = Before(n) + Size(n)
  BY <1>1, <1>2 DEF Total
<1>4. D!Event("STOP", D!Blank, 0) \in Events
  BY DEF D!Event, D!Blank, Events, Byte, Bit
<1> HIDE DEF here
<1>5. w \in Seq(Events) /\ Len(w) = Total
  BY <1>3, <1>4
<1>6. ASSUME NEW k \in 1 .. n, NEW e \in 1 .. Size(k)
      PROVE  /\ Before(k) + e \in 1 .. Total
             /\ w[Before(k) + e] = Expected(call[k])[e]
  <2>1. Place(Before(k) + e) = k /\ Before(k) + e \in 1 .. Total
    BY <1>1, PlaceOf
  <2>2. (Before(k) + e) - Before(k) = e /\ Expected(call[k])[e] \in Events
    BY <1>2
  <2>3. here(Before(k) + e) = Expected(call[k])[e]
    BY <2>1, <2>2 DEF here
  <2> QED
    BY <2>1, <2>2, <2>3
<1>7. ASSUME NEW k \in 1 .. n PROVE Before(k) <= Total
  <2>1. Size(k) >= 1
    <3>1. Kind(k) /\ Size(k) = One(call[k].control.start) + 1 + One(call[k].control.stop)
      BY <1>1, Kinds, Places
    <3> QED
      BY <3>1 DEF One
  <2>2. Before(k) + 1 \in 1 .. Total
    <3>1. 1 \in 1 .. Size(k)
      BY <1>2, <2>1
    <3> HIDE DEF w
    <3> QED
      BY <1>6, <3>1
  <2> QED
    BY <1>2, <1>3, <2>2
<1>8. /\ at[1] = 0 /\ at[n + 1] = Total
      /\ \A k \in 1 .. n : at[k] = Before(k) /\ at[k + 1] = Before(k) + Size(k)
  <2>1. Before(1) = 0
    BY <1>1 DEF Before
  <2>2. ASSUME NEW k \in 1 .. n PROVE at[k] = Before(k) /\ at[k + 1] = Before(k) + Size(k)
    <3>1. CASE k < n
      <4>1. Before(k + 1) = Before(k) + Size(k)
        BY <1>1, <3>1, Places
      <4> QED
        BY <1>1, <3>1, <4>1
    <3>2. CASE k = n
      <4>1. n + 1 \in 1 .. n + 1 /\ n \in 1 .. n + 1 /\ ~(n + 1 <= n)
        BY <1>1
      <4>2. at[n] = Before(n) /\ at[n + 1] = Total
        BY <1>1, <4>1
      <4> HIDE DEF at, n
      <4> QED
        BY <1>3, <3>2, <4>2
    <3> HIDE DEF at, n
    <3>3. k < n \/ k = n
      <4>1. k \in Nat /\ k <= n /\ n \in Nat
        BY <1>1
      <4> QED
        BY <4>1
    <3> QED
      BY <3>1, <3>2, <3>3
  <2>3. at[n + 1] = Total
    BY <1>1
  <2> QED
    BY <1>1, <2>1, <2>2, <2>3
<1>9. Len(ss) = n /\ \A k \in 1 .. n : ss[k] = Expected(call[k])
  BY <1>1
<1>10. \A k \in 1 .. n + 1 : at[k] \in Nat /\ at[k] <= Total
  BY <1>1, <1>2, <1>3, <1>7
<1>11. ss = [k \in 1 .. n |-> ss[k]]
  BY <1>1
<1> HIDE DEF ss, w, at, n
<1>12. EndToEnd(ss, w, at, Events)
  <2>1. /\ n \in Nat \ {0} /\ \A k \in 1 .. n : ss[k] \in Seq(Events)
        /\ \A k \in 1 .. n : Len(ss[k]) = Size(k)
    BY <1>1, <1>2, <1>9
  <2>2. \A k \in 1 .. n : at[k + 1] = at[k] + Len(ss[k])
    BY <1>8, <2>1
  <2>3. \A k \in 1 .. n : \A e \in 1 .. Len(ss[k]) : w[at[k] + e] = ss[k][e]
    BY <1>6, <1>8, <1>9, <2>1
  <2> QED
    BY <1>5, <1>8, <1>9, <1>10, <1>11, <2>1, <2>2, <2>3 DEF EndToEnd
<1>13. Script = w
  BY <1>12, Flatten DEF Script, ss
<1> QED
  BY <1>1, <1>3, <1>5, <1>6, <1>13

(* What has been heard of a transfer is its START, its byte and its STOP.   *)
Told(k) ==
  LET at == Before(k) + One(call[k].control.start) + 1 IN
  /\ at \in Nat
  /\ call[k].control.start /\ Len(heard) >= at - 1 => heard[at - 1].what = "START"
  /\ call[k].data # <<>> /\ Len(heard) >= at =>
       heard[at].what = "WRITE" /\ heard[at].byte = call[k].data[1]
  /\ call[k].data = <<>> /\ Len(heard) >= at =>
       heard[at].what = "READ" /\ heard[at].ack = call[k].control.ack
  /\ call[k].control.stop /\ Len(heard) >= at + 1 => heard[at + 1].what = "STOP"

LEMMA HeardOf ==
  ASSUME CallShape, heard \in Seq(Events), NEW k \in DOMAIN call,
         \A j \in DOMAIN heard : Matches(heard[j], Script[j])
  PROVE  Told(k)
<1> DEFINE s == One(call[k].control.start)
           t == One(call[k].control.stop)
           e == Expected(call[k])
           b == Before(k)
<1>1. /\ Kind(k) /\ b \in Nat /\ Size(k) = s + 1 + t
      /\ \A j \in 1 .. Size(k) : Script[b + j] = e[j]
  BY Kinds, Places, ScriptAt
<1>2. /\ s = 1 => e[1].what = "START"
      /\ call[k].data # <<>> => e[s + 1].what = "WRITE" /\ e[s + 1].byte = call[k].data[1]
      /\ call[k].data = <<>> => e[s + 1].what = "READ" /\ e[s + 1].ack = call[k].control.ack
      /\ t = 1 => e[s + 2].what = "STOP"
  BY <1>1, EventsOf
<1>3. /\ Len(heard) \in Nat /\ DOMAIN heard = 1 .. Len(heard)
  BY LenProperties
<1>4. /\ s = IF call[k].control.start THEN 1 ELSE 0
      /\ t = IF call[k].control.stop THEN 1 ELSE 0
  BY DEF One
<1> HIDE DEF s, t, e, b
<1>5. ASSUME NEW j \in 1 .. Size(k), Len(heard) >= b + j
      PROVE  Matches(heard[b + j], e[j])
  BY <1>1, <1>3, <1>4, <1>5
<1>6. ASSUME call[k].control.start, Len(heard) >= b + 1
      PROVE  heard[b + 1].what = "START"
  <2>1. 1 \in 1 .. Size(k)
    BY <1>1, <1>4
  <2> QED
    BY <1>2, <1>4, <1>5, <1>6, <2>1 DEF Matches
<1>7. ASSUME Len(heard) >= b + s + 1
      PROVE  /\ call[k].data # <<>> =>
                  heard[b + s + 1].what = "WRITE" /\ heard[b + s + 1].byte = call[k].data[1]
             /\ call[k].data = <<>> =>
                  heard[b + s + 1].what = "READ" /\ heard[b + s + 1].ack = call[k].control.ack
  <2>1. s + 1 \in 1 .. Size(k) /\ b + (s + 1) = b + s + 1
    BY <1>1, <1>4
  <2>2. Matches(heard[b + (s + 1)], e[s + 1])
    BY <1>1, <1>4, <1>5, <1>7, <2>1
  <2> QED
    BY <1>2, <2>1, <2>2 DEF Matches
<1>8. ASSUME call[k].control.stop, Len(heard) >= b + s + 2
      PROVE  heard[b + s + 2].what = "STOP"
  <2>1. s + 2 \in 1 .. Size(k) /\ b + (s + 2) = b + s + 2
    BY <1>1, <1>4, <1>8
  <2>2. Matches(heard[b + (s + 2)], e[s + 2])
    BY <1>1, <1>4, <1>5, <1>8, <2>1
  <2> QED
    BY <1>2, <1>4, <1>8, <2>1, <2>2 DEF Matches
<1> DEFINE at == b + s + 1
<1>9. /\ at \in Nat /\ at + 1 = b + s + 2
      /\ call[k].control.start => at - 1 = b + 1
  BY <1>1, <1>4
<1>10. /\ call[k].control.start /\ Len(heard) >= at - 1 => heard[at - 1].what = "START"
       /\ call[k].control.stop /\ Len(heard) >= at + 1 => heard[at + 1].what = "STOP"
  BY <1>6, <1>8, <1>9
<1>11. /\ call[k].data # <<>> /\ Len(heard) >= at =>
            heard[at].what = "WRITE" /\ heard[at].byte = call[k].data[1]
       /\ call[k].data = <<>> /\ Len(heard) >= at =>
            heard[at].what = "READ" /\ heard[at].ack = call[k].control.ack
  BY <1>7
<1> HIDE DEF at
<1>12. at = Before(k) + One(call[k].control.start) + 1
  BY DEF at, b, s
<1> QED
  BY <1>9, <1>10, <1>11, <1>12 DEF Told

LEMMA Recalls ==
  ASSUME Inv, i_tip_reg
  PROVE  Remembered
<1>1. /\ pc = "wait_after" /\ control = Current.control
      /\ Current.data # <<>> => i_data_reg = Current.data[1]
  BY DEF Inv, HandshakeInv
<1>2. call # <<>> /\ CallShape /\ step \in DOMAIN call
  BY <1>1 DEF Inv, DriverInv, Idling
<1>3. Kind(step)
  BY <1>2, Kinds
<1>4. Told(step)
  BY <1>2, HeardOf DEF Inv, HeardInv
<1>5. Before(step) \in Nat /\ step \in Nat /\ Len(heard) \in Nat /\ Started \in {0, 1}
      /\ Started = One(Current.control.start)
  BY <1>2, Places, LenProperties DEF Inv, HeardInv, Started, One, Current
<1>6. Len(heard) = Before(step) + Progress
  BY <1>1, <1>2 DEF Inv, HeardInv, Idling
<1>7. CASE p_state = "RdAck_E" /\ scl_in = 1
  <2>1. /\ Current.data # <<>> /\ shift = Current.data[1]
    BY <1>1, <1>7 DEF Inv, DevicePart, WriteInv, Answering
  <2>2. Len(heard) = Before(step) + Started + 1
    BY <1>1, <1>5, <1>6, <1>7 DEF Progress
  <2>3. CASE Current.control.start
    <3>1. Started = 1
      BY <2>3 DEF Started
    <3>2. heard[Len(heard) - 1].what = "START" /\ Len(heard) > 1
      <4> DEFINE at == Before(step) + One(call[step].control.start) + 1
      <4>1. call[step].control.start /\ Len(heard) >= at - 1 => heard[at - 1].what = "START"
        BY <1>4 DEF Told
      <4>2. at = Len(heard) /\ Len(heard) - 1 >= 1
        BY <1>5, <2>2, <3>1 DEF Current
      <4> HIDE DEF at
      <4> QED
        BY <1>5, <2>3, <4>1, <4>2 DEF Current
    <3> QED
      BY <1>7, <2>1, <2>3, <3>2 DEF Remembered, Continues, D!AddressedToRead
  <2>4. CASE ~Current.control.start
    <3>1. Started = 0 /\ step # 1 /\ step >= 1 /\ step <= Len(call) /\ Len(call) \in Nat
      BY <1>2, <1>3, <1>5, <2>4, Places DEF Started, Kind, Current
    <3>2. step - 1 \in DOMAIN call /\ step - 1 < Len(call) /\ (step - 1) + 1 = step
      BY <1>2, <1>5, <3>1, Places
    <3>3. /\ Told(step - 1) /\ Kind(step - 1)
          /\ Before(step) = Before(step - 1) + Size(step - 1)
          /\ Size(step - 1) = One(call[step - 1].control.start) + 1
                                + One(call[step - 1].control.stop)
          /\ Before(step - 1) \in Nat
      BY <1>2, <3>2, HeardOf, Kinds, Places DEF Inv, HeardInv
    <3>4. One(call[step - 1].control.stop) = 0
      BY <3>2, <3>3 DEF Kind, One
    <3>5. Before(step) = Before(step - 1) + One(call[step - 1].control.start) + 1
      BY <3>3, <3>4 DEF One
    <3>6. Len(heard) - 1 = Before(step)
      BY <1>5, <2>2, <3>1
    <3>7. heard[Len(heard) - 1].what # "START"
      BY <1>5, <3>3, <3>5, <3>6 DEF Told
    <3> QED
      BY <1>7, <2>1, <2>4, <3>7 DEF Remembered, Continues, D!AddressedToRead
  <2> QED
    BY <2>3, <2>4
<1>8. CASE p_state = "WrAck_D" /\ scl_in = 1
  <2>1. Current.data = <<>> /\ ~Current.control.start
    BY <1>3, <1>8 DEF Inv, DevicePart, ReadInv, Kind, Current
  <2>2. Len(heard) = Before(step) + Started + 1
    BY <1>1, <1>5, <1>6, <1>8 DEF Progress
  <2>3. heard[Len(heard)].ack = Current.control.ack
    BY <1>4, <1>5, <2>1, <2>2 DEF Told, Current
  <2> QED
    BY <1>8, <2>3 DEF Remembered
<1> QED
  BY <1>7, <1>8 DEF Remembered

----------------------------------------------------------------------------
(* The rest of the invariant, in a clock of a transfer.                    *)

LEMMA RegistersStep ==
  ASSUME Registers, SclInv, SdaInv, ClockInv, Wires,
         irq' \in BOOLEAN, i_int_pe_reg' \in BOOLEAN, i_cmd_done_ack' \in BOOLEAN,
         control' \in Control, i_data_reg' \in Byte,
         i_clkdiv_reg' \in Divisors \union {ResetDivisor}
  PROVE  Registers'
<1>1. i_dout' \in Byte /\ i_ack_out' \in Bit
  <2>1. i_dout \in Byte /\ i_ack_out \in Bit /\ sda_in \in Bit
    BY DEF Registers, SdaInv
  <2> QED
    BY <2>1, CoreFacts DEF Byte
<1>2. data_out' \in Byte /\ ack_out' \in Bit
  BY CoreFacts DEF Registers
<1>3. cmd_done' \in BOOLEAN
  BY DEF Wires, CoreEdge, Outputs, i_cmd_done
<1>4. \E divisor \in Divisors \union {ResetDivisor} : clk_ctr' \in 0 .. divisor
  <2>1. clk_ctr' = IF clk_ctr >= i_clkdiv_reg THEN 0 ELSE clk_ctr + 1
    BY DEF Wires, ClockGenerator
  <2>2. /\ clk_ctr \in Nat /\ i_clkdiv_reg \in Nat
        /\ i_clkdiv_reg \in Divisors \union {ResetDivisor}
    BY DEF ClockInv, Registers
  <2>3. clk_ctr' \in 0 .. i_clkdiv_reg
    BY <2>1, <2>2
  <2> QED
    BY <2>2, <2>3
<1> QED
  BY <1>1, <1>2, <1>3, <1>4 DEF Registers

LEMMA TransferRegisters ==
  ASSUME Inv, Transferring, irq' \in BOOLEAN
  PROVE  Registers' /\ ClockInv'
<1>1. /\ i_int_pe_reg' \in BOOLEAN /\ i_cmd_done_ack' \in BOOLEAN
      /\ i_data_reg' = i_data_reg /\ i_clkdiv_reg' = i_clkdiv_reg
  BY DEF Inv, Registers, Transferring, Transfer
<1>2. control' \in Control
  <2>1. \/ control' = control
        \/ control' = [control EXCEPT !.write = FALSE, !.read = FALSE,
                                      !.start = FALSE, !.stop = FALSE]
    BY DEF Transferring, Transfer
  <2> QED
    BY <2>1 DEF Inv, Registers, Control
<1>3. Registers'
  BY <1>1, <1>2, RegistersStep DEF Inv, Registers, Transferring
<1>4. i_clkdiv_reg' \in Nat \ {0}
  BY <1>1 DEF Inv, ClockInv
<1>5. ClockInv'
  BY <1>4, ClockStep DEF Inv, Transferring
<1> QED
  BY <1>3, <1>5

(* What depends on the call alone. *)
LEMMA SameCall ==
  ASSUME call' = call
  PROVE  /\ CallShape' = CallShape /\ ReadShape' = ReadShape
         /\ Script' = Script
         /\ \A k : Before(k)' = Before(k)
  BY DEF CallShape, WriteShape, ReadShape, Writes, Script, Expected, Before, D!Event, D!Blank

LEMMA TransferHandshake ==
  ASSUME Inv, Transferring
  PROVE  HandshakeInv' /\ DriverInv'
<1>1. /\ pc = "wait_after" /\ pc' = "wait_after" /\ call' = call /\ step' = step
      /\ Current' = Current /\ control = Current.control /\ i_data_reg' = i_data_reg
      /\ Current.data # <<>> => i_data_reg = Current.data[1]
  BY TransferFacts DEF Current
<1>6. DriverInv'
  BY <1>1, SameCall DEF Inv, DriverInv, Idling
<1>2. p_state \in State /\ p_state # "Reset" /\ control \in Control
  BY TransferFacts DEF Inv, SclInv, Registers
<1>3. cmd_done' = (p_state \in {"Done", "DoneAck"})
  BY DEF Transferring, Wires, CoreEdge, Outputs, i_cmd_done
<1>4. CASE p_state = "DoneAck"
  <2>1. cmd_done = TRUE /\ i_cmd_done_ack = FALSE
    BY <1>4 DEF Inv, HandshakeInv, Transferring, Registers
  <2>2. /\ control' = [control EXCEPT !.write = FALSE, !.read = FALSE,
                                      !.start = FALSE, !.stop = FALSE]
        /\ i_cmd_done_ack' = TRUE
    BY <2>1 DEF Transferring, Transfer
  <2>3. ~i_tip_reg'
    BY <1>2, <2>2 DEF i_tip_reg, Control
  <2>4. p_state' = "DoneAck"
    BY <1>2, <1>4, <2>1, Moves DEF Transferring, n_state, Quarter
  <2>5. cmd_done'
    BY <1>3, <1>4
  <2> QED
    BY <1>1, <1>6, <2>2, <2>3, <2>4, <2>5 DEF HandshakeInv, Busy
<1>5. CASE p_state # "DoneAck"
  <2>1. control' = control /\ i_cmd_done_ack' = FALSE /\ i_tip_reg'
    BY <1>5, TransferFacts DEF Transferring, i_tip_reg
  <2>2. p_state' \notin {"Reset", "Idle"} /\ (p_state' = "DoneAck" <=> p_state = "Done")
    <3>1. CASE p_state = "Idle"
      BY <1>2, <3>1, Moves DEF Transferring, n_state, Quarter, FirstState, i_tip_reg
    <3>2. CASE p_state # "Idle"
      BY <1>2, <1>5, <3>2, Entries, Moves DEF Transferring, Quarter, n_state, Successor
    <3> QED
      BY <3>1, <3>2
  <2>3. cmd_done' <=> p_state = "Done"
    BY <1>3, <1>5
  <2> QED
    BY <1>1, <1>6, <2>1, <2>2, <2>3 DEF HandshakeInv, Busy
<1> QED
  BY <1>4, <1>5

(* A byte without a START finds SCL low. *)
LEMMA BeginsLow ==
  ASSUME Inv, Transferring, p_state = "Idle", p_state' \in {"Wr_A", "Rd_A"}
  PROVE  scl_out = 0
<1>1. Ready
  BY DEF Inv, DevicePart, DeviceInv, Transferring
<1>2. p_state' = FirstState(control)
  BY Moves DEF Inv, SclInv, Transferring, n_state, Quarter
<1>3. ~control.start
  BY <1>2 DEF FirstState
<1>4. step # 1
  BY <1>3, TransferFacts DEF Kind, Current
<1> QED
  BY <1>1, <1>4 DEF Ready, Held

(* Where SCL falls, the device sends a bit that it has. *)
LEMMA PullStep ==
  ASSUME Inv, Wires
  PROVE  pull' \in Bit
<1>1. pull \in Bit /\ shift \in Byte /\ i_ctr \in 0 .. Bits - 1
  BY DEF Inv, SdaInv, DevicePart, DeviceInv
<1>2. CASE D!Condition(sda(pull))
  BY <1>2 DEF D!Condition, D!Become, Bit
<1>3. CASE D!Rise(sda(pull))
  BY <1>1, <1>3 DEF D!Rise, D!Become
<1>4. CASE scl_in = 1 /\ scl_out = 0 /\ D!Fall
  <2>1. mode = "send" => count \in 1 .. Bits
    <3>1. p_state \in {"Start_D", "Rd_E", "RdAck_E", "Wr_D", "WrAck_D"}
      BY <1>4 DEF Inv, SclInv, High, Low, Rising, Falling, Still, State, Quarter
    <3>2. p_state # "Rd_E" => mode # "send"
      BY <1>4, <3>1 DEF Inv, DevicePart, DeviceInv, WriteInv, ReadInv, Waiting, Answering,
                        Receiving, Listening
    <3>3. p_state = "Rd_E" => count = i_ctr + 1
      BY <1>4 DEF Inv, DevicePart, ReadInv, SentBit
    <3> QED
      BY <1>1, <3>2, <3>3, BitsAssumption
  <2>2. \A byte \in Sent : byte[1] \in Bit
    BY ByteAssumption, BitsAssumption DEF Byte
  <2>3. mode = "send" /\ count # Bits => shift[count + 1] \in Bit
    BY <1>1, <2>1, BitsAssumption DEF Byte
  <2>4. 0 \in Bit /\ 1 \in Bit
    BY DEF Bit
  <2> QED
    BY <1>1, <1>4, <2>2, <2>3, <2>4 DEF D!Fall, D!Become, D!Send, Bit
<1>5. CASE UNCHANGED pull
  BY <1>1, <1>5
<1> QED
  BY <1>2, <1>3, <1>4, <1>5, DeviceStep DEF Inv

LEMMA DeviceLetsGo ==
  ASSUME Inv
  PROVE  LetGo
BY DEF Inv, DevicePart, DeviceInv, LetGo, Asleep, Called, Waiting

LEMMA TransferLines ==
  ASSUME Inv, Transferring, ClockInv'
  PROVE  SclInv' /\ SdaInv'
<1>1. Wires /\ sclk \in BOOLEAN /\ i_clkdiv_reg' \in Nat \ {0}
  BY DEF Inv, Transferring, ClockInv
<1>2. ~(sclk /\ sclk')
  BY <1>1, ClockStep DEF Inv
<1>3. SclInv'
  BY <1>1, <1>2, BeginsLow, SclStep DEF Inv
<1>4. /\ i_data_reg \in Byte /\ control.ack \in Bit /\ i_ctr \in 0 .. Bits - 1
      /\ i_data_reg' = i_data_reg /\ control'.ack = control.ack
  BY TransferFacts DEF Inv, Registers, Control, DevicePart, DeviceInv
<1>5. LetGo /\ pull' \in Bit
  BY <1>1, DeviceLetsGo, PullStep
<1>6. SdaInv'
  BY <1>1, <1>2, <1>3, <1>4, <1>5, SdaStep DEF Inv
<1> QED
  BY <1>3, <1>6

LEMMA TransferDevice ==
  ASSUME Inv, Transferring
  PROVE  DevicePart'
<1>1. p_state \in State \ {"Reset"} /\ Remembered
  BY TransferFacts, Recalls DEF Inv, SclInv, Transferring
<1>2. CASE p_state \in {"Idle", "Start_A", "Start_B", "Start_C", "Start_D"}
  BY <1>2, Begins, ConditionRise, StartCondition, StartFall
<1>3. CASE p_state \in {"Wr_A", "Wr_B", "Wr_C", "Wr_D", "Wr_E"}
  BY <1>3, WriteLow, WriteRise, WriteFall
<1>4. CASE p_state \in {"RdAck_A", "RdAck_B", "RdAck_C", "RdAck_D", "RdAck_E"}
  BY <1>1, <1>4, AnswerHeld, AnswerFall
<1>5. CASE p_state \in {"Rd_A", "Rd_B", "Rd_C", "Rd_D", "Rd_E", "Rd_F"}
  BY <1>5, ReadLow, ReadRise, ReadFall
<1>6. CASE p_state \in {"WrAck_A", "WrAck_B", "WrAck_C", "WrAck_D"}
  BY <1>1, <1>6, ReadLow, AnswerRise, ListenFall
<1>7. CASE p_state \in {"Stop_A", "Stop_B", "Stop_C", "Done", "DoneAck"}
  BY <1>7, ConditionRise, StopCondition, CommandEnds
<1> QED
  BY <1>1, <1>2, <1>3, <1>4, <1>5, <1>6, <1>7 DEF State, Quarter

----------------------------------------------------------------------------
(* What the device hears in a clock of a transfer.                         *)

Quiet ==
  /\ heard' = heard /\ Progress' = Progress
  /\ Progress > Started =>
       i_dout' = i_dout /\ (Current.data # <<>> => AnswerBit' = AnswerBit)

LEMMA ProgressFacts ==
  ASSUME Inv, Transferring
  PROVE  /\ Started \in {0, 1} /\ Started' = Started /\ Current' = Current
         /\ pc = "wait_after" /\ pc' = "wait_after" /\ i_tip_reg
         /\ p_state' \notin {"Idle", "Reset"}
<1>1. Current' = Current /\ pc = "wait_after" /\ pc' = "wait_after" /\ i_tip_reg
  BY TransferFacts DEF Current, Transferring
<1>2. p_state \in State /\ p_state # "Reset"
  BY TransferFacts DEF Inv, SclInv
<1>3. CASE p_state = "Idle"
  <2>1. p_state' = FirstState(control)
    BY <1>3, Moves DEF Transferring, n_state, Quarter, State
  <2> QED
    BY <1>1, <2>1 DEF FirstState, i_tip_reg, Started
<1>4. CASE p_state = "DoneAck"
  <2>1. i_cmd_done_ack = FALSE
    BY <1>4 DEF Inv, HandshakeInv, Transferring, Registers
  <2>2. p_state' = "DoneAck"
    BY <1>4, <2>1, Moves DEF Transferring, n_state, Quarter, State
  <2> QED
    BY <1>1, <2>2 DEF Started
<1>5. CASE p_state \notin {"Idle", "DoneAck"}
  <2>1. p_state' \notin {"Idle", "Reset"}
    BY <1>2, <1>5, Entries DEF Transferring
  <2> QED
    BY <1>1, <2>1 DEF Started
<1> QED
  BY <1>3, <1>4, <1>5

LEMMA QuietBegin ==
  ASSUME Inv, Transferring, p_state \in {"Idle", "Start_A"}
  PROVE  Quiet
<1>1. scl_in = scl_out
  BY DEF Inv, SclInv, Still
<1>2. heard' = heard
  BY <1>1, DeviceStep DEF Inv, Transferring, SdaInv, Bit
<1>3. \/ p_state' \in {"Start_A", "Start_B"}
      \/ p_state = "Idle" /\ p_state' \in {"Wr_A", "Rd_A"} /\ ~Current.control.start
  <2>1. CASE p_state = "Idle"
    <3>1. p_state' = FirstState(control) /\ control = Current.control
      BY <2>1, TransferFacts, Moves DEF Transferring, n_state, Quarter, State
    <3> QED
      BY <2>1, <3>1, ProgressFacts DEF FirstState
  <2>2. CASE p_state = "Start_A"
    BY <2>2, Moves DEF Transferring, n_state, Quarter, State, Successor
  <2> QED
    BY <2>1, <2>2
<1>4. Progress = 0 /\ Progress' = 0
  BY <1>3, ProgressFacts DEF Progress, Started
<1> QED
  BY <1>2, <1>4, ProgressFacts DEF Quiet

LEMMA QuietCondition ==
  ASSUME Inv, Transferring, p_state \in {"Start_B", "Stop_A", "Stop_B"}
  PROVE  Quiet
<1>1. mode \in {"asleep", "receive"} /\ pull = 1
  BY DEF Inv, DevicePart, DeviceInv, Called
<1>2. heard' = heard /\ mode' = mode
  <2>1. ~(scl_in = 1 /\ scl_out = 0)
    BY DEF Inv, SclInv, Low, Rising
  <2>2. ~(scl_in = 1 /\ scl_out = 1 /\ sda(pull) # sda_in)
    BY DEF Inv, SdaInv
  <2>3. CASE D!Rise(sda(pull))
    BY <1>1, <2>3 DEF D!Rise, D!Become
  <2> QED
    BY <2>1, <2>2, <2>3, DeviceStep DEF Inv, Transferring
<1>3. /\ p_state = "Start_B" => p_state' = "Start_B" \/ (p_state' = "Start_C" /\ sda_in' = 1)
      /\ p_state = "Stop_A" => p_state' \in {"Stop_A", "Stop_B"}
      /\ p_state = "Stop_B" => p_state' = "Stop_B" \/ (p_state' = "Stop_C" /\ sda_in' = 0)
      /\ i_dout' = i_dout /\ i_ack_out' = i_ack_out
  BY <1>1, CoreFacts, Moves DEF Inv, SclInv, SdaInv, Transferring, n_state, Quarter, Successor, sda
<1>4. Progress' = Progress
  BY <1>3, ProgressFacts DEF Progress, Started
<1>5. AnswerBit' = AnswerBit
  BY <1>1, <1>2, <1>3 DEF AnswerBit, Answering
<1> QED
  BY <1>2, <1>3, <1>4, <1>5 DEF Quiet

(* A level stays, or SCL falls on a device that does not wake up.          *)
LEMMA QuietLow ==
  ASSUME Inv, Transferring,
         p_state \in {"Start_D", "Wr_A", "Wr_E", "Rd_A", "Rd_F", "WrAck_A"}
  PROVE  Quiet
<1>1. heard' = heard
  <2>1. CASE p_state = "Start_D"
    <3>1. Waiting /\ ~(scl_in = 0 /\ scl_out = 1)
      BY <2>1 DEF Inv, DevicePart, DeviceInv, SclInv, Falling
    <3>2. CASE D!Fall
      BY <3>1, <3>2, BitsAssumption DEF D!Fall, Waiting
    <3> QED
      BY <2>1, <3>1, <3>2, DeviceStep DEF Inv, Transferring, SdaInv
  <2>2. CASE p_state # "Start_D"
    <3>1. scl_in = 0 /\ scl_out = 0
      BY <2>2 DEF Inv, SclInv, Low
    <3> QED
      BY <3>1, DeviceStep DEF Inv, Transferring
  <2> QED
    BY <2>1, <2>2
<1>2. /\ p_state' \in {"Start_D", "Wr_A", "Wr_B", "Rd_A", "Rd_B", "WrAck_A", "WrAck_B"}
      /\ p_state' = "WrAck_B" => scl_in' = 0
  <2>1. p_state = "WrAck_A" => scl_out = 0
    BY DEF Inv, SclInv, Low
  <2>2. p_state = "Start_D" => control.write
    BY TransferFacts DEF Inv, DevicePart, CommandInv, Kind, Current
  <2> QED
    BY <2>1, <2>2, CoreFacts, Moves
       DEF Inv, SclInv, Transferring, n_state, Quarter, Successor, AfterStart
<1>3. Progress = Started /\ Progress' = Started
  BY <1>2, ProgressFacts DEF Progress
<1> QED
  BY <1>1, <1>3, ProgressFacts DEF Quiet

LEMMA QuietRise ==
  ASSUME Inv, Transferring, p_state \in {"Wr_B", "Wr_C", "Rd_B", "Rd_C", "Rd_D", "WrAck_C"}
  PROVE  Quiet
<1>1. /\ ~(scl_in = 1 /\ scl_out = 0)
      /\ p_state \in {"Wr_C", "WrAck_C"} => scl_in = 1 /\ scl_out = 1
  BY DEF Inv, SclInv, Rising, High
<1>2. heard' = heard
  <2>1. ~(scl_in = 1 /\ scl_out = 1 /\ sda(pull) # sda_in)
    BY DEF Inv, SdaInv
  <2>2. CASE scl_in = 0 /\ D!Rise(sda(pull))
    <3>1. mode # "listen"
      BY <1>1, <2>2 DEF Inv, DevicePart, WriteInv, ReadInv, Receiving, Sending, SentBit
    <3> QED
      BY <2>2, <3>1 DEF D!Rise
  <2> QED
    BY <1>1, <2>1, <2>2, DeviceStep DEF Inv, Transferring
<1>3. CASE p_state = "WrAck_C"
  <2>1. p_state' \in {"WrAck_C", "WrAck_D"} /\ i_dout' = i_dout /\ Current.data = <<>>
    BY <1>3, CoreFacts, Moves
       DEF Inv, SclInv, Transferring, n_state, Quarter, Successor, DevicePart, ReadInv
  <2>2. Progress = Started + 1 /\ Progress' = Started + 1
    BY <1>3, <2>1, ProgressFacts DEF Progress
  <2> QED
    BY <1>2, <2>1, <2>2 DEF Quiet
<1>4. CASE p_state # "WrAck_C"
  <2>1. /\ p_state' \in {"Wr_B", "Wr_C", "Wr_D", "Rd_B", "Rd_C", "Rd_D", "Rd_E"}
        /\ p_state' = "Wr_D" => scl_in' = 1
    BY <1>1, <1>4, CoreFacts, Moves DEF Inv, SclInv, Transferring, n_state, Quarter, Successor
  <2>2. Progress = Started /\ Progress' = Started
    BY <1>4, <2>1, ProgressFacts DEF Progress
  <2> QED
    BY <1>2, <2>2, ProgressFacts DEF Quiet
<1> QED
  BY <1>3, <1>4

LEMMA QuietSend ==
  ASSUME Inv, Transferring, p_state = "Rd_E"
  PROVE  Quiet
<1>1. /\ scl_in = 0 => scl_out = 0
      /\ scl_in = 1 => mode = "send"
  BY DEF Inv, SclInv, Falling, DevicePart, ReadInv, SentBit
<1>2. heard' = heard
  <2>1. ~(scl_in = 1 /\ scl_out = 1 /\ sda(pull) # sda_in)
    BY DEF Inv, SdaInv
  <2>2. CASE scl_in = 1 /\ D!Fall
    BY <1>1, <2>2 DEF D!Fall
  <2> QED
    BY <1>1, <2>1, <2>2, DeviceStep DEF Inv, Transferring
<1>3. p_state' \in {"Rd_E", "Rd_F", "WrAck_A"}
  BY Moves DEF Inv, SclInv, Transferring, n_state, Quarter
<1>4. Progress = Started /\ Progress' = Started
  BY <1>3, ProgressFacts DEF Progress
<1> QED
  BY <1>2, <1>4, ProgressFacts DEF Quiet

LEMMA QuietAnswer ==
  ASSUME Inv, Transferring,
         p_state \in {"RdAck_A", "RdAck_B", "RdAck_C", "RdAck_D", "RdAck_E", "WrAck_D"}
  PROVE  Quiet
<1>1. /\ p_state' \in {"RdAck_A", "RdAck_B", "RdAck_C", "RdAck_D", "RdAck_E", "WrAck_D", "Stop_A"}
         \/ (p_state' = "Done" /\ ~Current.control.stop)
      /\ i_dout' = i_dout /\ (p_state # "RdAck_C" => i_ack_out' = i_ack_out)
      /\ i_data_reg' = i_data_reg
  <2>1. /\ i_dout' = i_dout /\ (p_state # "RdAck_C" => i_ack_out' = i_ack_out)
        /\ i_data_reg' = i_data_reg /\ control = Current.control
    BY CoreFacts, TransferFacts DEF Transferring
  <2>2. p_state' = p_state \/ p_state' = n_state(control, i_cmd_done_ack)
    BY Moves DEF Inv, SclInv, Transferring
  <2>3. /\ p_state \in {"RdAck_A", "RdAck_B", "RdAck_C", "RdAck_D"} =>
             n_state(control, i_cmd_done_ack) \in {"RdAck_B", "RdAck_C", "RdAck_D", "RdAck_E"}
        /\ p_state \in {"RdAck_E", "WrAck_D"} =>
             n_state(control, i_cmd_done_ack) = AfterAck(control)
    BY DEF n_state, Successor
  <2>4. AfterAck(control) = IF Current.control.stop THEN "Stop_A" ELSE "Done"
    BY <2>1 DEF AfterAck
  <2> QED
    BY <2>1, <2>2, <2>3, <2>4
<1>2. Progress = Started + 1 /\ Progress' = Started + 1
  BY <1>1, ProgressFacts DEF Progress
<1>3. ~(scl_in = 1 /\ scl_out = 1 /\ sda(pull) # sda_in)
  BY DEF Inv, SdaInv
<1>4. CASE p_state \in {"RdAck_A", "RdAck_B", "RdAck_C", "RdAck_D"}
  <2>1. Answering /\ ~(scl_in = 1 /\ scl_out = 0)
    BY <1>4 DEF Inv, DevicePart, WriteInv, SclInv, Low, Rising, High
  <2>2. heard' = heard /\ mode' = mode /\ pull' = pull /\ shift' = shift
    <3>1. CASE D!Rise(sda(pull))
      BY <2>1, <3>1 DEF D!Rise, D!Become, Answering
    <3> QED
      BY <1>3, <2>1, <3>1, DeviceStep DEF Inv, Transferring
  <2>3. Answering' /\ AnswerBit' = AnswerBit
    BY <1>1, <2>1, <2>2 DEF Answering, AnswerBit
  <2> QED
    BY <1>1, <1>2, <2>2, <2>3 DEF Quiet
<1>5. CASE p_state = "RdAck_E"
  <2>1. /\ ~(scl_in = 0 /\ scl_out = 1)
        /\ scl_in = 1 => Answering /\ i_ack_out = pull
    BY <1>5 DEF Inv, DevicePart, WriteInv, SclInv, Falling
  <2>2. CASE scl_in = 1 /\ scl_out = 0 /\ D!Fall
    <3>1. heard' = heard /\ mode' # "answer"
      BY <2>1, <2>2 DEF D!Fall, D!Become, D!Send, Answering
    <3>2. AnswerBit' = i_ack_out /\ AnswerBit = i_ack_out
      BY <1>1, <1>5, <2>1, <2>2, <3>1 DEF AnswerBit, Answering
    <3> QED
      BY <1>1, <1>2, <3>1, <3>2 DEF Quiet
  <2>3. CASE UNCHANGED <<mode, count, pull, shift, heard>>
    <3>1. AnswerBit' = AnswerBit
      BY <1>1, <1>5, <2>3 DEF AnswerBit, Answering
    <3> QED
      BY <1>1, <1>2, <2>3, <3>1 DEF Quiet
  <2> QED
    BY <1>3, <2>1, <2>2, <2>3, DeviceStep DEF Inv, Transferring
<1>6. CASE p_state = "WrAck_D"
  <2>1. /\ ~(scl_in = 0 /\ scl_out = 1)
        /\ scl_in = 1 => mode = "listen"
        /\ Current.data = <<>>
    BY <1>6 DEF Inv, DevicePart, ReadInv, SclInv, Falling, Listening
  <2>2. CASE scl_in = 1 /\ scl_out = 0 /\ D!Fall
    BY <1>1, <1>2, <2>1, <2>2 DEF D!Fall, Quiet
  <2>3. CASE UNCHANGED <<mode, count, pull, shift, heard>>
    BY <1>1, <1>2, <2>1, <2>3 DEF Quiet
  <2> QED
    BY <1>3, <2>1, <2>2, <2>3, DeviceStep DEF Inv, Transferring
<1> QED
  BY <1>4, <1>5, <1>6

LEMMA QuietEnd ==
  ASSUME Inv, Transferring, p_state \in {"Done", "DoneAck"}
  PROVE  Quiet
<1>1. scl_in = scl_out
  BY DEF Inv, SclInv, Still
<1>2. UNCHANGED <<mode, count, pull, shift, heard>>
  BY <1>1, DeviceStep DEF Inv, Transferring, SdaInv, Bit
<1>3. /\ p_state' = "DoneAck" /\ i_dout' = i_dout /\ i_ack_out' = i_ack_out
      /\ i_data_reg' = i_data_reg
  <2>1. i_dout' = i_dout /\ i_ack_out' = i_ack_out /\ i_data_reg' = i_data_reg
    BY CoreFacts, TransferFacts DEF Transferring
  <2>2. p_state' \in {"DoneAck", "Idle"}
    BY Moves DEF Inv, SclInv, Transferring, n_state, Quarter, Successor
  <2> QED
    BY <2>1, <2>2, ProgressFacts
<1>4. Progress' = Progress
  BY <1>3, ProgressFacts DEF Progress
<1>5. AnswerBit' = AnswerBit
  BY <1>2, <1>3 DEF AnswerBit, Answering
<1> QED
  BY <1>2, <1>3, <1>4, <1>5 DEF Quiet

(* An event is the next one of the transfer. *)
Hears(event) ==
  /\ event \in Events /\ heard' = Append(heard, event) /\ Progress' = Progress + 1
  /\ \/ event.what = "START" /\ Progress = 0 /\ Current.control.start
     \/ /\ event.what = "WRITE" /\ Progress = Started /\ Current.data # <<>>
        /\ event.byte = Current.data[1] /\ event.ack = AnswerBit'
     \/ /\ event.what = "READ" /\ Progress = Started /\ Current.data = <<>>
        /\ event.ack = Current.control.ack /\ event.byte = i_dout'
     \/ /\ event.what = "STOP" /\ Progress = Started + 1 /\ Current.control.stop
        /\ i_dout' = i_dout /\ (Current.data # <<>> => AnswerBit' = AnswerBit)

LEMMA EventIn ==
  ASSUME NEW what \in {"START", "STOP", "WRITE", "READ"}, NEW byte \in Byte, NEW ack \in Bit
  PROVE  /\ D!Event(what, byte, ack) \in Events
         /\ D!Event(what, byte, ack).what = what
         /\ D!Event(what, byte, ack).byte = byte
         /\ D!Event(what, byte, ack).ack = ack
BY DEF D!Event, Events

LEMMA BlankByte == D!Blank \in Byte /\ 0 \in Bit
BY DEF D!Blank, Byte, Bit

LEMMA HearsStart ==
  ASSUME Inv, Transferring, p_state = "Start_C"
  PROVE  Quiet \/ \E event : Hears(event)
<1>1. /\ scl_in = 1 /\ scl_out = 1 /\ sda_in \in Bit /\ sda_out \in Bit /\ pull = 1
      /\ sda_out = 1 => sda_in = 1 /\ ~sclk
      /\ Current.control.start
  BY DEF Inv, SclInv, SdaInv, High, DevicePart, DeviceInv, Called, Waiting, CommandInv
<1>2. /\ p_state' \in {"Start_C", "Start_D"} /\ (p_state' = "Start_D" => sda_out = 0)
      /\ i_dout' = i_dout /\ sda_in' = sda_out /\ sda(pull) = sda_out
  BY <1>1, CoreFacts, Moves
     DEF Inv, SclInv, Transferring, Quarter, n_state, Successor, State, sda, Bit
<1>3. /\ Progress = IF sda_in = 1 THEN 0 ELSE Started
      /\ Progress' = IF sda_out = 1 THEN 0 ELSE Started
      /\ Started = 1
  BY <1>1, <1>2, ProgressFacts DEF Progress, Started
<1>4. CASE sda_out # sda_in
  <2>1. sda_out = 0 /\ sda_in = 1 /\ D!Condition(0)
    BY <1>1, <1>2, <1>4, DeviceStep DEF Inv, Transferring, Bit
  <2>2. heard' = Append(heard, D!Event("START", D!Blank, 0))
    BY <2>1 DEF D!Condition, D!Hear
  <2>3. /\ D!Event("START", D!Blank, 0) \in Events
        /\ D!Event("START", D!Blank, 0).what = "START"
    BY EventIn, BlankByte
  <2>4. Hears(D!Event("START", D!Blank, 0))
    BY <1>1, <1>3, <2>1, <2>2, <2>3 DEF Hears
  <2> QED
    BY <2>4
<1>5. CASE sda_out = sda_in
  <2>1. heard' = heard
    BY <1>1, <1>2, <1>5, DeviceStep DEF Inv, Transferring
  <2> QED
    BY <1>3, <1>5, <2>1, ProgressFacts DEF Quiet
<1> QED
  BY <1>4, <1>5

LEMMA HearsStop ==
  ASSUME Inv, Transferring, p_state = "Stop_C"
  PROVE  Quiet \/ \E event : Hears(event)
<1>1. /\ scl_in = 1 /\ scl_out = 1 /\ sda_in \in Bit /\ sda_out \in Bit /\ pull = 1
      /\ sda_out = 0 => sda_in = 0 /\ ~sclk
      /\ Current.control.stop /\ mode \in {"asleep", "receive"}
  BY DEF Inv, SclInv, SdaInv, High, DevicePart, DeviceInv, Called, Asleep, CommandInv
<1>2. /\ p_state' \in {"Stop_C", "Done"} /\ (p_state' = "Done" => sda_out = 1)
      /\ i_dout' = i_dout /\ i_ack_out' = i_ack_out /\ sda_in' = sda_out /\ sda(pull) = sda_out
  BY <1>1, CoreFacts, Moves
     DEF Inv, SclInv, Transferring, Quarter, n_state, Successor, State, sda, Bit
<1>3. /\ Progress = IF sda_in = 0 THEN Started + 1 ELSE Started + 2
      /\ Progress' = IF sda_out = 0 THEN Started + 1 ELSE Started + 2
  BY <1>1, <1>2, ProgressFacts DEF Progress, Started
<1>4. CASE sda_out # sda_in
  <2>1. sda_out = 1 /\ sda_in = 0 /\ D!Condition(1)
    BY <1>1, <1>2, <1>4, DeviceStep DEF Inv, Transferring, Bit
  <2>2. heard' = Append(heard, D!Event("STOP", D!Blank, 0)) /\ mode' = "asleep"
    BY <2>1 DEF D!Condition, D!Hear, D!Become
  <2>3. /\ D!Event("STOP", D!Blank, 0) \in Events
        /\ D!Event("STOP", D!Blank, 0).what = "STOP"
    BY EventIn, BlankByte
  <2>4. AnswerBit' = AnswerBit
    BY <1>1, <1>2, <2>2 DEF AnswerBit, Answering
  <2>5. Progress = Started + 1 /\ Progress' = Progress + 1
    BY <1>3, <2>1, ProgressFacts
  <2>6. Hears(D!Event("STOP", D!Blank, 0))
    BY <1>1, <1>2, <2>2, <2>3, <2>4, <2>5 DEF Hears
  <2> QED
    BY <2>6
<1>5. CASE sda_out = sda_in
  <2>1. heard' = heard /\ mode' = mode
    BY <1>1, <1>2, <1>5, DeviceStep DEF Inv, Transferring
  <2>2. AnswerBit' = AnswerBit
    BY <1>1, <1>2, <2>1 DEF AnswerBit, Answering
  <2> QED
    BY <1>2, <1>3, <1>5, <2>1, <2>2 DEF Quiet
<1> QED
  BY <1>4, <1>5

LEMMA HearsWrite ==
  ASSUME Inv, Transferring, p_state = "Wr_D"
  PROVE  Quiet \/ \E event : Hears(event)
<1>1. /\ p_state' = IF sclk THEN (IF LastBit THEN "RdAck_A" ELSE "Wr_E") ELSE "Wr_D"
      /\ i_ctr' = i_ctr /\ scl_in' = scl_out /\ i_dout' = i_dout /\ i_ack_out' = i_ack_out
      /\ sclk => scl_out = 0
      /\ (scl_in = 0 => scl_out = 0) /\ scl_in \in Bit /\ scl_out \in Bit
  BY CoreFacts, Moves DEF Inv, SclInv, Transferring, Quarter, Falling, n_state, Bit, State
<1>2. /\ i_ctr \in 0 .. Bits - 1
      /\ i_data_reg \in Byte /\ shift \in Byte
      /\ IF scl_in = 0 /\ LastBit THEN Answering ELSE Receiving(i_ctr + 1)
  BY DEF Inv, DevicePart, DeviceInv, Registers, WriteInv
<1>3. /\ Current.data # <<>> /\ i_data_reg' = i_data_reg /\ i_data_reg = Current.data[1]
  BY TransferFacts DEF Inv, DevicePart, WriteInv
<1>4. /\ Progress = IF scl_in = 0 /\ LastBit THEN Started + 1 ELSE Started
      /\ Progress' = IF scl_out = 0 /\ LastBit THEN Started + 1 ELSE Started
  BY <1>1, ProgressFacts DEF Progress, LastBit
<1>5. CASE scl_in = 1 /\ scl_out = 0 /\ LastBit
  <2>1. D!Fall /\ Receiving(Bits) /\ scl_in # 0
    BY <1>2, <1>5, DeviceStep, BitsAssumption DEF Inv, Transferring, LastBit
  <2>2. PICK ack \in {0, 1} : /\ mode' = "answer" /\ pull' = ack /\ shift' = shift
                              /\ heard' = Append(heard, D!Event("WRITE", shift, ack))
    BY <2>1, BitsAssumption DEF D!Fall, D!Become, D!Hear, Receiving
  <2>3. shift = i_data_reg
    <3>1. \A k \in 1 .. Bits : shift[k] = i_data_reg[k]
      BY <2>1 DEF Receiving
    <3> QED
      BY <1>2, <3>1, SameByte
  <2>4. AnswerBit' = ack
    BY <1>3, <2>2, <2>3 DEF AnswerBit, Answering
  <2> DEFINE event == D!Event("WRITE", shift, ack)
  <2>5. event \in Events /\ event.what = "WRITE" /\ event.byte = shift /\ event.ack = ack
    BY <1>2, EventIn DEF Bit
  <2>6. Progress = Started /\ Progress' = Progress + 1
    BY <1>4, <1>5, <2>1, ProgressFacts
  <2>7. heard' = Append(heard, event)
    BY <2>2
  <2> HIDE DEF event
  <2>8. Hears(event)
    BY <1>3, <2>3, <2>4, <2>5, <2>6, <2>7 DEF Hears
  <2> QED
    BY <2>8
<1>6. CASE ~(scl_in = 1 /\ scl_out = 0 /\ LastBit)
  <2>1. UNCHANGED <<mode, pull, shift, heard>>
    <3>1. CASE scl_in = 1 /\ scl_out = 0 /\ D!Fall
      <4>1. Receiving(i_ctr + 1) /\ i_ctr + 1 < Bits
        BY <1>2, <1>6, <3>1, BitsAssumption DEF LastBit
      <4> QED
        BY <3>1, <4>1, BitsAssumption DEF D!Fall, Receiving
    <3> QED
      BY <1>1, <3>1, DeviceStep DEF Inv, Transferring, SdaInv
  <2>2. AnswerBit' = AnswerBit
    BY <1>1, <1>3, <2>1 DEF AnswerBit, Answering
  <2>3. Progress' = Progress
    BY <1>1, <1>4, <1>6 DEF Bit
  <2> QED
    BY <1>1, <2>1, <2>2, <2>3 DEF Quiet
<1> QED
  BY <1>5, <1>6

LEMMA HearsRead ==
  ASSUME Inv, Transferring, p_state = "WrAck_B"
  PROVE  Quiet \/ \E event : Hears(event)
<1>1. /\ p_state' \in {"WrAck_B", "WrAck_C"} /\ (p_state' = "WrAck_C" => scl_out = 1)
      /\ scl_in' = scl_out /\ i_dout' = i_dout
      /\ (scl_in = 1 => scl_out = 1) /\ scl_in \in Bit /\ scl_out \in Bit
  BY CoreFacts, Moves DEF Inv, SclInv, Transferring, Quarter, Rising, n_state, Successor, Bit, State
<1>2. Listening /\ shift \in Byte /\ Current.data = <<>>
  BY DEF Inv, DevicePart, DeviceInv, ReadInv
<1>3. sda(pull) = Current.control.ack /\ Current.control.ack \in Bit
  BY <1>2, TransferFacts DEF Inv, SdaInv, Registers, Control, sda, Listening, Bit
<1>4. /\ Progress = IF scl_in = 0 THEN Started ELSE Started + 1
      /\ Progress' = IF scl_out = 0 THEN Started ELSE Started + 1
  BY <1>1, ProgressFacts DEF Progress
<1>5. CASE scl_in = 0 /\ scl_out = 1
  <2>1. D!Rise(sda(pull))
    BY <1>5, DeviceStep DEF Inv, Transferring
  <2> DEFINE event == D!Event("READ", shift, Current.control.ack)
  <2>2. heard' = Append(heard, event)
    BY <1>2, <1>3, <2>1 DEF D!Rise, D!Hear, Listening
  <2>3. event \in Events /\ event.what = "READ" /\ event.byte = shift
        /\ event.ack = Current.control.ack
    BY <1>2, <1>3, EventIn
  <2>4. Progress = Started /\ Progress' = Progress + 1
    BY <1>4, <1>5, ProgressFacts
  <2> HIDE DEF event
  <2>5. Hears(event)
    BY <1>1, <1>2, <2>2, <2>3, <2>4 DEF Hears, Listening
  <2> QED
    BY <2>5
<1>6. CASE ~(scl_in = 0 /\ scl_out = 1)
  <2>1. scl_in = scl_out
    BY <1>1, <1>6 DEF Bit
  <2>2. heard' = heard
    BY <2>1, DeviceStep DEF Inv, Transferring, SdaInv
  <2> QED
    BY <1>1, <1>2, <1>4, <2>1, <2>2 DEF Quiet
<1> QED
  BY <1>5, <1>6

LEMMA TransferHears ==
  ASSUME Inv, Transferring
  PROVE  Quiet \/ \E event : Hears(event)
<1>1. p_state \in State \ {"Reset"}
  BY TransferFacts DEF Inv, SclInv
<1>2. CASE p_state \in {"Idle", "Start_A", "Start_B", "Stop_A", "Stop_B"}
  BY <1>2, QuietBegin, QuietCondition
<1>3. CASE p_state \in {"Start_D", "Wr_A", "Wr_E", "Rd_A", "Rd_F", "WrAck_A"}
  BY <1>3, QuietLow
<1>4. CASE p_state \in {"Wr_B", "Wr_C", "Rd_B", "Rd_C", "Rd_D", "WrAck_C", "Rd_E"}
  BY <1>4, QuietRise, QuietSend
<1>5. CASE p_state \in {"RdAck_A", "RdAck_B", "RdAck_C", "RdAck_D", "RdAck_E", "WrAck_D"}
  BY <1>5, QuietAnswer
<1>6. CASE p_state \in {"Start_C", "Stop_C", "Wr_D", "WrAck_B", "Done", "DoneAck"}
  BY <1>6, HearsStart, HearsStop, HearsWrite, HearsRead, QuietEnd
<1> QED
  BY <1>1, <1>2, <1>3, <1>4, <1>5, <1>6 DEF State, Quarter

(* An event of the transfer is the next one of the script.                  *)
LEMMA HearsScript ==
  ASSUME CallShape, step \in DOMAIN call, NEW event, Hears(event)
  PROVE  /\ Before(step) + Progress + 1 \in 1 .. Len(Script)
         /\ Matches(event, Script[Before(step) + Progress + 1])
<1> DEFINE s == One(Current.control.start)
           t == One(Current.control.stop)
           e == Expected(Current)
           b == Before(step)
           p == Progress
<1>1. /\ Kind(step) /\ b \in Nat /\ Size(step) = s + 1 + t
      /\ \A j \in 1 .. Size(step) : b + j \in 1 .. Len(Script) /\ Script[b + j] = e[j]
  BY Kinds, Places, ScriptAt DEF Current
<1>2. /\ s = 1 => e[1].what = "START"
      /\ Current.data # <<>> => e[s + 1].what = "WRITE" /\ e[s + 1].byte = Current.data[1]
      /\ Current.data = <<>> => e[s + 1].what = "READ" /\ e[s + 1].ack = Current.control.ack
      /\ t = 1 => e[s + 2].what = "STOP"
  BY <1>1, EventsOf DEF Current
<1>3. /\ s = IF Current.control.start THEN 1 ELSE 0
      /\ t = IF Current.control.stop THEN 1 ELSE 0
      /\ Started = s
  BY DEF One, Started
<1>4. \/ event.what = "START" /\ p = 0 /\ s = 1
      \/ /\ event.what = "WRITE" /\ p = s /\ Current.data # <<>>
         /\ event.byte = Current.data[1]
      \/ /\ event.what = "READ" /\ p = s /\ Current.data = <<>>
         /\ event.ack = Current.control.ack
      \/ event.what = "STOP" /\ p = s + 1 /\ t = 1
  BY <1>3 DEF Hears
<1> HIDE DEF s, t, e, b, p
<1>5. p \in Nat /\ p + 1 \in 1 .. Size(step) /\ b + p + 1 = b + (p + 1)
  BY <1>1, <1>3, <1>4
<1>6. Matches(event, e[p + 1])
  BY <1>2, <1>3, <1>4 DEF Matches
<1>7. b + (p + 1) \in 1 .. Len(Script) /\ Script[b + (p + 1)] = e[p + 1]
  BY <1>1, <1>5
<1>8. b + p + 1 \in 1 .. Len(Script) /\ Matches(event, Script[b + p + 1])
  BY <1>5, <1>6, <1>7
<1> QED
  BY <1>8 DEF b, p

LEMMA TransferHeard ==
  ASSUME Inv, Transferring
  PROVE  HeardInv' /\ ValueInv' /\ ReturnInv'
<1>1. /\ call # <<>> /\ call' = call /\ step' = step /\ step \in DOMAIN call
      /\ pc = "wait_after" /\ pc' = "wait_after" /\ CallShape
      /\ Current' = Current /\ Started' = Started /\ Started \in {0, 1}
  BY TransferFacts, ProgressFacts DEF Inv, DriverInv
<1>2. /\ step \in Nat /\ Before(step) \in Nat /\ (\A k : Before(k)' = Before(k))
      /\ Script' = Script /\ ReadShape' = ReadShape
      /\ ByteAt' = ByteAt /\ ByteAt = Before(step) + Started + 1
  BY <1>1, Places, SameCall DEF ByteAt
<1>3. /\ heard \in Seq(Events) /\ Len(heard) \in Nat /\ DOMAIN heard = 1 .. Len(heard)
      /\ Len(heard) = Before(step) + Progress
      /\ \A k \in DOMAIN heard : Matches(heard[k], Script[k])
      /\ \A k \in 1 .. Before(step) : ~Refused(k)
      /\ Len(heard) >= ByteAt /\ Current.data # <<>> => heard[ByteAt].ack = AnswerBit
      /\ Len(heard) >= ByteAt /\ Current.data = <<>> => heard[ByteAt].byte = i_dout
  BY <1>1, LenProperties DEF Inv, HeardInv, Idling
<1>4. ReturnInv'
  BY <1>1 DEF ReturnInv, Idling
<1>5. ReadShape /\ step > 3 => Before(step) = step + 1
  <2>1. ReadShape => call[3].control.start
    BY Written, Commands DEF ReadShape
  <2> QED
    BY <1>2, <2>1 DEF Before
<1>6. value' = value
  BY DEF Transferring, driverVars
<1>7. CASE Quiet
  <2>1. heard' = heard /\ Progress' = Progress
    BY <1>7 DEF Quiet
  <2>2. Len(heard) >= ByteAt => Progress > Started
    <3>1. Progress \in Nat
      BY <1>1 DEF Progress
    <3> QED
      BY <1>1, <1>2, <1>3, <3>1
  <2>3. /\ Len(heard) >= ByteAt /\ Current.data # <<>> => heard[ByteAt].ack = AnswerBit'
        /\ Len(heard) >= ByteAt /\ Current.data = <<>> => heard[ByteAt].byte = i_dout'
    BY <1>3, <1>7, <2>2 DEF Quiet
  <2>4. HeardInv'
    BY <1>1, <1>2, <1>3, <2>1, <2>3 DEF HeardInv, Refused
  <2>5. ValueInv'
    BY <1>1, <1>2, <1>6, <2>1 DEF Inv, ValueInv, Idling
  <2> QED
    BY <1>4, <2>4, <2>5
<1>8. ASSUME NEW event, Hears(event) PROVE HeardInv' /\ ValueInv' /\ ReturnInv'
  <2> DEFINE l == Len(heard)
  <2>1. /\ event \in Events /\ heard' = Append(heard, event) /\ Progress' = Progress + 1
        /\ Progress \in Nat
    BY <1>1, <1>8 DEF Hears
  <2>2. /\ heard' \in Seq(Events) /\ Len(heard') = l + 1
        /\ \A k \in 1 .. l : heard'[k] = heard[k]
        /\ heard'[l + 1] = event /\ DOMAIN heard' = 1 .. l + 1
    BY <1>3, <2>1, AppendProperties, LenProperties
  <2>3. Matches(event, Script[l + 1])
    BY <1>1, <1>3, <1>8, HearsScript
  <2>4. \A k \in DOMAIN heard' : Matches(heard'[k], Script'[k])
    BY <1>2, <1>3, <2>2, <2>3
  <2>5. \A k \in 1 .. Before(step) : heard'[k] = heard[k]
    BY <1>2, <1>3, <2>1, <2>2
  <2>6. \A k \in 1 .. Before(step) : ~Refused(k)'
    BY <1>3, <2>5 DEF Refused
  <2>7. /\ l + 1 >= ByteAt /\ Current.data # <<>> => heard'[ByteAt].ack = AnswerBit'
        /\ l + 1 >= ByteAt /\ Current.data = <<>> => heard'[ByteAt].byte = i_dout'
    <3>1. CASE event.what = "START"
      <4>1. l + 1 < ByteAt
        BY <1>1, <1>2, <1>3, <1>8, <3>1 DEF Hears, Started
      <4> QED
        BY <1>2, <1>3, <4>1
    <3>2. CASE event.what \in {"WRITE", "READ"}
      <4>1. l + 1 = ByteAt
        BY <1>1, <1>2, <1>3, <1>8, <3>2 DEF Hears
      <4> QED
        BY <1>8, <2>2, <3>2, <4>1 DEF Hears
    <3>3. CASE event.what = "STOP"
      <4>1. l = ByteAt /\ ByteAt \in 1 .. l
        BY <1>1, <1>2, <1>3, <1>8, <3>3 DEF Hears
      <4>2. i_dout' = i_dout /\ (Current.data # <<>> => AnswerBit' = AnswerBit)
        BY <1>8, <3>3 DEF Hears
      <4> QED
        BY <1>3, <2>2, <4>1, <4>2
    <3> QED
      BY <1>8, <3>1, <3>2, <3>3 DEF Hears
  <2>8. HeardInv'
    <3>1. Len(heard') = Before(step) + Progress'
      BY <1>2, <1>3, <2>1, <2>2
    <3> QED
      BY <1>1, <1>2, <2>2, <2>4, <2>6, <2>7, <3>1 DEF HeardInv
  <2>9. ValueInv'
    <3>1. CASE ~ReadShape
      BY <1>2, <1>6, <3>1 DEF Inv, ValueInv
    <3>2. CASE ReadShape
      <4> DEFINE m == IF step <= 3 THEN 0 ELSE step - 4
      <4>1. value = [j \in 1 .. m |-> heard[j + 5].byte]
        BY <1>1, <3>2 DEF Inv, ValueInv, Idling
      <4>2. \A j \in 1 .. m : j + 5 \in 1 .. Before(step)
        BY <1>2, <1>5, <3>2
      <4>3. value = [j \in 1 .. m |-> heard'[j + 5].byte]
        BY <2>5, <4>1, <4>2
      <4> QED
        BY <1>1, <1>2, <1>6, <3>2, <4>3 DEF ValueInv, Idling
    <3> QED
      BY <3>1, <3>2
  <2> QED
    BY <1>4, <2>8, <2>9
<1> QED
  BY <1>7, <1>8, TransferHears

(* A clock of a transfer keeps the invariant. *)
LEMMA TransferKeeps ==
  ASSUME Inv, Transferring, irq' \in BOOLEAN
  PROVE  Inv'
BY TransferRegisters, TransferHandshake, TransferLines, TransferDevice, TransferHeard DEF Inv

----------------------------------------------------------------------------
(* A clock between two transfers: the lines and the device rest, and the    *)
(* bus may be accessed.                                                     *)

Resting == ~i_tip_reg /\ Wires

(* What an access writes. *)
Writable ==
  /\ irq' \in BOOLEAN /\ i_int_pe_reg' \in BOOLEAN /\ i_cmd_done_ack' = FALSE
  /\ control' \in Control /\ i_data_reg' \in Byte
  /\ i_clkdiv_reg' \in Divisors \union {ResetDivisor}

LEMMA Rests ==
  ASSUME Inv, Resting
  PROVE  /\ p_state \in {"Reset", "Idle", "DoneAck"} /\ p_state' = "Idle"
         /\ p_state = "DoneAck" => pc = "wait_after"
         /\ scl_in = scl_out /\ scl_in' = scl_out /\ scl_out' = scl_out
         /\ UNCHANGED <<mode, count, pull, shift, heard, i_dout, i_ack_out>>
         /\ i_ctr' \in 0 .. Bits - 1
         /\ cmd_done' <=> p_state = "DoneAck"
         /\ data_out = i_dout /\ ack_out = i_ack_out
         /\ data_out' = i_dout' /\ ack_out' = i_ack_out'
<1>1. p_state \in {"Reset", "Idle", "DoneAck"}
  BY DEF Inv, HandshakeInv, Busy, Resting
<1>2. /\ p_state = "DoneAck" => pc = "wait_after" /\ i_cmd_done_ack
      /\ p_state = "Idle" => FirstState(control) = "Idle"
  BY DEF Inv, HandshakeInv, Resting, i_tip_reg, FirstState
<1>3. p_state' = "Idle"
  BY <1>1, <1>2, Moves DEF Inv, SclInv, Resting, n_state, Quarter, Successor
<1>4. scl_in = scl_out /\ (p_state = "Reset" => scl_in = 1)
  BY <1>1 DEF Inv, SclInv, High, Still
<1>5. scl_in' = scl_out /\ scl_out' = scl_out
  BY <1>1, <1>4, CoreFacts DEF Resting, Wires, CoreEdge, Outputs, i_scl_out, Holding
<1>6. UNCHANGED <<mode, count, pull, shift, heard>>
  <2>1. scl_in = 1 => sda(pull) = sda_in
    BY <1>1, <1>4 DEF Inv, SdaInv
  <2> QED
    BY <1>4, <2>1, DeviceStep DEF Inv, Resting
<1>7. i_dout' = i_dout /\ i_ack_out' = i_ack_out /\ data_out' = i_dout /\ ack_out' = i_ack_out
  BY <1>1, CoreFacts DEF Resting
<1>8. data_out = i_dout /\ ack_out = i_ack_out
  BY <1>1 DEF Inv, DevicePart, CommandInv
<1>9. i_ctr' \in 0 .. Bits - 1
  <2>1. i_ctr' = IF p_state = "Idle" THEN 0 ELSE i_ctr
    BY <1>1, CoreFacts DEF Resting
  <2> QED
    BY <2>1, BitsAssumption DEF Inv, DevicePart, DeviceInv
<1>10. cmd_done' <=> p_state = "DoneAck"
  BY <1>1 DEF Resting, Wires, CoreEdge, Outputs, i_cmd_done
<1> QED
  BY <1>1, <1>2, <1>3, <1>4, <1>5, <1>6, <1>7, <1>8, <1>9, <1>10

(* Between two transfers the device does not hold an answer. *)
LEMMA RestsAwake ==
  ASSUME Inv, Resting
  PROVE  /\ pc \in {"wait_before", "data", "control"} => Ready
         /\ pc \in {"wait_after", "status", "value"} => DoneInv
         /\ Idling \/ pc = "abort" => Asleep
         /\ mode \in {"asleep", "send", "receive"}
         /\ scl_out = 1 => Asleep
         /\ AnswerBit = i_ack_out /\ AnswerBit' = i_ack_out
<1>1. /\ p_state \in {"Reset", "Idle", "DoneAck"}
      /\ p_state = "DoneAck" => pc = "wait_after"
      /\ p_state = "Reset" => pc \in {"returned", "wait_before"} /\ scl_out = 1
      /\ mode' = mode /\ shift' = shift /\ i_ack_out' = i_ack_out
  BY Rests DEF Inv, HandshakeInv, SclInv, High
<1>2. ~i_tip_reg
  BY DEF Resting
<1>3. /\ pc \in {"wait_before", "data", "control"} => Ready
      /\ pc \in {"wait_after", "status", "value"} => DoneInv
      /\ pc = "abort" => Asleep
  BY <1>2 DEF Inv, DevicePart, DeviceInv
<1>4. Idling => Asleep
  BY <1>1 DEF Inv, DevicePart, DeviceInv, Idling
<1>5. mode \in {"asleep", "send", "receive"}
  <2>1. pc \in {"wait_before", "data", "control", "wait_after", "status", "value", "abort"} \/ Idling
    BY DEF Inv, DriverInv, Idling
  <2>2. Ready => mode \in {"asleep", "send", "receive"}
    BY DEF Ready, Asleep, Sending, Waiting
  <2>3. DoneInv => mode \in {"asleep", "send", "receive"}
    BY DEF DoneInv, Left, Asleep, Sending, Waiting
  <2>4. Asleep => mode \in {"asleep", "send", "receive"}
    BY DEF Asleep
  <2> QED
    BY <1>3, <1>4, <2>1, <2>2, <2>3, <2>4
<1>6. scl_out = 1 => Asleep
  <2>1. CASE p_state = "Reset"
    <3>1. Ready /\ scl_out = 1 => Asleep
      BY DEF Ready, Held
    <3> QED
      BY <1>1, <1>3, <1>4, <2>1, <3>1 DEF Idling
  <2>2. CASE p_state # "Reset"
    BY <1>1, <2>2 DEF Inv, DevicePart, DeviceInv, Still
  <2> QED
    BY <2>1, <2>2
<1>7. AnswerBit = i_ack_out /\ AnswerBit' = i_ack_out
  BY <1>1, <1>5 DEF AnswerBit, Answering
<1> QED
  BY <1>3, <1>4, <1>5, <1>6, <1>7

LEMMA RestHardware ==
  ASSUME Inv, Resting, Writable
  PROVE  /\ Registers' /\ ClockInv' /\ SclInv' /\ SdaInv'
         /\ WriteInv' /\ ReadInv' /\ CommandInv'
<1>1. Registers'
  BY RegistersStep DEF Inv, Resting, Writable
<1>2. i_clkdiv_reg' \in Nat \ {0}
  BY DivisorAssumption DEF Writable
<1>3. ClockInv' /\ ~(sclk /\ sclk') /\ sclk \in BOOLEAN
  BY <1>2, ClockStep DEF Inv, Resting, ClockInv
<1>4. SclInv'
  BY <1>3, Rests, SclStep DEF Inv, Resting
<1>5. SdaInv'
  <2>1. /\ i_data_reg \in Byte /\ control.ack \in Bit /\ i_ctr \in 0 .. Bits - 1 /\ ~Busy
    BY Rests DEF Inv, Registers, Control, DevicePart, DeviceInv, Busy
  <2>2. LetGo /\ pull' \in Bit
    BY DeviceLetsGo, PullStep DEF Resting
  <2> QED
    BY <1>3, <1>4, <2>1, <2>2, SdaStep DEF Inv, Resting
<1>6. WriteInv' /\ ReadInv'
  BY Rests DEF WriteInv, ReadInv
<1>7. CommandInv'
  BY Rests DEF CommandInv
<1> QED
  BY <1>1, <1>3, <1>4, <1>5, <1>6, <1>7

(* The accesses of the program. *)
Allowed(access) ==
  \/ access = NoAccess
  \/ access = Read("STATUS")
  \/ access = Read("DATA")
  \/ \E divisor \in Divisors : access = Write("CLOCK_DIVISOR", divisor)
  \/ \E command \in Control : access = Write("CONTROL", command)
  \/ \E byte \in Byte : access = Write("DATA", byte)

LEMMA RestAccess ==
  ASSUME Inv, ~i_tip_reg, NEW access, Access(access), Allowed(access)
  PROVE  /\ Resting /\ Writable
         /\ access.address # "CONTROL" => control' = control
         /\ \A command : access = Write("CONTROL", command) => control' = command
         /\ access.address # "DATA" => i_data_reg' = i_data_reg
         /\ \A byte : access = Write("DATA", byte) => i_data_reg' = byte
<1>1. Resting /\ BusWrite(access)
  BY AccessIsClock DEF Resting
<1>2. irq' \in BOOLEAN
  BY DEF Access, InterfaceEdge, Inv, Registers, Control
<1>3. i_int_pe_reg' \in BOOLEAN /\ i_cmd_done_ack' = FALSE
  BY <1>1 DEF BusWrite, Inv, Registers
<1>4. /\ access.address # "CONTROL" => control' = control
      /\ access.address # "DATA" => i_data_reg' = i_data_reg
      /\ access.address # "CLOCK_DIVISOR" => i_clkdiv_reg' = i_clkdiv_reg
  BY <1>1 DEF BusWrite
<1>5. \A command : access = Write("CONTROL", command) => control' = command
  BY <1>1 DEF BusWrite, Write
<1>6. \A byte : access = Write("DATA", byte) => i_data_reg' = byte
  BY <1>1 DEF BusWrite, Write
<1>7. \A divisor : access = Write("CLOCK_DIVISOR", divisor) => i_clkdiv_reg' = divisor
  BY <1>1 DEF BusWrite, Write
<1>8. control \in Control /\ i_data_reg \in Byte /\ i_clkdiv_reg \in Divisors \union {ResetDivisor}
  BY DEF Inv, Registers
<1>9. /\ access = NoAccess => access.address = "NONE"
      /\ access = Read("STATUS") => access.address = "STATUS"
      /\ access = Read("DATA") => access.address = "DATA" /\ ~access.write
      /\ \A x : access = Write("CLOCK_DIVISOR", x) => access.address = "CLOCK_DIVISOR"
      /\ \A x : access = Write("CONTROL", x) => access.address = "CONTROL"
      /\ \A x : access = Write("DATA", x) => access.address = "DATA"
  BY DEF NoAccess, Read, Write
<1>10. access = Read("DATA") => i_data_reg' = i_data_reg
  BY <1>1, <1>9 DEF BusWrite
<1>11. control' \in Control /\ i_data_reg' \in Byte
       /\ i_clkdiv_reg' \in Divisors \union {ResetDivisor}
  BY <1>4, <1>5, <1>6, <1>7, <1>8, <1>9, <1>10 DEF Allowed
<1> QED
  BY <1>1, <1>2, <1>3, <1>4, <1>5, <1>6, <1>11 DEF Writable

(* The device, if the program finds it as it expects it. *)
LEMMA RestDevice ==
  ASSUME Inv, Resting, Writable,
         pc' \in {"wait_before", "data", "control"} \/ i_tip_reg' => Ready',
         pc' \in {"status", "value"} \/ (pc' = "wait_after" /\ ~i_tip_reg') => DoneInv',
         Idling' \/ pc' = "abort" => Asleep
  PROVE  DevicePart'
<1>1. /\ p_state' = "Idle" /\ i_ctr' \in 0 .. Bits - 1
      /\ UNCHANGED <<mode, count, pull, shift>> /\ scl_out' = scl_out
  BY Rests
<1>2. WriteInv' /\ ReadInv' /\ CommandInv'
  BY RestHardware
<1>3. mode \in D!Mode /\ shift \in Byte /\ count \in Nat
  BY DEF Inv, DevicePart, DeviceInv
<1>4. Asleep' = Asleep
  BY <1>1 DEF Asleep
<1>5. scl_out' = 1 => Asleep'
  BY <1>1, <1>4, RestsAwake
<1>6. DeviceInv'
  BY <1>1, <1>3, <1>4, <1>5 DEF DeviceInv
<1> QED
  BY <1>2, <1>6 DEF DevicePart

LEMMA RestProgress ==
  ASSUME Inv, Resting, ~Idling
  PROVE  Progress = IF pc \in {"wait_before", "data", "control"} THEN 0
                    ELSE Started + (IF Current.control.stop THEN 2 ELSE 1)
<1>1. p_state \in {"Reset", "Idle", "DoneAck"} /\ ~i_tip_reg
  BY Rests DEF Resting
<1> QED
  BY <1>1 DEF Progress

(* The program goes to its next access, and the device hears nothing. *)
Steady ==
  /\ UNCHANGED <<call, step, value, result>>
  /\ Idling' <=> Idling
  /\ ~Idling => (pc' \in {"wait_before", "data", "control"} \/ i_tip_reg'
                   <=> pc \in {"wait_before", "data", "control"})

LEMMA SteadyHeard ==
  ASSUME Inv, Resting, Steady
  PROVE  HeardInv' /\ ValueInv' /\ ReturnInv'
<1>1. /\ p_state' = "Idle"
      /\ UNCHANGED <<heard, i_dout, i_ack_out>>
      /\ AnswerBit = i_ack_out /\ AnswerBit' = i_ack_out
  BY Rests, RestsAwake
<1>2. /\ call' = call /\ step' = step /\ value' = value /\ result' = result
      /\ Current' = Current /\ Started' = Started
      /\ CallShape' = CallShape /\ ReadShape' = ReadShape /\ Script' = Script
      /\ \A k : Before(k)' = Before(k)
  BY SameCall DEF Steady, Current, Started
<1>3. Before(step)' = Before(step) /\ ByteAt' = ByteAt
  BY <1>2 DEF ByteAt, Before
<1>4. ~Idling => Progress' = Progress
  <2>1. Progress' = IF pc' \in {"wait_before", "data", "control"} \/ i_tip_reg' THEN 0
                    ELSE Started' + (IF Current'.control.stop THEN 2 ELSE 1)
    BY <1>1 DEF Progress
  <2> QED
    BY <1>2, <2>1, RestProgress DEF Steady
<1>5. HeardInv'
  <2>1. pc' # "returned" /\ ~Idling' => pc # "returned" /\ ~Idling
    BY DEF Steady, Idling
  <2> QED
    BY <1>1, <1>2, <1>3, <1>4, <2>1 DEF Inv, HeardInv, Refused
<1>6. ValueInv'
  BY <1>1, <1>2 DEF Inv, ValueInv, Steady
<1>7. ReturnInv'
  BY <1>1, <1>2, <1>3 DEF Inv, ReturnInv, Steady
<1> QED
  BY <1>5, <1>6, <1>7

(* The program and the device are where the next access needs them.         *)
Proceeds ==
  /\ Resting /\ Writable /\ DriverInv'
  /\ i_tip_reg' =>
       /\ pc # "wait_after" /\ pc' = "wait_after" /\ control' = Current'.control
       /\ Current'.data # <<>> => i_data_reg' = Current'.data[1]
  /\ pc = "wait_after" => pc' \in {"wait_after", "status", "value"}
  /\ pc' = "control" /\ Current'.data # <<>> => i_data_reg' = Current'.data[1]
  /\ pc' \in {"wait_before", "data", "control"} \/ i_tip_reg' => Ready'
  /\ pc' \in {"status", "value"} \/ (pc' = "wait_after" /\ ~i_tip_reg') => DoneInv'
  /\ Idling' \/ pc' = "abort" => Asleep

LEMMA ProceedsKeeps ==
  ASSUME Inv, Proceeds, HeardInv', ValueInv', ReturnInv'
  PROVE  Inv'
<1>1. Resting /\ Writable /\ DriverInv'
  BY DEF Proceeds
<1>2. Registers' /\ ClockInv' /\ SclInv' /\ SdaInv'
  BY <1>1, RestHardware
<1>3. DevicePart'
  BY <1>1, RestDevice DEF Proceeds
<1>4. HandshakeInv'
  <2>1. p_state' = "Idle" /\ (cmd_done' <=> p_state = "DoneAck") /\ i_cmd_done_ack' = FALSE
        /\ (p_state = "DoneAck" => pc = "wait_after")
    BY <1>1, Rests DEF Writable
  <2> QED
    BY <2>1 DEF Proceeds, HandshakeInv, Busy
<1> QED
  BY <1>1, <1>2, <1>3, <1>4 DEF Inv

LEMMA RestSame ==
  ASSUME Inv, Resting, UNCHANGED <<call, step>>
  PROVE  Ready' = Ready /\ DoneInv' = DoneInv /\ Current' = Current
<1>1. /\ UNCHANGED <<mode, count, pull, shift, i_ack_out>>
      /\ scl_in' = scl_in /\ scl_out' = scl_out /\ Current' = Current
  BY Rests DEF Current
<1>2. Asleep' = Asleep /\ Waiting' = Waiting /\ Held' = Held /\ Sending(0)' = Sending(0)
  BY <1>1 DEF Asleep, Waiting, Held, Sending
<1>3. Left' = Left
  BY <1>1, <1>2 DEF Left, Continues
<1> QED
  BY <1>1, <1>2, <1>3 DEF Ready, DoneInv

(* The clocks without an access, and those of i2c_init and i2c_configure.   *)
LEMMA ComputeKeeps ==
  ASSUME Inv, ~i_tip_reg, NEW access, Access(access), Allowed(access),
         UNCHANGED driverVars, access.address \notin {"CONTROL", "DATA"}
  PROVE  Inv'
<1>1. /\ Resting /\ Writable /\ control' = control /\ i_data_reg' = i_data_reg
      /\ ~i_tip_reg'
  BY RestAccess DEF i_tip_reg
<1>2. pc' = pc /\ Steady /\ Idling' = Idling /\ call' = call /\ step' = step
  BY <1>1 DEF driverVars, Steady, Idling
<1>3. Ready' = Ready /\ DoneInv' = DoneInv /\ Current' = Current /\ i_ack_out' = i_ack_out
  BY <1>1, <1>2, RestSame, Rests
<1>4. DriverInv'
  BY <1>2, <1>3, SameCall DEF Inv, DriverInv
<1>5. Proceeds
  BY <1>1, <1>2, <1>3, <1>4, RestsAwake DEF Inv, HandshakeInv, Proceeds
<1> QED
  BY <1>1, <1>2, <1>5, SteadyHeard, ProceedsKeeps

(* A control byte without a command, between two calls. *)
LEMMA ConfigureKeeps ==
  ASSUME Inv, ~i_tip_reg, Idling, Idling', NEW command \in Control,
         ~command.read, ~command.write,
         Access(Write("CONTROL", command)), UNCHANGED <<call, step, value, result>>
  PROVE  Inv'
<1>1. Allowed(Write("CONTROL", command))
  BY DEF Allowed
<1>2. Resting /\ Writable /\ control' = command
  BY <1>1, RestAccess
<1>3. ~i_tip_reg'
  BY <1>2 DEF i_tip_reg
<1>4. Steady /\ pc' \notin {"wait_before", "data", "control", "wait_after", "status", "value", "abort"}
      /\ pc # "wait_after"
  BY DEF Steady, Idling
<1>5. Asleep
  BY <1>2, RestsAwake
<1>6. DriverInv'
  BY <1>4, SameCall DEF Inv, DriverInv, Current, Idling
<1>7. Proceeds
  BY <1>2, <1>3, <1>4, <1>5, <1>6 DEF Proceeds
<1> QED
  BY <1>2, <1>4, <1>7, SteadyHeard, ProceedsKeeps

(* The steps of a transfer. *)
LEMMA StepFacts ==
  ASSUME Inv, ~Idling
  PROVE  /\ call # <<>> /\ CallShape /\ step \in DOMAIN call /\ Kind(step)
         /\ Current.data # <<>> => Current.data[1] \in Byte
         /\ Current.control \in Control
         /\ Current.control.read \/ Current.control.write
<1>1. call # <<>> /\ CallShape /\ step \in DOMAIN call
  BY DEF Inv, DriverInv
<1>2. Kind(step)
  BY <1>1, Kinds
<1> QED
  BY <1>1, <1>2 DEF Kind, Current

LEMMA WaitBeforeKeeps ==
  ASSUME Inv, ~i_tip_reg, WaitBefore
  PROVE  Inv'
<1>1. Access(Read("STATUS")) /\ Allowed(Read("STATUS")) /\ Read("STATUS").address = "STATUS"
  BY DEF WaitBefore, wait_end_of_transfer, Allowed, Read
<1>2. Resting /\ Writable /\ control' = control /\ i_data_reg' = i_data_reg
  BY <1>1, RestAccess
<1>3. /\ pc = "wait_before" /\ UNCHANGED <<call, step, value, result>>
      /\ pc' = IF Current.data # <<>> THEN "data" ELSE "control"
  BY DEF WaitBefore, wait_end_of_transfer, Goto
<1>4. ~i_tip_reg' /\ Steady /\ ~Idling /\ ~Idling'
  BY <1>2, <1>3 DEF i_tip_reg, Steady, Idling
<1>5. Ready' = Ready /\ DoneInv' = DoneInv /\ Current' = Current
  BY <1>2, <1>3, RestSame
<1>6. DriverInv'
  BY <1>3, <1>4, <1>5, SameCall, StepFacts DEF DriverInv
<1>7. Proceeds
  BY <1>2, <1>3, <1>4, <1>5, <1>6, RestsAwake DEF Proceeds
<1> QED
  BY <1>2, <1>4, <1>7, SteadyHeard, ProceedsKeeps

LEMMA WriteDataKeeps ==
  ASSUME Inv, ~i_tip_reg, WriteData
  PROVE  Inv'
<1>1. pc = "data" /\ ~Idling /\ Current.data # <<>> /\ Current.data[1] \in Byte
  BY StepFacts DEF WriteData, Inv, DriverInv, Idling
<1>2. /\ Access(Write("DATA", Current.data[1])) /\ Allowed(Write("DATA", Current.data[1]))
      /\ Write("DATA", Current.data[1]).address = "DATA"
  BY <1>1 DEF WriteData, Allowed, Write
<1>3. Resting /\ Writable /\ control' = control /\ i_data_reg' = Current.data[1]
  BY <1>2, RestAccess
<1>4. pc' = "control" /\ UNCHANGED <<call, step, value, result>>
  BY DEF WriteData, Goto
<1>5. ~i_tip_reg' /\ Steady /\ ~Idling'
  BY <1>1, <1>3, <1>4 DEF i_tip_reg, Steady, Idling
<1>6. Ready' = Ready /\ DoneInv' = DoneInv /\ Current' = Current
  BY <1>3, <1>4, RestSame
<1>7. DriverInv'
  BY <1>1, <1>4, <1>5, <1>6, SameCall, StepFacts DEF DriverInv
<1>8. Proceeds
  BY <1>1, <1>3, <1>4, <1>5, <1>6, <1>7, RestsAwake DEF Proceeds
<1> QED
  BY <1>3, <1>5, <1>8, SteadyHeard, ProceedsKeeps

LEMMA WriteControlKeeps ==
  ASSUME Inv, ~i_tip_reg, WriteControl
  PROVE  Inv'
<1>1. /\ pc = "control" /\ ~Idling /\ Current.control \in Control
      /\ Current.control.read \/ Current.control.write
  BY StepFacts DEF WriteControl, Idling
<1>2. /\ Access(Write("CONTROL", Current.control)) /\ Allowed(Write("CONTROL", Current.control))
      /\ Write("CONTROL", Current.control).address = "CONTROL"
  BY <1>1 DEF WriteControl, Allowed, Write
<1>3. Resting /\ Writable /\ control' = Current.control /\ i_data_reg' = i_data_reg
  BY <1>2, RestAccess
<1>4. pc' = "wait_after" /\ UNCHANGED <<call, step, value, result>>
  BY DEF WriteControl, Goto
<1>5. i_tip_reg' /\ Steady /\ ~Idling'
  BY <1>1, <1>3, <1>4 DEF i_tip_reg, Steady, Idling
<1>6. Ready' = Ready /\ Current' = Current
  BY <1>3, <1>4, RestSame
<1>7. DriverInv'
  BY <1>4, <1>5, <1>1, <1>6, SameCall, StepFacts DEF DriverInv
<1>8. Current.data # <<>> => i_data_reg' = Current.data[1]
  BY <1>1, <1>3 DEF Inv, HandshakeInv
<1>9. Proceeds
  BY <1>1, <1>3, <1>4, <1>5, <1>6, <1>7, <1>8, RestsAwake DEF Proceeds
<1> QED
  BY <1>3, <1>5, <1>9, SteadyHeard, ProceedsKeeps

LEMMA WaitAfterKeeps ==
  ASSUME Inv, ~i_tip_reg, WaitAfter
  PROVE  Inv'
<1>1. Access(Read("STATUS")) /\ Allowed(Read("STATUS")) /\ Read("STATUS").address = "STATUS"
  BY DEF WaitAfter, wait_end_of_transfer, Allowed, Read
<1>2. Resting /\ Writable /\ control' = control /\ i_data_reg' = i_data_reg
  BY <1>1, RestAccess
<1>3. /\ pc = "wait_after" /\ UNCHANGED <<call, step, value, result>>
      /\ pc' = IF Current.data # <<>> THEN "status" ELSE "value"
  BY DEF WaitAfter, wait_end_of_transfer, Goto
<1>4. ~i_tip_reg' /\ Steady /\ ~Idling /\ ~Idling'
  BY <1>2, <1>3 DEF i_tip_reg, Steady, Idling
<1>5. DoneInv' = DoneInv /\ Current' = Current
  BY <1>2, <1>3, RestSame
<1>6. DriverInv'
  BY <1>3, <1>4, <1>5, SameCall, StepFacts DEF DriverInv
<1>7. Proceeds
  BY <1>2, <1>3, <1>4, <1>5, <1>6, RestsAwake DEF Proceeds
<1> QED
  BY <1>2, <1>4, <1>7, SteadyHeard, ProceedsKeeps

(* The end of a transfer that the device has not refused.                   *)
Ends ==
  /\ Resting /\ ~i_tip_reg' /\ Writable
  /\ pc \in {"status", "value"} /\ NextTransfer /\ call' = call
  /\ IF pc = "status" THEN i_ack_out = 0 /\ value' = value
     ELSE value' = Append(value, i_dout)

LEMMA EndsFacts ==
  ASSUME Inv, Ends
  PROVE  /\ pc = "status" <=> Current.data # <<>>
         /\ Len(heard) = ByteAt + One(Current.control.stop)
         /\ Started = One(Current.control.start) /\ Started \in {0, 1}
         /\ ByteAt = Before(step) + Started + 1 /\ ByteAt \in Nat /\ Before(step) \in Nat
         /\ Told(step)
         /\ Current.data # <<>> => heard[ByteAt].ack = 0
         /\ Current.data = <<>> => heard[ByteAt].byte = i_dout /\ ReadShape /\ step > 3
         /\ \A k \in 1 .. ByteAt : ~Refused(k)
<1>1. /\ ~Idling /\ call # <<>> /\ CallShape /\ step \in DOMAIN call /\ Kind(step)
      /\ step \in Nat /\ Before(step) \in Nat
  BY StepFacts, Places DEF Ends, Idling
<1>2. pc = "status" <=> Current.data # <<>>
  BY DEF Ends, Inv, DriverInv
<1>3. Started = One(Current.control.start) /\ Started \in {0, 1}
      /\ ByteAt = Before(step) + Started + 1 /\ ByteAt \in Nat
  BY <1>1 DEF Started, One, ByteAt
<1>4. Len(heard) = ByteAt + One(Current.control.stop)
  <2>1. Len(heard) = Before(step) + Progress
    BY <1>1 DEF Inv, HeardInv, Idling
  <2>2. Progress = Started + (IF Current.control.stop THEN 2 ELSE 1)
    BY <1>1, RestProgress DEF Ends
  <2> QED
    BY <1>1, <1>3, <2>1, <2>2 DEF One
<1>5. heard \in Seq(Events) /\ Told(step)
  BY <1>1, HeardOf DEF Inv, HeardInv
<1>6. Len(heard) >= ByteAt
  BY <1>3, <1>4 DEF One
<1>7. /\ Current.data # <<>> => heard[ByteAt].ack = 0
      /\ Current.data = <<>> => heard[ByteAt].byte = i_dout
  BY <1>1, <1>2, <1>6, RestsAwake DEF Ends, Inv, HeardInv
<1>8. Current.data = <<>> => ReadShape /\ step > 3
  BY <1>1, Written DEF Kind, Current, CallShape, WriteShape
<1>9. \A k \in 1 .. ByteAt : ~Refused(k)
  <2>1. \A k \in 1 .. Before(step) : ~Refused(k)
    BY <1>1 DEF Inv, HeardInv
  <2>2. Started = 1 => ~Refused(ByteAt - 1)
    <3>1. Started = 1 => Current.control.start
      BY <1>3 DEF One
    <3>2. Started = 1 => heard[ByteAt - 1].what = "START"
      BY <1>3, <1>5, <1>6, <3>1 DEF Told, Current
    <3> QED
      BY <3>2 DEF Refused
  <2>3. ~Refused(ByteAt)
    <3>1. Current.data = <<>> => heard[ByteAt].what = "READ"
      BY <1>3, <1>5, <1>6 DEF Told, Current
    <3> QED
      BY <1>7, <3>1 DEF Refused
  <2>4. \A k \in 1 .. ByteAt :
          k \in 1 .. Before(step) \/ (k = ByteAt - 1 /\ Started = 1) \/ k = ByteAt
    BY <1>1, <1>3
  <2> QED
    BY <2>1, <2>2, <2>3, <2>4
<1> QED
  BY <1>1, <1>2, <1>3, <1>4, <1>5, <1>7, <1>8, <1>9

(* The values are the bytes read, one more after a read.                    *)
LEMMA EndsValue ==
  ASSUME Inv, Ends
  PROVE  /\ ~ReadShape => value' = <<>>
         /\ ReadShape => value' = [j \in 1 .. (IF step <= 3 THEN 0 ELSE step - 3)
                                     |-> heard[j + 5].byte]
<1>1. /\ step \in DOMAIN call /\ CallShape /\ ~Idling /\ step \in Nat
      /\ pc = "status" <=> Current.data # <<>>
  BY StepFacts, EndsFacts, Places DEF Ends, Idling
<1>2. CASE ~ReadShape
  <2>1. pc = "status" /\ value = <<>>
    BY <1>1, <1>2, EndsFacts DEF Inv, ValueInv
  <2> QED
    BY <1>2, <2>1 DEF Ends
<1>3. CASE ReadShape
  <2> DEFINE m == IF step <= 3 THEN 0 ELSE step - 4
  <2>1. value = [j \in 1 .. m |-> heard[j + 5].byte]
    BY <1>1, <1>3 DEF Inv, ValueInv
  <2>2. step > 3 <=> Current.data = <<>>
    <3>1. step > 3 => step \in 4 .. Len(call)
      BY <1>1, Places
    <3>2. step > 3 => Current.data = <<>>
      BY <1>3, <3>1, Asked DEF ReadShape, Current
    <3> QED
      BY <1>1, <3>2, EndsFacts
  <2>3. CASE step <= 3
    <3>1. value' = value
      BY <1>1, <2>2, <2>3 DEF Ends
    <3> QED
      BY <1>3, <2>1, <2>3, <3>1
  <2>4. CASE step > 3
    <3>1. value' = Append(value, i_dout)
      BY <1>1, <2>2, <2>4 DEF Ends
    <3>2. heard[ByteAt].byte = i_dout /\ Started = 0 /\ ByteAt = Before(step) + 1
      <4>1. Kind(step)
        BY <1>1, StepFacts
      <4>2. ~Current.control.start
        BY <2>2, <2>4, <4>1 DEF Kind, Current
      <4> QED
        BY <2>2, <2>4, <4>2, EndsFacts DEF Started
    <3>3. Before(step) = step + 1
      <4>1. call[3].control.start
        BY <1>3, Written, Commands DEF ReadShape
      <4> QED
        BY <1>1, <2>4, <4>1 DEF Before
    <3>4. heard[step + 2].byte = i_dout
      BY <1>1, <3>2, <3>3
    <3>5. m \in Nat /\ m + 1 = step - 3 /\ m + 1 + 5 = step + 2
      BY <1>1, <2>4
    <3> HIDE DEF m
    <3>6. Append([j \in 1 .. m |-> heard[j + 5].byte], i_dout)
            = [j \in 1 .. m + 1 |-> heard[j + 5].byte]
      <4> DEFINE s == [j \in 1 .. m |-> heard[j + 5].byte]
                 t == [j \in 1 .. m + 1 |-> heard[j + 5].byte]
                 S == {heard[j + 5].byte : j \in 1 .. m + 1}
      <4>0. i_dout \in S
        <5>1. heard[m + 1 + 5].byte = i_dout /\ m + 1 \in 1 .. m + 1
          BY <3>4, <3>5
        <5> QED
          BY <5>1
      <4>1. s \in Seq(S) /\ t \in Seq(S) /\ Len(s) = m /\ Len(t) = m + 1
        <5>1. 1 .. m \subseteq 1 .. m + 1
          BY <3>5
        <5>2. s \in [1 .. m -> S] /\ t \in [1 .. m + 1 -> S]
          BY <5>1
        <5> HIDE DEF s, t, S
        <5>3. s \in Seq(S) /\ Len(s) = m
          <6>1. s \in Seq(S) /\ DOMAIN s = 1 .. m /\ m \in Nat
            BY <3>5, <5>2, SeqDef
          <6>2. Len(s) \in Nat /\ DOMAIN s = 1 .. Len(s)
            BY <6>1, LenProperties
          <6> QED
            BY <3>5, <6>1, <6>2
        <5>4. t \in Seq(S) /\ Len(t) = m + 1
          <6>1. t \in Seq(S) /\ DOMAIN t = 1 .. m + 1 /\ m + 1 \in Nat
            BY <3>5, <5>2, SeqDef
          <6>2. Len(t) \in Nat /\ DOMAIN t = 1 .. Len(t)
            BY <6>1, LenProperties
          <6> QED
            BY <3>5, <6>1, <6>2
        <5> QED
          BY <5>3, <5>4
      <4>2. /\ Append(s, i_dout) \in Seq(S) /\ Len(Append(s, i_dout)) = m + 1
            /\ \A j \in 1 .. m : Append(s, i_dout)[j] = s[j]
            /\ Append(s, i_dout)[m + 1] = i_dout
        <5> HIDE DEF s, S
        <5>1. /\ Append(s, i_dout) \in Seq(S) /\ Len(Append(s, i_dout)) = Len(s) + 1
              /\ \A j \in 1 .. Len(s) : Append(s, i_dout)[j] = s[j]
              /\ Append(s, i_dout)[Len(s) + 1] = i_dout
          BY <4>0, <4>1, AppendProperties
        <5> QED
          BY <4>1, <5>1
      <4>3. \A j \in 1 .. m + 1 : Append(s, i_dout)[j] = t[j]
        BY <3>4, <3>5, <4>2
      <4> HIDE DEF s, t, S
      <4>4. Append(s, i_dout) = t
        BY <4>1, <4>2, <4>3, SeqEqual
      <4> QED
        BY <4>4 DEF s, t
    <3> QED
      BY <1>1, <1>3, <2>1, <2>4, <3>1, <3>5, <3>6
  <2> QED
    BY <1>1, <2>3, <2>4
<1> QED
  BY <1>2, <1>3

LEMMA EndsSame ==
  ASSUME Inv, Ends
  PROVE  /\ call # <<>> /\ CallShape' /\ ReadShape' = ReadShape /\ Script' = Script
         /\ call' = call /\ (\A k : Before(k)' = Before(k))
         /\ heard' = heard /\ i_ack_out' = i_ack_out /\ i_dout' = i_dout
         /\ heard \in Seq(Events) /\ (\A k \in DOMAIN heard : Matches(heard[k], Script[k]))
         /\ pc # "wait_after" /\ ~i_tip_reg' /\ Resting /\ Writable
<1>1. Resting /\ Writable /\ ~i_tip_reg' /\ call' = call /\ pc # "wait_after" /\ ~Idling
  BY DEF Ends, Idling
<1>2. call # <<>> /\ CallShape
  BY <1>1, StepFacts
<1>3. heard' = heard /\ i_ack_out' = i_ack_out /\ i_dout' = i_dout
  BY <1>1, Rests
<1>4. heard \in Seq(Events) /\ (\A k \in DOMAIN heard : Matches(heard[k], Script[k]))
  BY <1>2 DEF Inv, HeardInv
<1> QED
  BY <1>1, <1>2, <1>3, <1>4, SameCall

(* The next transfer finds the device as this one has left it. *)
LEMMA NextReady ==
  ASSUME Inv, Ends, step < Len(call), step' = step + 1
  PROVE  Ready'
<1>1. /\ step \in DOMAIN call /\ CallShape /\ Kind(step) /\ step \in Nat /\ ~Idling
      /\ call' = call /\ Resting
  BY StepFacts, Places DEF Ends, Idling
<1>2. ~Current.control.stop /\ step \in 1 .. Len(call) /\ Len(call) \in Nat
  BY <1>1, Places DEF Kind, Current
<1>3. Held /\ Left
  BY <1>1, <1>2, RestsAwake DEF Ends, DoneInv
<1>4. ~(IF Current.data # <<>> THEN i_ack_out = 1 ELSE Current.control.ack = 1)
  <2>1. Current.data # <<>> => i_ack_out = 0
    BY EndsFacts DEF Ends
  <2>2. Current.data = <<>> => Current.control.ack # 1
    BY <1>1, <1>2 DEF Kind, Current
  <2> QED
    BY <2>1, <2>2
<1>5. IF Continues THEN Sending(0) ELSE Waiting
  BY <1>3, <1>4 DEF Left
<1>6. Current'.data = <<>> <=> Continues
  <2>1. Current' = call[step + 1]
    BY <1>1 DEF Current
  <2> QED
    BY <1>1, <1>2, <2>1 DEF Kind, Current, Continues
<1>7. /\ UNCHANGED <<mode, count, pull, shift>>
      /\ scl_in' = scl_in /\ scl_out' = scl_out
  BY <1>1, Rests
<1>8. Waiting' = Waiting /\ Held' = Held /\ Sending(0)' = Sending(0) /\ step' # 1
  BY <1>1, <1>2, <1>7 DEF Waiting, Held, Sending
<1> QED
  BY <1>3, <1>5, <1>6, <1>8 DEF Ready

LEMMA NextKeeps ==
  ASSUME Inv, Ends, step < Len(call)
  PROVE  Inv'
<1>1. /\ step' = step + 1 /\ pc' = "wait_before" /\ result' = result
      /\ step \in DOMAIN call /\ CallShape /\ Kind(step)
      /\ step \in Nat /\ Len(call) \in Nat /\ DOMAIN call = 1 .. Len(call)
      /\ ~Idling /\ ~Idling'
  BY StepFacts, Places DEF Ends, NextTransfer, Idling
<1>2. step + 1 \in DOMAIN call /\ Before(step + 1) \in Nat
      /\ Before(step + 1) = Before(step) + Size(step)
      /\ Size(step) = One(Current.control.start) + 1 + One(Current.control.stop)
      /\ Started' \in {0, 1}
  <2>1. step + 1 \in DOMAIN call
    BY <1>1
  <2> QED
    BY <1>1, <2>1, Places DEF Current, Started
<1>3. ~Current.control.stop
  BY <1>1 DEF Kind, Current
<1>4. Before(step + 1) = ByteAt /\ Len(heard) = ByteAt
  BY <1>2, <1>3, EndsFacts DEF One
<1>5. Before(step)' = Before(step + 1)
  BY <1>1, EndsSame DEF Before
<1>6. DriverInv'
  BY <1>1, <1>2, EndsSame DEF DriverInv
<1>7. Proceeds
  BY <1>1, <1>6, EndsSame, NextReady DEF Proceeds
<1>8. HeardInv'
  <2>1. Progress' = 0
    BY <1>1 DEF Progress
  <2>2. ByteAt' > Len(heard)
    BY <1>2, <1>4, <1>5 DEF ByteAt
  <2>3. Len(heard') = Before(step)' + Progress'
    BY <1>2, <1>4, <1>5, <2>1, EndsSame
  <2>4. \A k \in 1 .. Before(step)' : ~Refused(k)'
    BY <1>4, <1>5, EndsSame, EndsFacts DEF Refused
  <2>5. ByteAt' \in Nat /\ Len(heard) \in Nat /\ ~(Len(heard) >= ByteAt')
    BY <1>2, <1>4, <1>5, <2>2 DEF ByteAt
  <2> QED
    BY <2>3, <2>4, <2>5, EndsSame DEF HeardInv
<1>9. ValueInv'
  <2>1. (IF step' <= 3 THEN 0 ELSE IF Idling' THEN step' - 3 ELSE step' - 4)
          = IF step <= 3 THEN 0 ELSE step - 3
    BY <1>1
  <2> QED
    BY <2>1, EndsSame, EndsValue DEF ValueInv
<1>10. ReturnInv'
  BY <1>1 DEF ReturnInv
<1> QED
  BY <1>7, <1>8, <1>9, <1>10, ProceedsKeeps

LEMMA LastKeeps ==
  ASSUME Inv, Ends, ~(step < Len(call))
  PROVE  Inv'
<1>1. /\ step' = step /\ pc' = "returned" /\ result' = "I2C_SUCCESS"
      /\ step \in DOMAIN call /\ CallShape /\ Kind(step)
      /\ step \in Nat /\ Len(call) \in Nat /\ step = Len(call)
      /\ ~Idling /\ Idling'
  BY StepFacts, Places DEF Ends, NextTransfer, Idling
<1>2. Current' = Current /\ Started' = Started /\ ByteAt' = ByteAt
      /\ Before(step)' = Before(step)
  BY <1>1, EndsSame DEF Current, Started, ByteAt, Before
<1>3. Current.control.stop
  BY <1>1 DEF Kind, Current
<1>4. Asleep
  BY <1>1, <1>3, RestsAwake DEF Ends, DoneInv
<1>5. DriverInv'
  BY <1>1, EndsSame DEF DriverInv
<1>6. Proceeds
  BY <1>1, <1>4, <1>5, EndsSame DEF Proceeds
<1>7. AnswerBit = i_ack_out /\ AnswerBit' = i_ack_out
  BY EndsSame, RestsAwake
<1>8. HeardInv'
  <2>1. \A k \in 1 .. Before(step) : ~Refused(k)
    BY EndsSame DEF Inv, HeardInv
  <2>2. /\ Len(heard) >= ByteAt /\ Current.data # <<>> => heard[ByteAt].ack = AnswerBit'
        /\ Len(heard) >= ByteAt /\ Current.data = <<>> => heard[ByteAt].byte = i_dout
    BY <1>7, EndsSame DEF Inv, HeardInv
  <2> QED
    BY <1>1, <1>2, <2>1, <2>2, EndsSame DEF HeardInv, Refused
<1>9. ValueInv'
  <2>1. (IF step' <= 3 THEN 0 ELSE IF Idling' THEN step' - 3 ELSE step' - 4)
          = IF step <= 3 THEN 0 ELSE step - 3
    BY <1>1
  <2> QED
    BY <2>1, EndsSame, EndsValue DEF ValueInv
<1>10. ReturnInv'
  <2>1. Len(heard) = ByteAt + 1
    BY <1>3, EndsFacts DEF One
  <2>2. Current.data # <<>> => i_ack_out = 0
    BY EndsFacts DEF Ends
  <2> QED
    BY <1>1, <1>2, <2>1, <2>2, EndsSame DEF ReturnInv
<1> QED
  BY <1>6, <1>8, <1>9, <1>10, ProceedsKeeps

LEMMA EndsKeeps ==
  ASSUME Inv, Ends
  PROVE  Inv'
BY NextKeeps, LastKeeps

LEMMA CheckAcknowledgeKeeps ==
  ASSUME Inv, ~i_tip_reg, CheckAcknowledge
  PROVE  Inv'
<1>1. Access(Read("STATUS")) /\ Allowed(Read("STATUS")) /\ Read("STATUS").address = "STATUS"
  BY DEF CheckAcknowledge, Allowed, Read
<1>2. /\ Resting /\ Writable /\ control' = control /\ i_data_reg' = i_data_reg
      /\ ~i_tip_reg'
  BY <1>1, RestAccess DEF i_tip_reg
<1>3. pc = "status" /\ ~Idling /\ ack_out = i_ack_out /\ i_ack_out \in Bit
  BY <1>2, Rests DEF CheckAcknowledge, Idling, Inv, Registers
<1>4. CASE ack_out = 1
  <2>1. pc' = "abort" /\ UNCHANGED <<call, step, value, result>>
    BY <1>4 DEF CheckAcknowledge, Goto
  <2>2. Steady /\ ~Idling'
    BY <1>2, <1>3, <2>1 DEF Steady, Idling
  <2>3. Current' = Current /\ i_ack_out' = i_ack_out
    BY <1>2, <2>1, Rests DEF Current
  <2>4. Current.data # <<>>
    BY <1>3 DEF Inv, DriverInv
  <2>5. DriverInv'
    <3>1. call # <<>> /\ CallShape' /\ step \in DOMAIN call /\ call' = call /\ step' = step
      BY <1>3, <2>1, SameCall, StepFacts
    <3>2. pc' = "abort" /\ i_ack_out' = 1 /\ Current'.data # <<>>
      BY <1>3, <1>4, <2>1, <2>3, <2>4
    <3> QED
      BY <3>1, <3>2 DEF DriverInv
  <2>6. Asleep
    BY <1>2, <1>3, <1>4, <2>4, RestsAwake DEF DoneInv, Left
  <2>7. Proceeds
    BY <1>2, <1>3, <2>1, <2>2, <2>5, <2>6 DEF Proceeds
  <2> QED
    BY <1>2, <2>2, <2>7, SteadyHeard, ProceedsKeeps
<1>5. CASE ack_out # 1
  <2>1. i_ack_out = 0
    BY <1>3, <1>5 DEF Bit
  <2>2. Ends
    BY <1>2, <1>3, <1>5, <2>1 DEF CheckAcknowledge, Ends
  <2> QED
    BY <2>2, EndsKeeps
<1> QED
  BY <1>4, <1>5

LEMMA ReadValueKeeps ==
  ASSUME Inv, ~i_tip_reg, ReadValue
  PROVE  Inv'
<1>1. /\ Access(Read("DATA")) /\ Allowed(Read("DATA"))
      /\ Read("DATA").address = "DATA"
  BY DEF ReadValue, Allowed, Read
<1>2. Resting /\ Writable /\ control' = control
  BY <1>1, RestAccess
<1>3. data_out = i_dout /\ ~i_tip_reg' /\ pc = "value"
  BY <1>2, Rests DEF ReadValue, i_tip_reg
<1>4. Ends
  BY <1>2, <1>3 DEF ReadValue, Ends
<1> QED
  BY <1>4, EndsKeeps

LEMMA AbortKeeps ==
  ASSUME Inv, ~i_tip_reg, Abort
  PROVE  Inv'
<1>1. STOP \in Control /\ ~STOP.read /\ ~STOP.write
  BY Commands
<1>2. /\ Access(Write("CONTROL", STOP)) /\ Allowed(Write("CONTROL", STOP))
  BY <1>1 DEF Abort, Allowed
<1>3. Resting /\ Writable /\ control' = STOP /\ ~i_tip_reg'
  BY <1>1, <1>2, RestAccess DEF i_tip_reg
<1>4. /\ pc = "abort" /\ pc' = "returned" /\ ~Idling /\ Idling'
      /\ UNCHANGED <<call, step, value>>
      /\ result' = IF Current.control.start THEN "I2C_ENODEV" ELSE "I2C_EBADACK"
  BY DEF Abort, Return, Idling
<1>5. Current' = Current /\ Started' = Started /\ ByteAt' = ByteAt
      /\ Before(step)' = Before(step)
  BY <1>4, SameCall DEF Current, Started, ByteAt, Before
<1>6. /\ heard' = heard /\ i_ack_out' = i_ack_out /\ i_dout' = i_dout
      /\ AnswerBit = i_ack_out /\ AnswerBit' = i_ack_out
  BY <1>3, Rests, RestsAwake
<1>7. /\ i_ack_out = 1 /\ Current.data # <<>> /\ Asleep
      /\ call # <<>> /\ CallShape /\ step \in DOMAIN call /\ Kind(step) /\ step \in Nat
  BY <1>3, <1>4, RestsAwake, StepFacts, Places DEF Inv, DriverInv
<1>8. DriverInv'
  BY <1>4, <1>7, SameCall DEF DriverInv
<1>9. Proceeds
  BY <1>3, <1>4, <1>7, <1>8 DEF Proceeds
<1>10. HeardInv'
  BY <1>4, <1>5, <1>6, <1>7, SameCall DEF Inv, HeardInv, Refused
<1>11. ValueInv'
  <2>1. ReadShape => step <= 3
    BY <1>7, Places, Asked DEF ReadShape, Current
  <2> QED
    BY <1>4, <1>6, <1>7, <2>1, SameCall DEF Inv, ValueInv
<1>12. ReturnInv'
  <2>1. Len(heard) = Before(step) + Progress
    BY <1>4, <1>7 DEF Inv, HeardInv
  <2>2. Progress = Started + (IF Current.control.stop THEN 2 ELSE 1)
    BY <1>3, <1>4, RestProgress
  <2>3. Before(step) \in Nat /\ Started \in {0, 1}
    BY <1>7, Places DEF Started
  <2>4. Len(heard) = ByteAt + (IF Current.control.stop THEN 1 ELSE 0)
    BY <2>1, <2>2, <2>3 DEF ByteAt
  <2> QED
    BY <1>4, <1>5, <1>6, <1>7, <2>4 DEF ReturnInv
<1> QED
  BY <1>9, <1>10, <1>11, <1>12, ProceedsKeeps

(* Every action of the program and of the hardware, in a clock between two  *)
(* transfers.                                                              *)
LEMMA RestKeeps ==
  ASSUME Inv, ~i_tip_reg, Next, ~Call
  PROVE  Inv'
<1>1. CASE Compute
  <2>1. Allowed(NoAccess) /\ NoAccess.address = "NONE"
    BY DEF Allowed, NoAccess
  <2> QED
    BY <1>1, <2>1, ComputeKeeps DEF Compute
<1>2. CASE i2c_init
  <2>1. PICK divisor \in Divisors : Access(Write("CLOCK_DIVISOR", divisor))
    BY <1>2 DEF i2c_init
  <2>2. /\ Allowed(Write("CLOCK_DIVISOR", divisor))
        /\ Write("CLOCK_DIVISOR", divisor).address = "CLOCK_DIVISOR"
    BY DEF Allowed, Write
  <2>3. UNCHANGED driverVars
    BY <1>2 DEF i2c_init, driverVars
  <2> QED
    BY <2>1, <2>2, <2>3, ComputeKeeps
<1>3. CASE i2c_configure
  <2>1. /\ Idling /\ Idling' /\ UNCHANGED <<call, step, value, result>>
        /\ Access(Write("CONTROL", STOP))
    BY <1>3 DEF i2c_configure, Goto, Idling
  <2> QED
    BY <2>1, Commands, ConfigureKeeps
<1>4. CASE ConfigureInterrupt
  <2> DEFINE command == [NoCommand EXCEPT !.int_en = (pc = "configure_irq")]
  <2>1. /\ Idling /\ Idling' /\ UNCHANGED <<call, step, value, result>>
        /\ Access(Write("CONTROL", command))
    BY <1>4 DEF ConfigureInterrupt, Goto, Idling
  <2>2. command \in Control /\ ~command.read /\ ~command.write
    BY DEF NoCommand, Control, Bit
  <2> HIDE DEF command
  <2> QED
    BY <2>1, <2>2, ConfigureKeeps
<1>5. CASE WaitBefore
  BY <1>5, WaitBeforeKeeps
<1>6. CASE WriteData
  BY <1>6, WriteDataKeeps
<1>7. CASE WriteControl
  BY <1>7, WriteControlKeeps
<1>8. CASE WaitAfter
  BY <1>8, WaitAfterKeeps
<1>9. CASE CheckAcknowledge
  BY <1>9, CheckAcknowledgeKeeps
<1>10. CASE ReadValue
  BY <1>10, ReadValueKeeps
<1>11. CASE Abort
  BY <1>11, AbortKeeps
<1> QED
  BY <1>1, <1>2, <1>3, <1>4, <1>5, <1>6, <1>7, <1>8, <1>9, <1>10, <1>11 DEF Next, Program

(* While a transfer is in progress the program can only poll. *)
LEMMA PollKeeps ==
  ASSUME Inv, i_tip_reg, Next, ~Call
  PROVE  Inv'
<1>1. pc = "wait_after"
  BY DEF Inv, HandshakeInv
<1>2. \E access : Access(access)
  BY DEF Next, Program, Compute, i2c_init, i2c_configure, ConfigureInterrupt, WaitBefore,
         wait_end_of_transfer, WriteData, WriteControl, WaitAfter, CheckAcknowledge,
         ReadValue, Abort
<1>3. Wires /\ Transfer
  BY <1>2, AccessIsClock
<1>4. irq' \in BOOLEAN
  BY <1>2 DEF Access, InterfaceEdge, Inv, Registers, Control
<1>5. UNCHANGED driverVars
  BY <1>1 DEF Next, Program, Compute, i2c_init, i2c_configure, ConfigureInterrupt, WaitBefore,
              wait_end_of_transfer, WriteData, WriteControl, WaitAfter, CheckAcknowledge,
              ReadValue, Abort, Goto, driverVars
<1> QED
  BY <1>3, <1>4, <1>5, TransferKeeps DEF Transferring

----------------------------------------------------------------------------
(* The next call.                                                          *)

OneTransfer == [control : Control, data : {<<>>} \union {<<byte>> : byte \in Byte}]

LEMMA SetAndGet ==
  /\ \A byte \in Byte, command \in Control : Set(byte, command) \in OneTransfer
  /\ \A command \in Control : Get(command) \in OneTransfer
  /\ \A byte, command : Set(byte, command).data[1] = byte
BY DEF Set, Get, OneTransfer

LEMMA Directions ==
  ASSUME NEW device \in Byte
  PROVE  /\ ForWriting(device) \in Byte /\ ForWriting(device)[Bits] = 0
         /\ ForReading(device) \in Byte /\ ForReading(device)[Bits] = 1
<1>1. Bits \in 1 .. Bits /\ DOMAIN device = 1 .. Bits
  BY BitsAssumption DEF Byte
<1> QED
  BY <1>1 DEF ForWriting, ForReading, Byte, Bit

(* Two elements in front of a sequence. *)
LEMMA InFront ==
  ASSUME NEW S, NEW a, NEW b, NEW rest, a \in S, b \in S, rest \in Seq(S)
  PROVE  LET c == <<a, b>> \o rest IN
         /\ c \in Seq(S) /\ Len(c) = 2 + Len(rest) /\ Len(rest) \in Nat
         /\ c[1] = a /\ c[2] = b
         /\ \A k \in 3 .. Len(c) : c[k] = rest[k - 2]
<1> DEFINE two == <<a, b>>
<1>1. two \in Seq(S) /\ Len(two) = 2 /\ two[1] = a /\ two[2] = b /\ Len(rest) \in Nat
  BY LenProperties
<1> HIDE DEF two
<1>2. /\ two \o rest \in Seq(S) /\ Len(two \o rest) = Len(two) + Len(rest)
      /\ \A i \in 1 .. Len(two) + Len(rest) :
           (two \o rest)[i] = IF i <= Len(two) THEN two[i] ELSE rest[i - Len(two)]
  BY <1>1, ConcatProperties
<1>3. /\ (two \o rest)[1] = a /\ (two \o rest)[2] = b
      /\ \A k \in 3 .. Len(two \o rest) : (two \o rest)[k] = rest[k - 2]
  BY <1>1, <1>2
<1> QED
  BY <1>1, <1>2, <1>3 DEF two

LEMMA OfItsRange ==
  ASSUME NEW S, NEW s, s \in Seq(S)
  PROVE  s \in Seq(Range(s))
<1>1. PICK n \in Nat : s \in [1 .. n -> S]
  BY SeqDef
<1>2. s \in [1 .. n -> Range(s)]
  BY <1>1 DEF Range
<1> QED
  BY <1>2, SeqDef

(* What follows the index, when bytes are written and when they are read.   *)
WriteRest(rest) ==
  \A k \in 1 .. Len(rest) : \E byte \in Byte :
    rest[k] = Set(byte, IF k < Len(rest) THEN WRITE ELSE WRITE_STOP)

ReadRest(device, rest) ==
  /\ Len(rest) > 1 /\ rest[1] = Set(ForReading(device), START)
  /\ \A k \in 2 .. Len(rest) : rest[k] = Get(IF k < Len(rest) THEN READ ELSE READ_STOP)

LEMMA ShapeOf ==
  ASSUME NEW device \in Byte, NEW index \in Byte, NEW rest, rest \in Seq(OneTransfer),
         Len(rest) >= 1, call' = Begin(device, index) \o rest,
         WriteRest(rest) \/ ReadRest(device, rest)
  PROVE  CallShape'
<1> DEFINE a == Set(ForWriting(device), START)
           b == Set(index, WRITE)
           n == Len(rest)
<1>1. a \in OneTransfer /\ b \in OneTransfer
  BY SetAndGet, Directions, Commands
<1>2. Begin(device, index) = <<a, b>>
  BY DEF Begin
<1> HIDE DEF a, b
<1>3. /\ call' \in Seq(OneTransfer) /\ Len(call') = 2 + n /\ n \in Nat
      /\ call'[1] = a /\ call'[2] = b
      /\ \A k \in 3 .. Len(call') : call'[k] = rest[k - 2]
  BY <1>1, <1>2, InFront
<1>4. call' \in Seq(Range(call'))
  BY <1>3, OfItsRange
<1>5. Writes(1, START)' /\ call'[1].data[1][Bits] = 0 /\ Writes(2, WRITE)'
  BY <1>3, SetAndGet, Directions DEF Writes, a, b
<1>6. CASE WriteRest(rest)
  <2>1. ASSUME NEW k \in 3 .. Len(call')
        PROVE  \E byte \in Byte : call'[k] = Set(byte, IF k < Len(call') THEN WRITE ELSE WRITE_STOP)
    <3>1. k - 2 \in 1 .. n /\ (k - 2 < n <=> k < Len(call')) /\ call'[k] = rest[k - 2]
      BY <1>3
    <3> QED
      BY <1>6, <3>1 DEF WriteRest
  <2>2. WriteShape'
    BY <2>1 DEF WriteShape, Writes
  <2> QED
    BY <1>3, <1>4, <1>5, <2>2 DEF CallShape
<1>7. CASE ReadRest(device, rest)
  <2>1. Len(call') > 3 /\ call'[3] = Set(ForReading(device), START)
    BY <1>3, <1>7 DEF ReadRest
  <2>2. Writes(3, START)' /\ call'[3].data[1][Bits] = 1
    BY <2>1, SetAndGet, Directions DEF Writes
  <2>3. ASSUME NEW k \in 4 .. Len(call')
        PROVE  call'[k] = Get(IF k < Len(call') THEN READ ELSE READ_STOP)
    <3>1. k - 2 \in 2 .. n /\ (k - 2 < n <=> k < Len(call')) /\ call'[k] = rest[k - 2]
      BY <1>3
    <3> QED
      BY <1>7, <3>1 DEF ReadRest
  <2>4. ReadShape'
    BY <2>1, <2>2, <2>3 DEF ReadShape
  <2> QED
    BY <1>3, <1>4, <1>5, <2>4 DEF CallShape
<1> QED
  BY <1>6, <1>7

LEMMA CallShapes ==
  ASSUME call' \in Transfers
  PROVE  CallShape'
<1>1. PICK d \in Devices, x \in Values :
        \/ \E v \in Values : call' = i2c_write(d, x, v)
        \/ call' = i2c_read(d, x)
        \/ \E n \in Sizes : \E v \in [1 .. n -> Values] : call' = i2c_write_array(d, x, v)
        \/ \E n \in Sizes : call' = i2c_read_array(d, x, n)
  BY DEF Transfers
<1>2. d \in Byte /\ x \in Byte /\ Values \subseteq Byte
  BY ByteAssumption
<1>3. \A n \in Sizes : n \in Nat /\ n >= 1
  BY SizeAssumption
<1>4. ASSUME NEW v \in Values, call' = i2c_write(d, x, v)
      PROVE  CallShape'
  <2> DEFINE rest == <<Set(v, WRITE_STOP)>>
  <2>1. Set(v, WRITE_STOP) \in OneTransfer /\ v \in Byte
    BY <1>2, SetAndGet, Commands
  <2>2. rest \in Seq(OneTransfer) /\ Len(rest) = 1 /\ rest[1] = Set(v, WRITE_STOP)
    BY <2>1
  <2>3. call' = Begin(d, x) \o rest
    BY <1>4 DEF i2c_write
  <2> HIDE DEF rest
  <2>4. WriteRest(rest)
    BY <2>1, <2>2 DEF WriteRest
  <2>5. rest \in Seq(OneTransfer) /\ Len(rest) >= 1
    BY <2>2
  <2> QED
    BY <1>2, <2>3, <2>4, <2>5, ShapeOf
<1>5. CASE call' = i2c_read(d, x)
  <2> DEFINE rest == <<Set(ForReading(d), START), Get(READ_STOP)>>
  <2>1. Set(ForReading(d), START) \in OneTransfer /\ Get(READ_STOP) \in OneTransfer
    BY <1>2, SetAndGet, Directions, Commands
  <2>2. /\ rest \in Seq(OneTransfer) /\ Len(rest) = 2
        /\ rest[1] = Set(ForReading(d), START) /\ rest[2] = Get(READ_STOP)
    BY <2>1
  <2>3. call' = Begin(d, x) \o rest
    BY <1>5 DEF i2c_read
  <2> HIDE DEF rest
  <2>4. ReadRest(d, rest)
    BY <2>2 DEF ReadRest
  <2>5. rest \in Seq(OneTransfer) /\ Len(rest) >= 1
    BY <2>2
  <2> QED
    BY <1>2, <2>3, <2>4, <2>5, ShapeOf
<1>6. ASSUME NEW n \in Sizes, NEW v \in [1 .. n -> Values], call' = i2c_write_array(d, x, v)
      PROVE  CallShape'
  <2> DEFINE rest == [k \in 1 .. n |-> Set(v[k], IF k < n THEN WRITE ELSE WRITE_STOP)]
  <2>1. \A k \in 1 .. n : v[k] \in Byte /\ rest[k] \in OneTransfer
    BY <1>2, SetAndGet, Commands
  <2>2. rest \in Seq(OneTransfer) /\ Len(rest) = n
    BY <1>3, <2>1
  <2>3. call' = Begin(d, x) \o rest
    <3>1. DOMAIN v = 1 .. n /\ Len(v) = n
      BY <1>3
    <3> QED
      BY <1>6, <3>1 DEF i2c_write_array
  <2>4. WriteRest(rest)
    BY <2>1, <2>2 DEF WriteRest
  <2> HIDE DEF rest
  <2> QED
    BY <1>2, <1>3, <2>2, <2>3, <2>4, ShapeOf
<1>7. ASSUME NEW n \in Sizes, call' = i2c_read_array(d, x, n)
      PROVE  CallShape'
  <2> DEFINE s == <<Set(ForReading(d), START)>>
             t == [k \in 1 .. n |-> Get(IF k < n THEN READ ELSE READ_STOP)]
             rest == s \o t
  <2>1. Set(ForReading(d), START) \in OneTransfer /\ \A k \in 1 .. n : t[k] \in OneTransfer
    BY <1>2, SetAndGet, Directions, Commands
  <2>2. /\ s \in Seq(OneTransfer) /\ Len(s) = 1 /\ s[1] = Set(ForReading(d), START)
        /\ t \in Seq(OneTransfer) /\ Len(t) = n
        /\ \A k \in 1 .. n : t[k] = Get(IF k < n THEN READ ELSE READ_STOP)
    BY <1>3, <2>1
  <2>3. Begin(d, x) \in Seq(OneTransfer)
    BY <1>2, SetAndGet, Directions, Commands DEF Begin
  <2>4. call' = (Begin(d, x) \o s) \o t
    BY <1>7 DEF i2c_read_array
  <2> HIDE DEF s, t
  <2>5. (Begin(d, x) \o s) \o t = Begin(d, x) \o rest
    BY <2>2, <2>3, ConcatAssociative
  <2>6. /\ rest \in Seq(OneTransfer) /\ Len(rest) = Len(s) + Len(t)
        /\ \A i \in 1 .. Len(s) + Len(t) :
             rest[i] = IF i <= Len(s) THEN s[i] ELSE t[i - Len(s)]
    BY <2>2, ConcatProperties
  <2> HIDE DEF rest
  <2>7. Len(rest) = n + 1 /\ rest[1] = Set(ForReading(d), START)
    BY <1>3, <2>2, <2>6
  <2>8. ASSUME NEW k \in 2 .. Len(rest)
        PROVE  rest[k] = Get(IF k < Len(rest) THEN READ ELSE READ_STOP)
    <3>1. k - 1 \in 1 .. n /\ (k - 1 < n <=> k < Len(rest)) /\ rest[k] = t[k - 1]
      BY <1>3, <2>2, <2>6, <2>7
    <3> QED
      BY <2>2, <3>1
  <2>9. ReadRest(d, rest)
    BY <1>3, <2>7, <2>8 DEF ReadRest
  <2> QED
    BY <1>2, <1>3, <2>4, <2>5, <2>6, <2>7, <2>9, ShapeOf
<1> QED
  BY <1>1, <1>4, <1>5, <1>6, <1>7

(* A call begins with the device asleep and the hardware at rest.           *)
LEMMA CallKeeps ==
  ASSUME Inv, Call
  PROVE  Inv'
<1>1. /\ pc = "returned" /\ step' = 1 /\ pc' = "wait_before"
      /\ value' = <<>> /\ heard' = <<>> /\ result' = result
      /\ UNCHANGED <<p_state, i_ctr, i_dout, i_ack_out,
                     scl_out, sda_out, data_out, ack_out, cmd_done>>
      /\ UNCHANGED <<control, i_data_reg, i_int_pe_reg, i_cmd_done_ack, irq,
                     i_clkdiv_reg, clk_ctr, sclk, scl_in, sda_in>>
      /\ UNCHANGED <<mode, count, shift, pull, lineScl, lineSda>>
  BY DEF Call, interfaceVars, coreVars
<1>2. CallShape'
  BY CallShapes DEF Call
<1>3. /\ call' # <<>> /\ 1 \in DOMAIN call' /\ Current' = call'[1]
      /\ Before(1)' = 0
  <2>1. Len(call') \in Nat /\ Len(call') >= 3 /\ DOMAIN call' = 1 .. Len(call')
    BY <1>2, LenProperties DEF CallShape
  <2>2. call' # <<>>
    BY <2>1
  <2> QED
    BY <1>1, <2>1, <2>2 DEF Current, Before
<1>4. ~i_tip_reg /\ ~cmd_done /\ p_state \in {"Reset", "Idle"} /\ ~i_cmd_done_ack
  BY <1>1 DEF Inv, HandshakeInv, Busy
<1>5. ~i_tip_reg' /\ p_state' = p_state /\ ~Idling' /\ Idling
  BY <1>1, <1>4 DEF i_tip_reg, Idling
<1>6. Asleep /\ Asleep'
  BY <1>1, <1>4, <1>5 DEF Inv, DevicePart, DeviceInv, Asleep
<1>7. Registers' /\ ClockInv'
  BY <1>1 DEF Inv, Registers, ClockInv
<1>8. SclInv'
  BY <1>1 DEF Inv, SclInv
<1>9. SdaInv'
  <2>1. sda(pull)' = sda(pull)
    BY <1>1 DEF sda
  <2> QED
    BY <1>1, <2>1 DEF Inv, SdaInv
<1>10. HandshakeInv'
  BY <1>1, <1>4, <1>5 DEF HandshakeInv, Busy
<1>11. DriverInv'
  BY <1>1, <1>2, <1>3, <1>5 DEF DriverInv
<1>12. DevicePart'
  <2>1. Ready'
    BY <1>1, <1>6 DEF Ready
  <2>2. DeviceInv'
    BY <1>1, <1>4, <1>5, <1>6, <2>1 DEF Inv, DevicePart, DeviceInv
  <2>3. WriteInv' /\ ReadInv'
    BY <1>4, <1>5 DEF WriteInv, ReadInv
  <2>4. CommandInv'
    BY <1>1, <1>4 DEF Inv, DevicePart, CommandInv
  <2> QED
    BY <2>2, <2>3, <2>4 DEF DevicePart
<1>13. HeardInv'
  <2>1. Before(step)' = 0 /\ Progress' = 0 /\ ByteAt' \in Nat /\ ByteAt' >= 1
    BY <1>1, <1>3 DEF Progress, ByteAt, Started, Before
  <2>2. heard' \in Seq(Events) /\ Len(heard') = 0 /\ DOMAIN heard' = {}
    BY <1>1
  <2> QED
    BY <1>3, <2>1, <2>2 DEF HeardInv
<1>14. ValueInv' /\ ReturnInv'
  <2>1. [j \in 1 .. 0 |-> heard'[j + 5].byte] = <<>>
    OBVIOUS
  <2> QED
    BY <1>1, <1>5, <2>1 DEF ValueInv, ReturnInv
<1> QED
  BY <1>7, <1>8, <1>9, <1>10, <1>11, <1>12, <1>13, <1>14 DEF Inv

----------------------------------------------------------------------------
(* The invariant holds.                                                    *)

LEMMA InitInv ==
  ASSUME Init
  PROVE  Inv
<1> DEFINE blank == [k \in 1 .. Bits |-> 0]
<1>1. blank \in Byte /\ D!Blank = blank
  BY DEF Byte, Bit, D!Blank
<1>2. /\ p_state = "Reset" /\ i_ctr = 0 /\ i_dout = blank /\ i_ack_out = 0
      /\ scl_out = 1 /\ sda_out = 1 /\ data_out = blank /\ ack_out = 0 /\ cmd_done = FALSE
  BY DEF Init, InterfaceInit, CoreInit
<1>3. /\ control = NoCommand /\ i_data_reg = blank /\ i_int_pe_reg = FALSE
      /\ i_cmd_done_ack = FALSE /\ irq = FALSE /\ i_clkdiv_reg = ResetDivisor
      /\ clk_ctr = 0 /\ sclk = TRUE /\ scl_in = 1 /\ sda_in = 1
  BY DEF Init, InterfaceInit
<1>4. /\ mode = "asleep" /\ count = 0 /\ shift = blank /\ pull = 1
      /\ lineScl = 1 /\ lineSda = 1 /\ heard = <<>>
  BY <1>1 DEF Init, D!DeviceInit
<1>5. call = <<>> /\ step = 1 /\ pc = "returned" /\ value = <<>>
  BY DEF Init
<1> HIDE DEF blank
<1>6. ~i_tip_reg /\ control \in Control
  BY <1>3 DEF i_tip_reg, NoCommand, Control, Bit
<1>7. 0 \in Bit /\ 1 \in Bit /\ ResetDivisor \in Nat \ {0}
  BY DivisorAssumption DEF Bit
<1>8. Registers
  <2>1. 0 \in 0 .. ResetDivisor /\ ResetDivisor \in Divisors \union {ResetDivisor}
    BY <1>7
  <2>2. \E divisor \in Divisors \union {ResetDivisor} : clk_ctr \in 0 .. divisor
    BY <1>3, <2>1
  <2> QED
    BY <1>1, <1>2, <1>3, <1>6, <1>7, <2>2 DEF Registers
<1>9. ClockInv
  BY <1>3, <1>7 DEF ClockInv
<1>10. SclInv
  BY <1>2, <1>3, <1>4, <1>7 DEF SclInv, State, High, Low, Rising, Falling, Still
<1>11. SdaInv
  BY <1>2, <1>3, <1>4, <1>7 DEF SdaInv, Still, sda
<1>12. HandshakeInv
  BY <1>2, <1>3, <1>5, <1>6 DEF HandshakeInv, Busy
<1>13. DriverInv
  BY <1>5 DEF DriverInv, Idling
<1>14. DevicePart
  <2>1. Asleep /\ 0 \in 0 .. Bits - 1
    BY <1>4, BitsAssumption DEF Asleep
  <2>2. DeviceInv
    BY <1>1, <1>2, <1>4, <1>5, <1>6, <2>1 DEF DeviceInv, D!Mode, Still, Idling
  <2>3. WriteInv /\ ReadInv /\ CommandInv
    BY <1>2 DEF WriteInv, ReadInv, CommandInv
  <2> QED
    BY <2>2, <2>3 DEF DevicePart
<1>15. HeardInv /\ ReturnInv
  BY <1>4, <1>5 DEF HeardInv, ReturnInv
<1>16. ValueInv
  BY <1>5 DEF ValueInv, ReadShape
<1> QED
  BY <1>8, <1>9, <1>10, <1>11, <1>12, <1>13, <1>14, <1>15, <1>16 DEF Inv

LEMMA StutterInv ==
  ASSUME Inv, UNCHANGED vars
  PROVE  Inv'
<1>1. /\ UNCHANGED <<p_state, i_ctr, i_dout, i_ack_out,
                     scl_out, sda_out, data_out, ack_out, cmd_done>>
      /\ UNCHANGED <<control, i_data_reg, i_int_pe_reg, i_cmd_done_ack, irq,
                     i_clkdiv_reg, clk_ctr, sclk, scl_in, sda_in>>
      /\ UNCHANGED <<call, step, pc, value, result>>
      /\ UNCHANGED <<mode, count, shift, pull, lineScl, lineSda, heard>>
  BY DEF vars, interfaceVars, coreVars, driverVars, D!deviceVars
<1>2. /\ CallShape' = CallShape /\ ReadShape' = ReadShape /\ Script' = Script
      /\ \A k : Before(k)' = Before(k)
  BY <1>1, SameCall
<1>3. /\ Current' = Current /\ Before(step)' = Before(step) /\ Started' = Started
      /\ i_tip_reg' = i_tip_reg /\ Idling' = Idling /\ Busy' = Busy
  BY <1>1, <1>2 DEF Current, Before, Started, i_tip_reg, Idling, Busy
<1>4. Registers' /\ ClockInv' /\ SclInv'
  BY <1>1 DEF Inv, Registers, ClockInv, SclInv
<1>5. SdaInv'
  BY <1>1 DEF Inv, SdaInv, sda
<1>6. HandshakeInv' /\ DriverInv'
  BY <1>1, <1>2, <1>3 DEF Inv, HandshakeInv, DriverInv
<1>7. /\ Asleep' = Asleep /\ Waiting' = Waiting /\ Called' = Called /\ Held' = Held
      /\ Answering' = Answering /\ Listening' = Listening /\ LastBit' = LastBit
      /\ Sending(0)' = Sending(0) /\ Sending(i_ctr)' = Sending(i_ctr)
      /\ Sending(i_ctr + 1)' = Sending(i_ctr + 1) /\ SentBit(i_ctr + 1)' = SentBit(i_ctr + 1)
      /\ Arrived(i_ctr)' = Arrived(i_ctr) /\ Arrived(i_ctr + 1)' = Arrived(i_ctr + 1)
      /\ Receiving(i_ctr)' = Receiving(i_ctr) /\ Receiving(i_ctr + 1)' = Receiving(i_ctr + 1)
      /\ Receiving(i_ctr + scl_in)' = Receiving(i_ctr + scl_in)
  BY <1>1 DEF Asleep, Waiting, Called, Held, Answering, Listening, LastBit, Sending, SentBit,
              Arrived, Receiving
<1>8. Left' = Left
  BY <1>1, <1>3, <1>7 DEF Left, Continues
<1>9. Ready' = Ready /\ DoneInv' = DoneInv
  BY <1>1, <1>3, <1>7, <1>8 DEF Ready, DoneInv
<1>10. DeviceInv'
  BY <1>1, <1>3, <1>7, <1>9 DEF Inv, DevicePart, DeviceInv
<1>11. WriteInv'
  BY <1>1, <1>3, <1>7, <1>8 DEF Inv, DevicePart, WriteInv
<1>12. ReadInv' /\ CommandInv'
  BY <1>1, <1>3, <1>7, <1>8 DEF Inv, DevicePart, ReadInv, CommandInv
<1>13. Progress' = Progress /\ ByteAt' = ByteAt /\ AnswerBit' = AnswerBit
  BY <1>1, <1>3, <1>7 DEF Progress, ByteAt, AnswerBit
<1>14. HeardInv'
  BY <1>1, <1>2, <1>3, <1>13 DEF Inv, HeardInv, Refused
<1>15. ValueInv' /\ ReturnInv'
  BY <1>1, <1>2, <1>3, <1>13 DEF Inv, ValueInv, ReturnInv
<1> QED
  BY <1>4, <1>5, <1>6, <1>10, <1>11, <1>12, <1>14, <1>15 DEF Inv, DevicePart

LEMMA NextInv ==
  ASSUME Inv, [Next]_vars
  PROVE  Inv'
<1>1. CASE UNCHANGED vars
  BY <1>1, StutterInv
<1>2. CASE Call
  BY <1>2, CallKeeps
<1>3. CASE Next /\ ~Call /\ i_tip_reg
  BY <1>3, PollKeeps
<1>4. CASE Next /\ ~Call /\ ~i_tip_reg
  BY <1>4, RestKeeps
<1> QED
  BY <1>1, <1>2, <1>3, <1>4

----------------------------------------------------------------------------
(* What the properties say.                                                *)

LEMMA InvTypes ==
  ASSUME Inv, result \in {"I2C_SUCCESS", "I2C_ENODEV", "I2C_EBADACK"}
  PROVE  TypeOK
<1>1. p_state \in State /\ i_ctr \in 0 .. Bits - 1 /\ mode \in D!Mode
  BY DEF Inv, SclInv, DevicePart, DeviceInv
<1>2. {i_dout, data_out, i_data_reg} \subseteq Byte
  BY DEF Inv, Registers
<1>3. {i_ack_out, ack_out, scl_out, sda_out, scl_in, sda_in} \subseteq Bit
  BY DEF Inv, Registers, SclInv, SdaInv
<1>4. {cmd_done, i_int_pe_reg, i_cmd_done_ack, irq, sclk} \subseteq BOOLEAN
  <2>1. /\ cmd_done \in BOOLEAN /\ i_int_pe_reg \in BOOLEAN /\ i_cmd_done_ack \in BOOLEAN
        /\ irq \in BOOLEAN /\ sclk \in BOOLEAN
    BY DEF Inv, Registers, ClockInv
  <2> QED
    BY <2>1, Zenon
<1>5. /\ control \in Control /\ i_clkdiv_reg \in Divisors \union {ResetDivisor}
      /\ \E divisor \in Divisors \union {ResetDivisor} : clk_ctr \in 0 .. divisor
  BY DEF Inv, Registers
<1>6. step \in DOMAIN call \union {1}
  BY DEF Inv, DriverInv
<1> QED
  BY <1>1, <1>2, <1>3, <1>4, <1>5, <1>6 DEF TypeOK

LEMMA ResultStep ==
  ASSUME [Next]_vars, result \in {"I2C_SUCCESS", "I2C_ENODEV", "I2C_EBADACK"}
  PROVE  result' \in {"I2C_SUCCESS", "I2C_ENODEV", "I2C_EBADACK"}
BY DEF Next, Program, Compute, Call, i2c_init, i2c_configure, ConfigureInterrupt, WaitBefore,
       wait_end_of_transfer, WriteData, WriteControl, WaitAfter, CheckAcknowledge, ReadValue,
       Abort, Goto, Return, NextTransfer, vars, driverVars

(* Where the call is, in what the device has heard. *)
LEMMA Position ==
  ASSUME Inv, call # <<>>
  PROVE  /\ CallShape /\ step \in DOMAIN call /\ step \in Nat /\ Kind(step) /\ Told(step)
         /\ heard \in Seq(Events) /\ Len(heard) \in Nat /\ DOMAIN heard = 1 .. Len(heard)
         /\ Started \in {0, 1} /\ Started = One(Current.control.start)
         /\ Before(step) \in Nat /\ ByteAt = Before(step) + Started + 1
         /\ Before(step) <= Len(heard) /\ Len(heard) <= ByteAt + One(Current.control.stop)
         /\ ByteAt + One(Current.control.stop) = Before(step) + Size(step)
         /\ ByteAt + One(Current.control.stop) <= Len(Script)
         /\ One(Current.control.stop) \in {0, 1} /\ Len(Script) \in Nat
<1>1. /\ CallShape /\ step \in DOMAIN call /\ step \in Nat /\ Kind(step)
      /\ Before(step) \in Nat
      /\ Size(step) = One(Current.control.start) + 1 + One(Current.control.stop)
  BY Kinds, Places DEF Inv, DriverInv, Current
<1>2. /\ heard \in Seq(Events) /\ Told(step)
      /\ Len(heard) \in Nat /\ DOMAIN heard = 1 .. Len(heard)
  BY <1>1, HeardOf, LenProperties DEF Inv, HeardInv
<1>3. Started \in {0, 1} /\ Started = One(Current.control.start)
      /\ One(Current.control.stop) \in {0, 1}
      /\ ByteAt = Before(step) + Started + 1
  BY DEF Started, One, ByteAt
<1>4. ByteAt + One(Current.control.stop) = Before(step) + Size(step)
  BY <1>1, <1>3
<1>5. ByteAt + One(Current.control.stop) <= Len(Script) /\ Len(Script) \in Nat
  <2>1. Size(step) \in 1 .. Size(step)
    BY <1>1, <1>3
  <2>2. Before(step) + Size(step) \in 1 .. Total /\ Len(Script) = Total /\ Total \in Nat
    BY <1>1, <2>1, PlaceOf, ScriptAt
  <2> QED
    BY <1>1, <1>4, <2>2
<1>6. Before(step) <= Len(heard) /\ Len(heard) <= ByteAt + One(Current.control.stop)
  <2>1. CASE ~Idling
    <3>1. Len(heard) = Before(step) + Progress
      BY <2>1 DEF Inv, HeardInv, Idling
    <3>2. Progress \in Nat /\ Progress <= Started + 1 + One(Current.control.stop)
      <4>1. p_state = "Stop_A" \/ p_state = "Stop_B" \/ p_state = "Stop_C"
              => Current.control.stop
        BY DEF Inv, DevicePart, CommandInv
      <4> QED
        BY <1>3, <4>1 DEF Progress, One
    <3> QED
      BY <1>1, <1>3, <3>1, <3>2
  <2>2. CASE Idling
    <3>1. \/ Len(heard) = ByteAt + 1 /\ step = Len(call)
          \/ Len(heard) = ByteAt + (IF Current.control.stop THEN 1 ELSE 0)
      BY <2>2 DEF Inv, ReturnInv
    <3>2. step = Len(call) => Current.control.stop
      BY <1>1 DEF Kind, Current
    <3> QED
      BY <1>1, <1>3, <3>1, <3>2 DEF One
  <2> QED
    BY <2>1, <2>2
<1> QED
  BY <1>1, <1>2, <1>3, <1>4, <1>5, <1>6

(* Only the byte of the transfer may have been refused, and the transfer    *)
(* before it ends with its byte.                                           *)
LEMMA OnlyLast ==
  ASSUME Inv, call # <<>>
  PROVE  /\ \A k \in DOMAIN heard : Refused(k) => k = ByteAt /\ Current.data # <<>>
         /\ Len(heard) >= ByteAt =>
              (heard[ByteAt - 1].what = "START" <=> Current.control.start)
<1>1. ASSUME NEW k \in DOMAIN heard, Refused(k) PROVE k = ByteAt /\ Current.data # <<>>
  <2>1. k \in 1 .. Len(heard) /\ k \notin 1 .. Before(step)
    BY <1>1, Position DEF Inv, HeardInv
  <2>2. k > Before(step) /\ k <= Len(heard) /\ k \in Nat
    BY <2>1, Position
  <2>3. heard[k].what = "WRITE"
    BY <1>1 DEF Refused
  <2>4. k = ByteAt
    <3>1. CASE k < ByteAt
      <4>1. Started = 1 /\ k = ByteAt - 1
        BY <2>2, <3>1, Position
      <4>2. Current.control.start
        BY <4>1, Position DEF One
      <4>3. heard[ByteAt - 1].what = "START"
        BY <2>2, <4>1, <4>2, Position DEF Told, Current
      <4> QED
        BY <2>3, <4>1, <4>3
    <3>2. CASE k > ByteAt
      <4>1. One(Current.control.stop) = 1 /\ k = ByteAt + 1
        BY <2>2, <3>2, Position
      <4>2. Current.control.stop
        BY <4>1 DEF One
      <4>3. heard[ByteAt + 1].what = "STOP"
        BY <2>2, <4>1, <4>2, Position DEF Told, Current
      <4> QED
        BY <2>3, <4>1, <4>3
    <3> QED
      BY <2>2, <3>1, <3>2, Position
  <2>5. Current.data # <<>>
    BY <2>2, <2>3, <2>4, Position DEF Told, Current
  <2> QED
    BY <2>4, <2>5
<1>2. ASSUME Len(heard) >= ByteAt
      PROVE  heard[ByteAt - 1].what = "START" <=> Current.control.start
  <2>1. CASE Current.control.start
    <3>1. ByteAt \in Nat /\ Len(heard) >= ByteAt - 1
      BY <1>2, Position
    <3>2. heard[ByteAt - 1].what = "START"
      BY <2>1, <3>1, Position DEF Told, Current
    <3> QED
      BY <2>1, <3>2
  <2>2. CASE ~Current.control.start
    <3>1. Started = 0 /\ step # 1 /\ step >= 1 /\ step <= Len(call) /\ Len(call) \in Nat
      BY <2>2, Places, Position DEF Started, Kind, Current
    <3>2. step - 1 \in DOMAIN call /\ step - 1 < Len(call) /\ (step - 1) + 1 = step
      BY <3>1, Places, Position
    <3>3. /\ Told(step - 1) /\ Kind(step - 1)
          /\ Before(step) = Before(step - 1) + Size(step - 1)
          /\ Size(step - 1) = One(call[step - 1].control.start) + 1
                                + One(call[step - 1].control.stop)
          /\ Before(step - 1) \in Nat
      BY <3>2, HeardOf, Kinds, Places, Position DEF Inv, HeardInv
    <3>4. One(call[step - 1].control.stop) = 0
      BY <3>2, <3>3 DEF Kind, One
    <3>5. Before(step) = Before(step - 1) + One(call[step - 1].control.start) + 1
      BY <3>3, <3>4 DEF One
    <3>6. ByteAt - 1 = Before(step)
      BY <3>1, Position
    <3>7. heard[ByteAt - 1].what # "START"
      BY <3>3, <3>5, <3>6, Position DEF Told
    <3> QED
      BY <2>2, <3>7
  <2> QED
    BY <2>1, <2>2
<1> QED
  BY <1>1, <1>2

LEMMA InvCallHeard ==
  ASSUME Inv
  PROVE  CallHeard
<1>1. CASE call = <<>>
  <2>1. heard = <<>>
    BY <1>1 DEF Inv, HeardInv
  <2>2. Script = <<>>
    <3>1. [k \in DOMAIN call |-> Expected(call[k])] = <<>>
      BY <1>1
    <3> QED
      BY <3>1 DEF Script, FlattenSeq
  <2> QED
    BY <2>1, <2>2 DEF CallHeard
<1>2. CASE call # <<>>
  <2>1. Len(heard) <= Len(Script)
    BY <1>2, Position
  <2>2. \A k \in DOMAIN heard : Matches(heard[k], Script[k])
    BY <1>2 DEF Inv, HeardInv
  <2>3. ASSUME NEW k \in 1 .. Len(heard) - 1, Refused(k)
        PROVE  heard[k + 1].what = "STOP"
    <3>1. k \in DOMAIN heard /\ k \in Nat /\ k + 1 <= Len(heard)
      BY <1>2, Position
    <3>2. k = ByteAt
      BY <1>2, <2>3, <3>1, OnlyLast
    <3>3. One(Current.control.stop) = 1
      BY <1>2, <3>1, <3>2, Position
    <3>4. Current.control.stop
      BY <3>3 DEF One
    <3> QED
      BY <1>2, <3>1, <3>2, <3>4, Position DEF Told, Current
  <2> QED
    BY <2>1, <2>2, <2>3 DEF CallHeard
<1> QED
  BY <1>1, <1>2

(* The bytes that the device has sent are those from the sixth event to the *)
(* last but one, or none if the call writes.                                *)
SentFrom(n) == {k \in DOMAIN heard : heard[k].what = "READ"} = 6 .. n + 2

LEMMA SentInRead ==
  ASSUME Inv, call # <<>>, step = Len(call), Len(heard) = ByteAt + 1, ReadShape
  PROVE  SentFrom(Len(call))
<1> DEFINE n == Len(call)
<1>1. n \in Nat /\ n > 3 /\ DOMAIN call = 1 .. n /\ CallShape
  BY Places, Position DEF ReadShape
<1>2. \A k \in 1 .. n : Told(k)
  BY <1>1, HeardOf, Position DEF Inv, HeardInv
<1>3. call[3].control.start /\ call[3].data # <<>>
  BY Written, Commands DEF ReadShape
<1>4. ASSUME NEW k \in 4 .. n
      PROVE  call[k].data = <<>> /\ ~call[k].control.start /\ Before(k) = k + 1
  <2>1. call[k].data = <<>>
    BY <1>4, Asked DEF ReadShape
  <2>2. Kind(k)
    BY <1>1, Kinds
  <2> QED
    BY <1>1, <1>3, <2>1, <2>2 DEF Kind, Before
<1>5. /\ call[1].control.start /\ call[1].data # <<>>
      /\ ~call[2].control.start /\ call[2].data # <<>>
      /\ Before(1) = 0 /\ Before(2) = 2 /\ Before(3) = 3
  BY <1>1, Written, Commands DEF CallShape, Before
<1>6. Len(heard) = n + 3 /\ Current.control.stop
  <2>1. n \in 4 .. n /\ Current = call[n]
    BY <1>1 DEF Current
  <2>2. Started = 0 /\ Before(n) = n + 1
    BY <1>4, <2>1 DEF Started
  <2>3. Current.control.stop
    BY <1>1, <2>1, Position DEF Kind, Current
  <2> QED
    BY <1>1, <2>2, <2>3, Position
<1>7. /\ heard[1].what = "START" /\ heard[2].what = "WRITE" /\ heard[3].what = "WRITE"
      /\ heard[4].what = "START" /\ heard[5].what = "WRITE"
  <2>1. Told(1) /\ Told(2) /\ Told(3)
    BY <1>1, <1>2
  <2>2. heard[1].what = "START" /\ heard[2].what = "WRITE"
    <3> DEFINE at == Before(1) + One(call[1].control.start) + 1
    <3>1. at = 2 /\ Len(heard) >= 2
      BY <1>1, <1>5, <1>6 DEF One
    <3>2. /\ call[1].control.start /\ Len(heard) >= at - 1 => heard[at - 1].what = "START"
          /\ call[1].data # <<>> /\ Len(heard) >= at => heard[at].what = "WRITE"
      BY <2>1 DEF Told
    <3> HIDE DEF at
    <3>3. heard[at - 1].what = "START" /\ heard[at].what = "WRITE"
      BY <1>1, <1>5, <1>6, <3>1, <3>2
    <3> QED
      BY <3>1, <3>3
  <2>3. heard[3].what = "WRITE"
    BY <1>1, <1>5, <1>6, <2>1 DEF Told, One
  <2>4. heard[4].what = "START" /\ heard[5].what = "WRITE"
    BY <1>1, <1>3, <1>5, <1>6, <2>1 DEF Told, One
  <2> QED
    BY <2>2, <2>3, <2>4
<1>8. ASSUME NEW j \in 6 .. n + 2 PROVE heard[j].what = "READ"
  <2>1. j - 2 \in 4 .. n /\ j - 2 \in 1 .. n
    BY <1>1
  <2>2. Told(j - 2) /\ Before(j - 2) = j - 1 /\ call[j - 2].data = <<>>
        /\ One(call[j - 2].control.start) = 0
    BY <1>1, <1>2, <1>4, <2>1 DEF One
  <2>3. Len(heard) >= j /\ Before(j - 2) + One(call[j - 2].control.start) + 1 = j
    BY <1>1, <1>6, <2>2
  <2> QED
    BY <2>2, <2>3 DEF Told
<1>9. heard[n + 3].what = "STOP"
  <2>1. ByteAt + 1 = n + 3
    BY <1>6
  <2> QED
    BY <1>6, <2>1, Position DEF Told, Current
<1>10. DOMAIN heard = 1 .. n + 3
  BY <1>6, Position
<1> HIDE DEF n
<1>11. \A k \in DOMAIN heard : heard[k].what = "READ" <=> k \in 6 .. n + 2
  <2>1. \A k \in 1 .. n + 3 : k \in 1 .. 5 \/ k \in 6 .. n + 2 \/ k = n + 3
    BY <1>1
  <2>2. \A k \in 1 .. 5 : heard[k].what # "READ" /\ k \notin 6 .. n + 2
    <3>1. \A k \in 1 .. 5 : k = 1 \/ k = 2 \/ k = 3 \/ k = 4 \/ k = 5
      OBVIOUS
    <3> QED
      BY <1>7, <3>1
  <2>3. n + 3 \notin 6 .. n + 2
    BY <1>1
  <2> QED
    BY <1>8, <1>9, <1>10, <2>1, <2>2, <2>3
<1>12. 6 .. n + 2 \subseteq DOMAIN heard
  BY <1>1, <1>10
<1> QED
  BY <1>11, <1>12 DEF SentFrom, n

LEMMA SentInWrite ==
  ASSUME Inv, call # <<>>, step = Len(call), Len(heard) = ByteAt + 1, WriteShape
  PROVE  {k \in DOMAIN heard : heard[k].what = "READ"} = {}
<1> DEFINE n == Len(call)
<1>1. n \in Nat /\ n >= 3 /\ DOMAIN call = 1 .. n /\ CallShape
  BY Places, Position DEF CallShape
<1>2. \A k \in 1 .. n : Told(k)
  BY <1>1, HeardOf, Position DEF Inv, HeardInv
<1>3. ASSUME NEW k \in 3 .. n
      PROVE  call[k].data # <<>> /\ ~call[k].control.start /\ Before(k) = k
  <2>1. /\ call[k].data # <<>> /\ ~call[k].control.start
        /\ call[3].data # <<>> /\ ~call[3].control.start
    <3>1. \A j \in 3 .. n : call[j].data # <<>> /\ ~call[j].control.start
      BY <1>1, Written, Commands DEF WriteShape
    <3> QED
      BY <1>1, <3>1
  <2> QED
    BY <1>1, <2>1 DEF Before
<1>4. /\ call[1].control.start /\ call[1].data # <<>>
      /\ ~call[2].control.start /\ call[2].data # <<>>
      /\ Before(1) = 0 /\ Before(2) = 2
  BY <1>1, Written, Commands DEF CallShape, Before
<1>5. Len(heard) = n + 2 /\ Current.control.stop
  <2>1. n \in 3 .. n /\ Current = call[n]
    BY <1>1 DEF Current
  <2>2. Started = 0 /\ Before(n) = n
    BY <1>3, <2>1 DEF Started
  <2>3. Current.control.stop
    BY <1>1, <2>1, Position DEF Kind, Current
  <2> QED
    BY <1>1, <2>2, <2>3, Position
<1>6. heard[1].what = "START" /\ heard[2].what = "WRITE" /\ heard[3].what = "WRITE"
  <2>1. Told(1) /\ Told(2)
    BY <1>1, <1>2
  <2>2. heard[1].what = "START" /\ heard[2].what = "WRITE"
    <3> DEFINE at == Before(1) + One(call[1].control.start) + 1
    <3>1. at = 2 /\ Len(heard) >= 2
      BY <1>1, <1>4, <1>5 DEF One
    <3>2. /\ call[1].control.start /\ Len(heard) >= at - 1 => heard[at - 1].what = "START"
          /\ call[1].data # <<>> /\ Len(heard) >= at => heard[at].what = "WRITE"
      BY <2>1 DEF Told
    <3> HIDE DEF at
    <3>3. heard[at - 1].what = "START" /\ heard[at].what = "WRITE"
      BY <1>1, <1>4, <1>5, <3>1, <3>2
    <3> QED
      BY <3>1, <3>3
  <2>3. heard[3].what = "WRITE"
    BY <1>1, <1>4, <1>5, <2>1 DEF Told, One
  <2> QED
    BY <2>2, <2>3
<1>7. ASSUME NEW j \in 4 .. n + 1 PROVE heard[j].what = "WRITE"
  <2>1. j - 1 \in 3 .. n /\ j - 1 \in 1 .. n
    BY <1>1
  <2>2. Told(j - 1) /\ Before(j - 1) = j - 1 /\ call[j - 1].data # <<>>
        /\ One(call[j - 1].control.start) = 0
    BY <1>1, <1>2, <1>3, <2>1 DEF One
  <2>3. Len(heard) >= j /\ Before(j - 1) + One(call[j - 1].control.start) + 1 = j
    BY <1>1, <1>5, <2>2
  <2> QED
    BY <2>2, <2>3 DEF Told
<1>8. heard[n + 2].what = "STOP"
  <2>1. ByteAt + 1 = n + 2
    BY <1>5
  <2> QED
    BY <1>5, <2>1, Position DEF Told, Current
<1>9. DOMAIN heard = 1 .. n + 2
  BY <1>5, Position
<1> HIDE DEF n
<1>10. \A k \in 1 .. n + 2 : k = 1 \/ k = 2 \/ k = 3 \/ k \in 4 .. n + 1 \/ k = n + 2
  BY <1>1
<1> QED
  BY <1>6, <1>7, <1>8, <1>9, <1>10

(* The number of the bytes sent up to one of them. *)
LEMMA SentCount ==
  ASSUME NEW n \in Nat, NEW k \in 6 .. n + 2, n > 3
  PROVE  Cardinality({j \in 6 .. n + 2 : j <= k}) = k - 5
<1>1. {j \in 6 .. n + 2 : j <= k} = 6 .. k
  OBVIOUS
<1>2. Cardinality(6 .. k) = k - 5
  <2>1. Cardinality(6 .. k) = IF 6 > k THEN 0 ELSE k - 6 + 1
    BY FS_Interval
  <2> QED
    BY <2>1
<1> QED
  BY <1>1, <1>2

LEMMA InvResultTrue ==
  ASSUME Inv
  PROVE  ResultTrue
<1> SUFFICES ASSUME pc = "returned", call # <<>>
             PROVE  ResultTrue
  BY DEF ResultTrue
<1> DEFINE refused == {k \in DOMAIN heard : Refused(k)}
           sent == {k \in DOMAIN heard : heard[k].what = "READ"}
           Recorded(s) == /\ Len(value) = Cardinality(s)
                        /\ \A k \in s :
                             value[Cardinality({j \in s : j <= k})] = heard[k].byte
<1>1. Idling
  BY DEF Idling
<1>2. AnswerBit = i_ack_out
  <2>1. p_state \in {"Reset", "Idle"}
    BY DEF Inv, HandshakeInv, Busy
  <2>2. Asleep
    BY <1>1, <2>1 DEF Inv, DevicePart, DeviceInv
  <2> QED
    BY <2>2 DEF AnswerBit, Answering, Asleep
<1>3. CASE /\ result = "I2C_SUCCESS" /\ step = Len(call)
           /\ Len(heard) = ByteAt + 1
           /\ Current.data # <<>> => i_ack_out = 0
  <2>1. Current.control.stop /\ One(Current.control.stop) = 1
    BY <1>3, Position DEF Kind, Current, One
  <2>2. Len(heard) = Len(Script)
    <3>1. Len(Script) = Before(step) + Size(step)
      BY <1>3, Position, ScriptAt DEF Total
    <3> QED
      BY <1>3, <2>1, <3>1, Position
  <2>3. refused = {}
    <3>1. ASSUME NEW k \in DOMAIN heard, Refused(k) PROVE FALSE
      <4>1. k = ByteAt /\ Current.data # <<>> /\ Len(heard) >= ByteAt
        BY <1>3, <3>1, OnlyLast, Position
      <4>2. heard[ByteAt].ack = AnswerBit
        BY <4>1 DEF Inv, HeardInv
      <4> QED
        BY <1>2, <1>3, <3>1, <4>1, <4>2 DEF Refused
    <3> QED
      BY <3>1
  <2>4. Recorded(sent)
    <3>1. CASE ReadShape
      <4> DEFINE n == Len(call)
      <4>1. n \in Nat /\ n > 3
        BY <3>1, Places, Position DEF ReadShape
      <4>2. sent = 6 .. n + 2
        BY <1>3, <3>1, SentInRead DEF SentFrom
      <4>3. value = [j \in 1 .. n - 3 |-> heard[j + 5].byte]
        BY <1>1, <1>3, <3>1, <4>1 DEF Inv, ValueInv
      <4> HIDE DEF n
      <4>4. n - 3 \in Nat /\ Len(value) = n - 3
        BY <4>1, <4>3
      <4>5. Cardinality(6 .. n + 2) = n - 3
        <5>1. Cardinality(6 .. n + 2) = IF 6 > n + 2 THEN 0 ELSE (n + 2) - 6 + 1
          BY <4>1, FS_Interval
        <5> QED
          BY <4>1, <5>1
      <4>6. ASSUME NEW k \in 6 .. n + 2
            PROVE  value[Cardinality({j \in 6 .. n + 2 : j <= k})] = heard[k].byte
        <5>1. Cardinality({j \in 6 .. n + 2 : j <= k}) = k - 5
          BY <4>1, SentCount
        <5>2. k - 5 \in 1 .. n - 3 /\ (k - 5) + 5 = k
          BY <4>1
        <5> QED
          BY <4>3, <5>1, <5>2
      <4> HIDE DEF sent
      <4> QED
        BY <4>2, <4>4, <4>5, <4>6
    <3>2. CASE ~ReadShape
      <4>1. WriteShape
        BY <3>2, Position DEF CallShape
      <4>2. sent = {}
        BY <1>3, <4>1, SentInWrite
      <4>3. value = <<>>
        BY <3>2 DEF Inv, ValueInv
      <4>4. Len(value) = Cardinality({})
        BY <4>3, FS_EmptySet
      <4> HIDE DEF sent
      <4> QED
        BY <4>2, <4>4
    <3> QED
      BY <3>1, <3>2
  <2> QED
    BY <1>3, <2>2, <2>3, <2>4 DEF ResultTrue
<1>4. CASE /\ result = IF Current.control.start THEN "I2C_ENODEV" ELSE "I2C_EBADACK"
           /\ Len(heard) = ByteAt + (IF Current.control.stop THEN 1 ELSE 0)
           /\ Current.data # <<>> /\ i_ack_out = 1
  <2>1. result # "I2C_SUCCESS"
    BY <1>4
  <2>2. Len(heard) >= ByteAt /\ ByteAt \in DOMAIN heard
    BY <1>4, Position
  <2>3. Refused(ByteAt)
    <3>1. heard[ByteAt].ack = 1
      BY <1>2, <1>4, <2>2 DEF Inv, HeardInv
    <3>2. heard[ByteAt].what = "WRITE"
      BY <1>4, <2>2, Position DEF Told, Current
    <3> QED
      BY <3>1, <3>2 DEF Refused
  <2>4. refused # {}
    BY <2>2, <2>3
  <2>5. \A k \in refused :
          result = IF heard[k - 1].what = "START" THEN "I2C_ENODEV" ELSE "I2C_EBADACK"
    BY <1>4, <2>2, OnlyLast
  <2> QED
    BY <2>1, <2>4, <2>5 DEF ResultTrue
<1> QED
  BY <1>1, <1>3, <1>4 DEF Inv, ReturnInv

----------------------------------------------------------------------------
(* The theorems.                                                           *)

LEMMA Invariant == Spec => []Inv
<1>1. Init => Inv
  BY InitInv
<1>2. Inv /\ [Next]_vars => Inv'
  BY NextInv
<1> QED
  BY <1>1, <1>2, PTL DEF Spec

(* The registers of i2c_core, i2c_interface and i2c_clkgen keep their       *)
(* widths, the counter of the clock generator stays below a divisor that was *)
(* written, the bit counter within a byte, and the driver within its call.  *)
THEOREM TypeCorrect == Spec => []TypeOK
<1> DEFINE Result == result \in {"I2C_SUCCESS", "I2C_ENODEV", "I2C_EBADACK"}
<1>1. Init => Result
  BY DEF Init
<1>2. Result /\ [Next]_vars => Result'
  BY ResultStep
<1>3. Inv /\ Result => TypeOK
  BY InvTypes
<1> QED
  BY <1>1, <1>2, <1>3, Invariant, PTL DEF Spec

(* Whatever the divisor, the bytes and the answers of the device: on the    *)
(* wires a call of i2c.c is the START, bytes, answers and STOP of its       *)
(* transfers, in order and complete as far as it has come, and after a      *)
(* refused byte there is nothing but the STOP of its transfer.              *)
THEOREM CallHeardCorrect == Spec => []CallHeard
<1>1. Inv => CallHeard
  BY InvCallHeard
<1> QED
  BY <1>1, Invariant, PTL

(* What a call of i2c.c returns is what has happened: success if and only   *)
(* if the device has heard all of the call and has refused nothing, the     *)
(* error of the byte that it has refused otherwise; and the values of a     *)
(* successful read are the bytes that the device has sent, in order.        *)
THEOREM ResultTrueCorrect == Spec => []ResultTrue
<1>1. Inv => ResultTrue
  BY InvResultTrue
<1> QED
  BY <1>1, Invariant, PTL
=============================================================================
