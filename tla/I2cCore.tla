------------------------------- MODULE I2cCore -------------------------------
(***************************************************************************)
(* i2c_core.vhd: the state machine that moves one byte, with its           *)
(* acknowledge bit, over the two lines of an I2C bus, after a START and     *)
(* before a STOP if the command says so.  A bit takes four quarter periods  *)
(* of the clock generator (sclk).  The byte has Bits bits, most significant *)
(* first.  The registered output busy is left out: nothing reads it.        *)
(***************************************************************************)
EXTENDS Naturals

CONSTANT Bits

ASSUME BitsAssumption == Bits \in 1 .. 8

VARIABLES p_state, i_ctr, i_dout, i_ack_out,
          scl_out, sda_out, data_out, ack_out, cmd_done

coreVars == <<p_state, i_ctr, i_dout, i_ack_out,
              scl_out, sda_out, data_out, ack_out, cmd_done>>

Bit == {0, 1}
Byte == [1 .. Bits -> Bit]

(* States that wait for sclk (i_sclk_en), and those that pass in one clock. *)
Quarter ==
  {"Start_A", "Start_B", "Start_C", "Start_D", "Stop_A", "Stop_B", "Stop_C",
   "Rd_A", "Rd_B", "Rd_D", "Rd_E", "RdAck_A", "RdAck_B", "RdAck_D", "RdAck_E",
   "Wr_A", "Wr_B", "Wr_C", "Wr_D", "WrAck_A", "WrAck_B", "WrAck_C", "WrAck_D"}
State ==
  Quarter \union {"Reset", "Idle", "Done", "DoneAck",
                  "Rd_C", "Rd_F", "RdAck_C", "Wr_E"}

CoreInit ==
  /\ p_state = "Reset"
  /\ i_ctr = 0
  /\ i_dout = [k \in 1 .. Bits |-> 0]
  /\ i_ack_out = 0
  /\ scl_out = 1
  /\ sda_out = 1
  /\ data_out = [k \in 1 .. Bits |-> 0]
  /\ ack_out = 0
  /\ cmd_done = FALSE

(* Between two commands both lines keep the level they have.                *)
Holding == p_state \in {"Idle", "Done", "DoneAck"}

i_scl_out(scl_in) ==
  IF Holding \/ p_state = "Start_A" THEN scl_in
  ELSE IF p_state \in {"Reset", "Start_B", "Start_C", "Stop_B", "Stop_C",
                       "Rd_B", "Rd_C", "Rd_D", "RdAck_B", "RdAck_C", "RdAck_D",
                       "Wr_B", "Wr_C", "WrAck_B", "WrAck_C"}
  THEN 1 ELSE 0

i_data_in(data_in) == data_in[i_ctr + 1]

i_sda_out(sda_in, ack_in, data_in) ==
  IF Holding THEN sda_in
  ELSE IF p_state \in {"Wr_A", "Wr_B", "Wr_C", "Wr_D", "Wr_E"}
  THEN i_data_in(data_in)
  ELSE IF p_state \in {"WrAck_A", "WrAck_B", "WrAck_C", "WrAck_D"} THEN ack_in
  ELSE IF p_state \in {"Start_C", "Start_D", "Stop_A", "Stop_B"} THEN 0
  ELSE 1

i_cmd_done == p_state \in {"Done", "DoneAck"}

(* Wrong: the counter is compared with the number of bits. *)
LastBitLate == i_ctr = Bits
LastBit == i_ctr = Bits - 1

(* A command begins with a START if it has one, otherwise with its byte.    *)
FirstState(cmd) ==
  IF ~(cmd.read \/ cmd.write) THEN "Idle"
  ELSE IF cmd.start THEN "Start_A"
  ELSE IF cmd.write THEN "Wr_A" ELSE "Rd_A"

AfterStart(cmd) ==
  IF cmd.write THEN "Wr_A" ELSE IF cmd.read THEN "Rd_A" ELSE "Start_D"

(* Wrong: the stop bit of the command is not looked at. *)
AfterAckStops(cmd) == "Stop_A"
AfterAck(cmd) == IF cmd.stop THEN "Stop_A" ELSE "Done"

(* The states that are left to one and the same successor. *)
Successor ==
  [Reset |-> "Idle",
   Start_A |-> "Start_B", Start_B |-> "Start_C", Start_C |-> "Start_D",
   Rd_A |-> "Rd_B", Rd_B |-> "Rd_C", Rd_C |-> "Rd_D", Rd_D |-> "Rd_E",
   Rd_F |-> "Rd_A",
   WrAck_A |-> "WrAck_B", WrAck_B |-> "WrAck_C", WrAck_C |-> "WrAck_D",
   Wr_A |-> "Wr_B", Wr_B |-> "Wr_C", Wr_C |-> "Wr_D", Wr_E |-> "Wr_A",
   RdAck_A |-> "RdAck_B", RdAck_B |-> "RdAck_C", RdAck_C |-> "RdAck_D",
   RdAck_D |-> "RdAck_E",
   Stop_A |-> "Stop_B", Stop_B |-> "Stop_C", Stop_C |-> "Done",
   Done |-> "DoneAck"]

n_state(cmd, cmd_done_ack) ==
  CASE p_state = "Idle" -> FirstState(cmd)
    [] p_state = "Start_D" -> AfterStart(cmd)
    [] p_state = "Rd_E" -> IF LastBit THEN "WrAck_A" ELSE "Rd_F"
    [] p_state = "Wr_D" -> IF LastBit THEN "RdAck_A" ELSE "Wr_E"
    [] p_state \in {"WrAck_D", "RdAck_E"} -> AfterAck(cmd)
    [] p_state = "DoneAck" -> IF cmd_done_ack THEN "Idle" ELSE "DoneAck"
    [] OTHER -> Successor[p_state]

(* The state machine, the bit counter and the two input registers. *)
Advance(sclk, cmd, cmd_done_ack) ==
  p_state' = IF p_state \in Quarter /\ ~sclk THEN p_state
             ELSE n_state(cmd, cmd_done_ack)

Count ==
  i_ctr' = IF p_state = "Idle" THEN 0
           ELSE IF p_state \in {"Rd_F", "Wr_E"} THEN (i_ctr + 1) % 8
           ELSE i_ctr

Sample(sda_in) ==
  /\ i_dout' = IF p_state = "Rd_C" THEN [i_dout EXCEPT ![i_ctr + 1] = sda_in]
               ELSE i_dout
  /\ i_ack_out' = IF p_state = "RdAck_C" THEN sda_in ELSE i_ack_out

(* Every output is registered. *)
Outputs(scl_in, sda_in, ack_in, data_in) ==
  /\ scl_out' = i_scl_out(scl_in)
  /\ sda_out' = i_sda_out(sda_in, ack_in, data_in)
  /\ data_out' = i_dout
  /\ ack_out' = i_ack_out
  /\ cmd_done' = i_cmd_done

(* One clock of i2c_core. *)
CoreEdge(sclk, cmd, cmd_done_ack, data_in, scl_in, sda_in) ==
  /\ Advance(sclk, cmd, cmd_done_ack)
  /\ Count
  /\ Sample(sda_in)
  /\ Outputs(scl_in, sda_in, cmd.ack, data_in)
=============================================================================
