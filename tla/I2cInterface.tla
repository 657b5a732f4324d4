---------------------------- MODULE I2cInterface ----------------------------
(***************************************************************************)
(* i2c_interface.vhd around the core: the data, control and clock divisor  *)
(* registers of the bus, the handshake that ends a command, the interrupt,  *)
(* the registers of the two lines, and i2c_clkgen.vhd.                      *)
(* The control register is a record with one field for each of its bits.    *)
(***************************************************************************)
EXTENDS I2cCore

CONSTANTS ResetDivisor,   \* i_clkdiv_reg after the reset
          Divisors        \* values that are written to it

VARIABLES control, i_data_reg, i_int_pe_reg, i_cmd_done_ack, irq,
          i_clkdiv_reg, clk_ctr, sclk, scl_in, sda_in

interfaceVars == <<coreVars, control, i_data_reg, i_int_pe_reg, i_cmd_done_ack,
                   irq, i_clkdiv_reg, clk_ctr, sclk, scl_in, sda_in>>

(* A divisor of 0 lets a quarter period pass in one clock, less than a line *)
(* takes from the output of the core to its input.                          *)
ASSUME DivisorAssumption ==
  {ResetDivisor} \union Divisors \subseteq Nat \ {0}

Control == [ack : Bit, stop : BOOLEAN, start : BOOLEAN, read : BOOLEAN,
            write : BOOLEAN, int_en : BOOLEAN]

(* A control byte with no bit set. *)
NoCommand == [ack |-> 0, stop |-> FALSE, start |-> FALSE, read |-> FALSE,
              write |-> FALSE, int_en |-> FALSE]

InterfaceInit ==
  /\ CoreInit
  /\ control = NoCommand
  /\ i_data_reg = [k \in 1 .. Bits |-> 0]
  /\ i_int_pe_reg = FALSE
  /\ i_cmd_done_ack = FALSE
  /\ irq = FALSE
  /\ i_clkdiv_reg = ResetDivisor
  /\ clk_ctr = 0
  /\ sclk = TRUE
  /\ scl_in = 1
  /\ sda_in = 1

i_tip_reg == control.read \/ control.write

(* The accesses of the bus.  Every access to DATA, of either direction,     *)
(* clears the pending interrupt; reads change nothing else.                 *)
NoAccess == [address |-> "NONE"]
Read(address) == [address |-> address, write |-> FALSE]
Write(address, value) == [address |-> address, write |-> TRUE, value |-> value]

(* data_in_sync while no transfer is in progress. *)
BusWrite(access) ==
  LET to(address) == access.address = address /\ access.write
  IN  /\ i_data_reg' = IF to("DATA") THEN access.value ELSE i_data_reg
      /\ control' = IF to("CONTROL") THEN access.value ELSE control
      /\ i_clkdiv_reg' = IF to("CLOCK_DIVISOR") THEN access.value ELSE i_clkdiv_reg
      /\ i_int_pe_reg' = (i_int_pe_reg /\ access.address # "DATA")
      /\ i_cmd_done_ack' = FALSE

(* Wrong: the write bit stays set at the end of a command. *)
TransferKeepsWrite ==
  /\ control' = IF cmd_done THEN [control EXCEPT !.read = FALSE, !.start = FALSE,
                                                 !.stop = FALSE]
                ELSE control
  /\ i_int_pe_reg' = (i_int_pe_reg \/ cmd_done)
  /\ i_cmd_done_ack' = cmd_done
  /\ UNCHANGED <<i_data_reg, i_clkdiv_reg>>

(* data_in_sync while a transfer is in progress: writes are ignored.        *)
Transfer ==
  /\ control' = IF cmd_done THEN [control EXCEPT !.write = FALSE, !.read = FALSE,
                                                 !.start = FALSE, !.stop = FALSE]
                ELSE control
  /\ i_int_pe_reg' = (i_int_pe_reg \/ cmd_done)
  /\ i_cmd_done_ack' = cmd_done
  /\ UNCHANGED <<i_data_reg, i_clkdiv_reg>>

ClockGenerator ==
  /\ clk_ctr' = IF clk_ctr >= i_clkdiv_reg THEN 0 ELSE clk_ctr + 1
  /\ sclk' = (clk_ctr >= i_clkdiv_reg)

(* The level of the lines: the master drives SCL, and either end pulls SDA. *)
scl == scl_out
sda(device) == IF sda_out = 1 /\ device = 1 THEN 1 ELSE 0

(* One clock of i2c_interface with an access, while the device on the bus   *)
(* lets SDA go (1) or pulls it (0).                                         *)
InterfaceEdge(access, device) ==
  /\ IF i_tip_reg THEN Transfer ELSE BusWrite(access)
  /\ CoreEdge(sclk, control, i_cmd_done_ack, i_data_reg, scl_in, sda_in)
  /\ ClockGenerator
  /\ irq' = (i_int_pe_reg /\ control.int_en)
  /\ scl_in' = scl
  /\ sda_in' = sda(device)
=============================================================================
