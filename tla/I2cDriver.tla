------------------------------ MODULE I2cDriver ------------------------------
(***************************************************************************)
(* i2c.c on the interface and a device: the calls of the program, each a   *)
(* list of transfers, and each transfer a few accesses of the bus, with the *)
(* hardware taking one step in every clock.                                 *)
(***************************************************************************)
EXTENDS I2cInterface, Sequences, SequencesExt

CONSTANTS Devices,   \* device addresses, as bytes
          Values,    \* register indices and values written
          Sent,      \* bytes that the device sends
          Sizes      \* lengths of the arrays read and written

VARIABLES call,      \* the call in progress: its transfers, in order
          step,      \* the transfer the call is at
          pc,        \* the next access of the program
          value,     \* bytes that the call has read
          result,    \* what the last call returned
          mode, count, shift, pull, lineScl, lineSda, heard

D == INSTANCE I2cDevice

driverVars == <<call, step, pc, value, result>>
vars == <<interfaceVars, driverVars, D!deviceVars>>

ASSUME ByteAssumption == Devices \union Values \union Sent \subseteq Byte

(* Reading no bytes ends a call in the middle of a byte of the device.      *)
ASSUME SizeAssumption == Sizes \subseteq Nat \ {0}

----------------------------------------------------------------------------
(* The transfers of a call: the control byte, and the data byte if it is    *)
(* a write.                                                                 *)
Set(byte, command) == [control |-> command, data |-> <<byte>>]
Get(command) == [control |-> command, data |-> <<>>]

START == [NoCommand EXCEPT !.start = TRUE, !.write = TRUE]
WRITE == [NoCommand EXCEPT !.write = TRUE]
WRITE_STOP == [NoCommand EXCEPT !.write = TRUE, !.stop = TRUE]
READ == [NoCommand EXCEPT !.read = TRUE]
READ_STOP == [NoCommand EXCEPT !.read = TRUE, !.stop = TRUE, !.ack = 1]
STOP == [NoCommand EXCEPT !.stop = TRUE]

ForWriting(device) == [device EXCEPT ![Bits] = 0]
ForReading(device) == [device EXCEPT ![Bits] = 1]

Begin(device, index) == <<Set(ForWriting(device), START), Set(index, WRITE)>>

i2c_write_array(device, index, values) ==
  Begin(device, index) \o
  [k \in DOMAIN values |->
     Set(values[k], IF k < Len(values) THEN WRITE ELSE WRITE_STOP)]

i2c_write(device, index, byte) ==
  Begin(device, index) \o <<Set(byte, WRITE_STOP)>>

i2c_read_array(device, index, size) ==
  Begin(device, index) \o <<Set(ForReading(device), START)>> \o
  [k \in 1 .. size |-> Get(IF k < size THEN READ ELSE READ_STOP)]

i2c_read(device, index) ==
  Begin(device, index) \o <<Set(ForReading(device), START), Get(READ_STOP)>>

Transfers ==
  UNION { {i2c_write(d, x, v) : v \in Values}
            \union {i2c_read(d, x)}
            \union {i2c_write_array(d, x, v) : v \in UNION {[1 .. n -> Values] : n \in Sizes}}
            \union {i2c_read_array(d, x, n) : n \in Sizes}
          : d \in Devices, x \in Values }

----------------------------------------------------------------------------
Init ==
  /\ InterfaceInit
  /\ D!DeviceInit
  /\ call = <<>>
  /\ step = 1
  /\ pc = "returned"
  /\ value = <<>>
  /\ result = "I2C_SUCCESS"

(* One clock of the hardware, with an access of the program or without: the *)
(* program takes any time between two accesses.                             *)
Access(access) ==
  /\ InterfaceEdge(access, pull)
  /\ D!DeviceEdge(scl, sda(pull))

Compute == Access(NoAccess) /\ UNCHANGED driverVars

Current == call[step]

Goto(next) == pc' = next /\ UNCHANGED <<call, step, value, result>>

Return(code) ==
  pc' = "returned" /\ result' = code /\ UNCHANGED <<call, step, value>>

(* The next call of the program; what the device hears is noted from here. *)
Call ==
  /\ pc = "returned"
  /\ call' \in Transfers
  /\ step' = 1
  /\ pc' = "wait_before"
  /\ value' = <<>>
  /\ heard' = <<>>
  /\ UNCHANGED <<result, interfaceVars, mode, count, shift, pull, lineScl, lineSda>>

(* i2c_init, between two calls. *)
i2c_init ==
  /\ pc = "returned"
  /\ \E divisor \in Divisors : Access(Write("CLOCK_DIVISOR", divisor))
  /\ UNCHANGED <<call, step, pc, value, result>>

(* i2c_configure, between two calls: two control bytes, and no poll.        *)
i2c_configure ==
  /\ pc = "returned"
  /\ Access(Write("CONTROL", STOP))
  /\ \E enable \in {"configure_irq", "configure_no_irq"} : Goto(enable)

ConfigureInterrupt ==
  /\ pc \in {"configure_irq", "configure_no_irq"}
  /\ Access(Write("CONTROL", [NoCommand EXCEPT !.int_en = (pc = "configure_irq")]))
  /\ Goto("returned")

(* wait_end_of_transfer: a read of the status, again and again. *)
wait_end_of_transfer(then) ==
  /\ Access(Read("STATUS"))
  /\ IF i_tip_reg THEN Goto(pc) ELSE Goto(then)

WaitBefore ==
  /\ pc = "wait_before"
  /\ wait_end_of_transfer(IF Current.data # <<>> THEN "data" ELSE "control")

WriteData ==
  /\ pc = "data"
  /\ Access(Write("DATA", Current.data[1]))
  /\ Goto("control")

(* Wrong: the status is read before the transfer has ended. *)
WriteControlUnwaited ==
  /\ pc = "control"
  /\ Access(Write("CONTROL", Current.control))
  /\ Goto(IF Current.data # <<>> THEN "status" ELSE "value")

WriteControl ==
  /\ pc = "control"
  /\ Access(Write("CONTROL", Current.control))
  /\ Goto("wait_after")

WaitAfter ==
  /\ pc = "wait_after"
  /\ wait_end_of_transfer(IF Current.data # <<>> THEN "status" ELSE "value")

(* The next transfer of the call, or its end. *)
NextTransfer ==
  IF step < Len(call)
  THEN /\ step' = step + 1
       /\ pc' = "wait_before"
       /\ UNCHANGED result
  ELSE /\ pc' = "returned"
       /\ result' = "I2C_SUCCESS"
       /\ UNCHANGED step

(* The acknowledge bit after a write. *)
CheckAcknowledge ==
  /\ pc = "status"
  /\ Access(Read("STATUS"))
  /\ IF ack_out = 1 THEN Goto("abort")
     ELSE NextTransfer /\ UNCHANGED <<call, value>>

(* The byte read, and then the next one. *)
ReadValue ==
  /\ pc = "value"
  /\ Access(Read("DATA"))
  /\ value' = Append(value, data_out)
  /\ NextTransfer
  /\ UNCHANGED call

(* After a refused byte: a control byte with STOP and no command, and the   *)
(* call returns an error that says which byte it was.                       *)
Abort ==
  /\ pc = "abort"
  /\ Access(Write("CONTROL", STOP))
  /\ Return(IF Current.control.start THEN "I2C_ENODEV" ELSE "I2C_EBADACK")

Program ==
  \/ Call
  \/ i2c_init \/ i2c_configure \/ ConfigureInterrupt
  \/ WaitBefore \/ WriteData \/ WriteControl \/ WaitAfter
  \/ CheckAcknowledge \/ ReadValue \/ Abort

Next == Program \/ Compute

Spec == Init /\ [][Next]_vars

(* The clock runs, and a call in progress goes on.                          *)
FairSpec ==
  /\ Spec
  /\ WF_vars(Next)
  /\ SF_vars(pc # "returned" /\ Program)

----------------------------------------------------------------------------
(* Types of the registers, of the driver and of the device. *)
TypeOK ==
  /\ p_state \in State
  /\ i_ctr \in 0 .. Bits - 1
  /\ {i_dout, data_out, i_data_reg} \subseteq Byte
  /\ {i_ack_out, ack_out, scl_out, sda_out, scl_in, sda_in} \subseteq Bit
  /\ {cmd_done, i_int_pe_reg, i_cmd_done_ack, irq, sclk} \subseteq BOOLEAN
  /\ control \in Control
  /\ i_clkdiv_reg \in Divisors \union {ResetDivisor}
  /\ \E divisor \in Divisors \union {ResetDivisor} : clk_ctr \in 0 .. divisor
  /\ mode \in D!Mode
  /\ step \in DOMAIN call \union {1}
  /\ result \in {"I2C_SUCCESS", "I2C_ENODEV", "I2C_EBADACK"}

(* What the device must make of a transfer. *)
Expected(transfer) ==
  (IF transfer.control.start THEN <<D!Event("START", D!Blank, 0)>> ELSE <<>>)
  \o (IF transfer.data # <<>> THEN <<D!Event("WRITE", transfer.data[1], 0)>>
      ELSE <<D!Event("READ", D!Blank, transfer.control.ack)>>)
  \o (IF transfer.control.stop THEN <<D!Event("STOP", D!Blank, 0)>> ELSE <<>>)

Script == FlattenSeq([k \in DOMAIN call |-> Expected(call[k])])

(* An event is as announced: the byte of a write is given, and so is the    *)
(* answer to a byte read; the other way round the device is free.           *)
Matches(event, expected) ==
  /\ event.what = expected.what
  /\ event.what = "WRITE" => event.byte = expected.byte
  /\ event.what = "READ" => event.ack = expected.ack

Refused(k) == heard[k].what = "WRITE" /\ heard[k].ack = 1

(* On the wires, sampled by the device at its own times, a call is the      *)
(* START, bytes, answers and STOP of its transfers, in order, whatever      *)
(* happened before it: no spurious condition, no bit lost or doubled by the *)
(* registers between core and lines, and nothing after a refused byte but   *)
(* the STOP of the same transfer.                                           *)
CallHeard ==
  /\ Len(heard) <= Len(Script)
  /\ \A k \in DOMAIN heard : Matches(heard[k], Script[k])
  /\ \A k \in 1 .. Len(heard) - 1 : Refused(k) => heard[k + 1].what = "STOP"

(* What a call returns is what happened: success means that the device has  *)
(* heard all of it and refused nothing, an error names the refused byte,    *)
(* and the values are the bytes that the device sent.                       *)
ResultTrue ==
  (pc = "returned" /\ call # <<>>) =>
    LET refused == {k \in DOMAIN heard : Refused(k)}
    IN  /\ result = "I2C_SUCCESS" <=>
             Len(heard) = Len(Script) /\ refused = {}
        /\ \A k \in refused :
             result = (IF heard[k - 1].what = "START"
                       THEN "I2C_ENODEV" ELSE "I2C_EBADACK")
        /\ result = "I2C_SUCCESS" =>
             LET sent == {k \in DOMAIN heard : heard[k].what = "READ"}
             IN  /\ Len(value) = Cardinality(sent)
                 /\ \A k \in sent :
                      value[Cardinality({j \in sent : j <= k})] = heard[k].byte

(* Every call returns: the end of a transfer is never missed by a poll, and *)
(* no command is cleared by the end of the one before.                      *)
CallsEnd == pc # "returned" ~> pc = "returned"
=============================================================================
