------------------------------ MODULE I2cDevice ------------------------------
(***************************************************************************)
(* The device at the other end of the bus, which is not in the repository: *)
(* a slave that follows the I2C protocol from the levels of the two lines  *)
(* alone.  It may refuse any byte, so it also stands for no device at all.  *)
(* heard is what it has made of the lines since the call began.             *)
(***************************************************************************)
EXTENDS Naturals, Sequences

CONSTANTS Bits,
          Sent     \* bytes that the device sends when it is read

VARIABLES mode, count, shift, pull, lineScl, lineSda, heard

deviceVars == <<mode, count, shift, pull, lineScl, lineSda, heard>>

(* asleep until a START; receive and answer a byte; send one and listen to  *)
(* the answer.                                                              *)
Mode == {"asleep", "receive", "answer", "send", "listen"}

Blank == [k \in 1 .. Bits |-> 0]
Event(what, byte, ack) == [what |-> what, byte |-> byte, ack |-> ack]

DeviceInit ==
  /\ mode = "asleep"
  /\ count = 0
  /\ shift = Blank
  /\ pull = 1
  /\ lineScl = 1
  /\ lineSda = 1
  /\ heard = <<>>

Become(m, n, level) == mode' = m /\ count' = n /\ pull' = level

Hear(event) == heard' = Append(heard, event)

(* SDA moves while SCL is high: a START or a STOP. *)
Condition(sda) ==
  /\ IF sda = 0 THEN Become("receive", 0, 1) ELSE Become("asleep", 0, 1)
  /\ Hear(Event(IF sda = 0 THEN "START" ELSE "STOP", Blank, 0))
  /\ UNCHANGED shift

(* SCL rises: the level of SDA is taken. *)
Rise(sda) ==
  /\ IF mode = "receive" THEN shift' = [shift EXCEPT ![count + 1] = sda]
                         ELSE UNCHANGED shift
  /\ Become(mode, IF mode \in {"receive", "send"} THEN count + 1 ELSE count, pull)
  /\ IF mode = "listen" THEN Hear(Event("READ", shift, sda)) ELSE UNCHANGED heard

Send(byte) == Become("send", 0, byte[1]) /\ shift' = byte

(* The byte after a START is an address, whose last bit asks for data. *)
AddressedToRead ==
  /\ shift[Bits] = 1
  /\ Len(heard) > 1 /\ heard[Len(heard) - 1].what = "START"

(* SCL falls: the device puts its next level on SDA. *)
Fall ==
  \/ /\ mode = "receive" /\ count = Bits
     /\ \E ack \in {0, 1} : /\ Become("answer", 0, ack)
                            /\ Hear(Event("WRITE", shift, ack))
     /\ UNCHANGED shift
  \/ /\ mode = "answer" /\ pull = 1
     /\ Become("asleep", 0, 1)
     /\ UNCHANGED <<shift, heard>>
  \/ /\ mode = "answer" /\ pull = 0
     /\ IF AddressedToRead THEN \E byte \in Sent : Send(byte)
        ELSE Become("receive", 0, 1) /\ UNCHANGED shift
     /\ UNCHANGED heard
  \/ /\ mode = "send"
     /\ IF count = Bits THEN Become("listen", 0, 1)
        ELSE Become("send", count, shift[count + 1])
     /\ UNCHANGED <<shift, heard>>
  \/ /\ mode = "listen"
     /\ IF heard[Len(heard)].ack = 0 THEN \E byte \in Sent : Send(byte)
        ELSE Become("asleep", 0, 1) /\ UNCHANGED shift
     /\ UNCHANGED heard
  \/ /\ \/ mode = "asleep"
        \/ mode = "receive" /\ count < Bits
     /\ UNCHANGED <<mode, count, pull, shift, heard>>

(* One look at the lines. *)
DeviceEdge(scl, sda) ==
  /\ lineScl' = scl
  /\ lineSda' = sda
  /\ IF lineScl = 1 /\ scl = 1 /\ sda # lineSda THEN Condition(sda)
     ELSE IF lineScl = 0 /\ scl = 1 THEN Rise(sda)
     ELSE IF lineScl = 1 /\ scl = 0 THEN Fall
     ELSE UNCHANGED <<mode, count, pull, shift, heard>>
=============================================================================
