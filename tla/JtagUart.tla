------------------------------ MODULE JtagUart ------------------------------
(***************************************************************************)
(* The interrupt driven JTAG UART driver behind stdin, stdout and stderr    *)
(* (drivers/src/altera_avalon_jtag_uart_*.c): the program's calls of write, *)
(* read, close and ioctl, the interrupt routine, and the timeout of the     *)
(* system clock, which share two rings of characters without a lock.  The   *)
(* device with its two FIFOs and the host at the other end are modelled     *)
(* from how the driver uses them.                                           *)
(*                                                                         *)
(* A character is its number in its stream, modulo Numbers, so that one     *)
(* that is lost, doubled or overtaken shows.                                *)
(***************************************************************************)
EXTENDS Naturals, Sequences, SequencesExt

CONSTANTS BUF_LEN,     \* ALTERA_AVALON_JTAG_UART_BUF_LEN
          Depth,       \* characters in each FIFO of the device
          Numbers,     \* characters are numbered modulo this
          Counts,      \* sizes of the program's reads and writes
          INT_MAX,
          Timeout,     \* ALTERA_AVALON_JTAG_UART_DEFAULT_TIMEOUT
          NewTimeouts  \* what TIOCSTIMEOUT asks for

ASSUME BufferAssumption ==
  /\ BUF_LEN \in Nat /\ BUF_LEN > 1
  /\ Depth \in Nat \ {0}
  /\ Numbers \in Nat /\ Numbers > BUF_LEN + Depth - 1
  /\ Counts \subseteq Nat \ {0}

ASSUME TimeoutAssumption ==
  /\ INT_MAX \in Nat /\ INT_MAX > 2
  /\ Timeout \in 1 .. INT_MAX - 1
  /\ NewTimeouts \subseteq 0 .. INT_MAX

VARIABLES
  \* the device and the host
  txFifo, rxFifo,
  hostNext,    \* number of the next character the host expects
  typed,       \* number of the next character the host types
  \* altera_avalon_jtag_uart_state
  timeout, irq_enable, host_inactive, rx_in, rx_out, tx_in, tx_out, rx_buf, tx_buf,
  \* the interrupt routine: its place, and what it has read from the device
  isr, wi, space, avail,
  \* the program: its place in a call, the locals of the call
  pc, in, out, n, count, moved, nonblock,
  written,     \* number of the next character the program writes
  expected     \* number of the next character the program should read

device == <<txFifo, rxFifo>>
host == <<hostNext, typed>>
tx == <<tx_in, tx_out, tx_buf>>
rx == <<rx_in, rx_out, rx_buf>>
clock == <<timeout, host_inactive>>
irqVars == <<isr, wi, space, avail>>
locals == <<in, out, n, count, moved, nonblock>>
program == <<pc, locals, written, expected>>
vars == <<device, host, tx, rx, clock, irq_enable, irqVars, program>>

Index == 0 .. BUF_LEN - 1
Following(i, k) == (i + k) % BUF_LEN
Number(k) == k % Numbers

(* altera_avalon_jtag_uart_init: read interrupts on; without a system clock *)
(* the alarm cannot be set, and the host is taken to be there for ever.     *)
Init ==
  /\ txFifo = <<>> /\ rxFifo = <<>>
  /\ hostNext = 0 /\ typed = 0
  /\ timeout \in {Timeout, INT_MAX}
  /\ irq_enable = {"RE"}
  /\ host_inactive = 0
  /\ rx_in = 0 /\ rx_out = 0 /\ rx_buf = [i \in Index |-> 0]
  /\ tx_in = 0 /\ tx_out = 0 /\ tx_buf = [i \in Index |-> 0]
  /\ isr = "off" /\ wi = FALSE /\ space = 0 /\ avail = FALSE
  /\ pc = "idle" /\ in = 0 /\ out = 0 /\ n = 0 /\ count = 0 /\ moved = 0
  /\ nonblock = FALSE
  /\ written = 0 /\ expected = 0

----------------------------------------------------------------------------
(* The device, and the host that takes characters from it and types others. *)
RI == "RE" \in irq_enable /\ rxFifo # <<>>
WI == "WE" \in irq_enable /\ Len(txFifo) < Depth

HostTake ==
  /\ txFifo # <<>>
  /\ txFifo' = Tail(txFifo)
  /\ hostNext' = Number(hostNext + 1)
  /\ UNCHANGED <<rxFifo, typed>>

HostType ==
  /\ Len(rxFifo) < Depth
  /\ rxFifo' = Append(rxFifo, typed)
  /\ typed' = Number(typed + 1)
  /\ UNCHANGED <<txFifo, hostNext>>

Host ==
  /\ HostTake \/ HostType
  /\ UNCHANGED <<tx, rx, clock, irq_enable, irqVars, program>>

----------------------------------------------------------------------------
(* altera_avalon_jtag_uart_irq.  The processor leaves the program alone     *)
(* until the routine returns; the device goes on.                           *)
IrqControl ==
  /\ \/ isr = "off" /\ (RI \/ WI)
     \/ isr = "control"
  /\ isr' = IF RI THEN "receive" ELSE IF WI THEN "transmit" ELSE "off"
  /\ wi' = WI
  /\ space' = IF WI THEN Depth - Len(txFifo) ELSE 0
  /\ avail' = RI
  /\ UNCHANGED <<device, rx, tx, irq_enable>>

RxFull == Following(rx_in, 1) = rx_out

AfterReceive ==
  /\ isr' = IF wi THEN "transmit" ELSE "control"
  /\ avail' = FALSE

(* Wrong: the ring is not looked at before a character is taken. *)
IrqReceiveUnchecked ==
  /\ isr = "receive"
  /\ rxFifo # <<>>
  /\ rx_buf' = [rx_buf EXCEPT ![rx_in] = Head(rxFifo)]
  /\ rx_in' = Following(rx_in, 1)
  /\ rxFifo' = Tail(rxFifo)
  /\ avail' = (rxFifo' # <<>>)
  /\ UNCHANGED <<isr, txFifo, rx_out, tx, irq_enable, wi, space>>

(* A character goes from the device to the ring. *)
IrqReceive ==
  /\ isr = "receive"
  /\ ~RxFull
  /\ rxFifo # <<>>
  /\ rx_buf' = [rx_buf EXCEPT ![rx_in] = Head(rxFifo)]
  /\ rx_in' = Following(rx_in, 1)
  /\ rxFifo' = Tail(rxFifo)
  /\ avail' = (rxFifo' # <<>>)
  /\ UNCHANGED <<isr, txFifo, rx_out, tx, irq_enable, wi, space>>

(* The device has no more characters. *)
IrqReceiveEmpty ==
  /\ isr = "receive"
  /\ ~RxFull
  /\ rxFifo = <<>>
  /\ AfterReceive
  /\ UNCHANGED <<device, rx, tx, irq_enable, wi, space>>

(* The ring is full: no receive interrupts while there are characters.      *)
IrqReceiveFull ==
  /\ isr = "receive"
  /\ RxFull
  /\ irq_enable' = IF avail THEN irq_enable \ {"RE"} ELSE irq_enable
  /\ AfterReceive
  /\ UNCHANGED <<device, rx, tx, wi, space>>

(* A character goes from the ring to the device. *)
IrqTransmit ==
  /\ isr = "transmit"
  /\ space > 0 /\ tx_out # tx_in
  /\ txFifo' = Append(txFifo, tx_buf[tx_out])
  /\ tx_out' = Following(tx_out, 1)
  /\ space' = space - 1
  /\ UNCHANGED <<isr, rxFifo, rx, tx_in, tx_buf, irq_enable, wi, avail>>

(* Wrong: transmit interrupts go off although there is data in the ring.    *)
IrqTransmitEndAlways ==
  /\ isr = "transmit"
  /\ ~(space > 0 /\ tx_out # tx_in)
  /\ irq_enable' = irq_enable \ {"WE"}
  /\ isr' = "control" /\ wi' = FALSE /\ space' = 0
  /\ UNCHANGED <<device, rx, tx, avail>>

(* Nothing left to send, or no space: in the first case no more interrupts. *)
IrqTransmitEnd ==
  /\ isr = "transmit"
  /\ ~(space > 0 /\ tx_out # tx_in)
  /\ irq_enable' = IF space > 0 THEN irq_enable \ {"WE"} ELSE irq_enable
  /\ isr' = "control" /\ wi' = FALSE /\ space' = 0
  /\ UNCHANGED <<device, rx, tx, avail>>

Irq ==
  /\ \/ IrqControl
     \/ IrqReceive \/ IrqReceiveEmpty \/ IrqReceiveFull
     \/ IrqTransmit \/ IrqTransmitEnd
  /\ UNCHANGED <<host, clock, program>>

(* altera_avalon_jtag_uart_timeout, once a second if there is a clock: the  *)
(* host has polled the device since the last time (bit AC), or it has not.  *)
Alarm ==
  /\ timeout # INT_MAX
  /\ isr = "off"
  /\ \/ host_inactive' = 0
     \/ host_inactive' = IF host_inactive < INT_MAX - 2 THEN host_inactive + 1
                         ELSE host_inactive
  /\ UNCHANGED <<device, host, tx, rx, timeout, irq_enable, irqVars, program>>

----------------------------------------------------------------------------
(* The program.  It runs only outside the interrupt routine.                *)
HostGone == host_inactive >= timeout

Goto(next) == isr = "off" /\ pc' = next

(* A step within a call, and the end of one.  A local that is not used      *)
(* again before it is set is 0 meanwhile.                                   *)
ForgetSnapshot == in' = 0 /\ out' = 0 /\ n' = 0
Continue(next) == Goto(next) /\ UNCHANGED locals
Return ==
  /\ Goto("idle")
  /\ ForgetSnapshot
  /\ count' = 0 /\ moved' = 0 /\ nonblock' = FALSE

(* A call begins with count characters to move, and none moved. *)
Call(first) ==
  /\ pc = "idle"
  /\ Goto(first)
  /\ count' \in Counts
  /\ moved' = 0
  /\ nonblock' \in BOOLEAN
  /\ UNCHANGED <<tx, rx, clock, irq_enable, in, out, n, written, expected>>

(* Wrong: the slot that tells a full ring from an empty one is not kept. *)
RoomToLast(i, o) == IF i < o THEN o - i ELSE BUF_LEN - i

(* write: how much fits, from a snapshot of both pointers. *)
Room(i, o) == IF i < o THEN o - 1 - i
              ELSE IF o > 0 THEN BUF_LEN - i
              ELSE BUF_LEN - 1 - i

WriteSpace ==
  /\ pc = "write"
  /\ IF count = 0 THEN Goto("kick") /\ UNCHANGED <<in, out, n>>
     ELSE /\ in' = tx_in
          /\ out' = tx_out
          /\ n' = Min({Room(tx_in, tx_out), count})
          /\ Goto(IF n' = 0 THEN "kick" ELSE "copy")
  /\ UNCHANGED <<tx, rx, clock, irq_enable, count, moved, nonblock, written, expected>>

WriteCopy ==
  /\ pc = "copy"
  /\ Continue("advance")
  /\ tx_buf' = [i \in Index |-> IF i \in in .. in + n - 1
                                THEN Number(written + (i - in)) ELSE tx_buf[i]]
  /\ UNCHANGED <<tx_in, tx_out, rx, clock, irq_enable, written, expected>>

(* Wrong: the ring pointer does not wrap. *)
WriteAdvanceNoWrap ==
  /\ pc = "advance"
  /\ Goto("write")
  /\ tx_in' = in + n
  /\ written' = Number(written + n)
  /\ count' = count - n
  /\ ForgetSnapshot
  /\ UNCHANGED <<tx_out, tx_buf, rx, clock, irq_enable, moved, nonblock, expected>>

WriteAdvance ==
  /\ pc = "advance"
  /\ Goto("write")
  /\ tx_in' = Following(in, n)
  /\ written' = Number(written + n)
  /\ count' = count - n
  /\ ForgetSnapshot
  /\ UNCHANGED <<tx_out, tx_buf, rx, clock, irq_enable, moved, nonblock, expected>>

(* The interrupt routine is woken; with data left the call waits for space. *)
WriteKick ==
  /\ pc = "kick"
  /\ irq_enable' = irq_enable \union {"WE"}
  /\ IF count > 0 /\ ~nonblock
       THEN Goto("wait_space") /\ in' = 0 /\ n' = 0 /\ UNCHANGED <<out, count, moved, nonblock>>
       ELSE Return
  /\ UNCHANGED <<tx, rx, clock, written, expected>>

WriteWait ==
  /\ pc = "wait_space"
  /\ out # tx_out \/ HostGone
  /\ IF host_inactive > 0 THEN Return
     ELSE Goto("write") /\ ForgetSnapshot /\ UNCHANGED <<count, moved, nonblock>>
  /\ UNCHANGED <<tx, rx, clock, irq_enable, written, expected>>

(* read: what is there, up to the end of the ring. *)
Available(i, o) == IF i >= o THEN i - o ELSE BUF_LEN - o

ReadData ==
  /\ pc = "read"
  /\ rx_in # rx_out
  /\ in' = rx_in
  /\ out' = rx_out
  /\ n' = Min({Available(rx_in, rx_out), count})
  /\ Goto("take")
  /\ UNCHANGED <<tx, rx, clock, irq_enable, count, moved, nonblock, written, expected>>

(* The ring is empty: the call ends with what it has, or waits for more.    *)
ReadNothing ==
  /\ pc = "read"
  /\ rx_in = rx_out
  /\ IF moved = 0 /\ nonblock THEN Return
     ELSE /\ Goto(IF moved > 0 THEN "enable" ELSE "wait_data")
          /\ in' = rx_in
          /\ out' = 0 /\ n' = 0
          /\ UNCHANGED <<count, moved, nonblock>>
  /\ UNCHANGED <<tx, rx, clock, irq_enable, written, expected>>

(* The characters copied must be the next ones that the host has typed.     *)
InOrder == \A k \in 0 .. n - 1 : rx_buf[out + k] = Number(expected + k)

ReadTake ==
  /\ pc = "take"
  /\ Continue("release")
  /\ expected' = IF InOrder THEN Number(expected + n) ELSE Numbers
  /\ UNCHANGED <<tx, rx, clock, irq_enable, written>>

ReadRelease ==
  /\ pc = "release"
  /\ rx_out' = Following(out, n)
  /\ count' = count - n
  /\ moved' = moved + n
  /\ Goto(IF count' > 0 THEN "read" ELSE "enable")
  /\ ForgetSnapshot
  /\ UNCHANGED <<tx, rx_in, rx_buf, clock, irq_enable, nonblock, written, expected>>

ReadWait ==
  /\ pc = "wait_data"
  /\ in # rx_in \/ HostGone
  /\ IF in = rx_in THEN Return
     ELSE Goto("read") /\ ForgetSnapshot /\ UNCHANGED <<count, moved, nonblock>>
  /\ UNCHANGED <<tx, rx, clock, irq_enable, written, expected>>

(* There is space again. *)
ReadEnable ==
  /\ pc = "enable"
  /\ irq_enable' = irq_enable \union {"RE"}
  /\ Return
  /\ UNCHANGED <<tx, rx, clock, written, expected>>

(* close: waits for the ring to drain, unless it must not block. *)
Close ==
  /\ pc = "close"
  /\ tx_out = tx_in \/ HostGone \/ nonblock
  /\ Return
  /\ UNCHANGED <<tx, rx, clock, irq_enable, written, expected>>

(* ioctl TIOCSTIMEOUT, if there is a clock. *)
SetTimeout ==
  /\ pc = "idle"
  /\ Continue("idle")
  /\ timeout # INT_MAX
  /\ timeout' \in {IF t >= 2 /\ t < INT_MAX THEN t ELSE INT_MAX - 1 : t \in NewTimeouts}
  /\ UNCHANGED <<tx, rx, host_inactive, irq_enable, written, expected>>

Program ==
  /\ \/ Call("write") \/ WriteSpace \/ WriteCopy \/ WriteAdvance \/ WriteKick \/ WriteWait
     \/ Call("read") \/ ReadData \/ ReadNothing \/ ReadTake \/ ReadRelease \/ ReadWait \/ ReadEnable
     \/ Call("close") \/ Close
     \/ SetTimeout
  /\ UNCHANGED <<device, host, irqVars>>

Next == Host \/ Irq \/ Alarm \/ Program

Spec == Init /\ [][Next]_vars

----------------------------------------------------------------------------
(* Types of the driver's state, and of the pointers that a call has read.   *)
TypeOK ==
  /\ {rx_in, rx_out, tx_in, tx_out, in, out} \subseteq Index
  /\ rx_buf \in [Index -> 0 .. Numbers - 1]
  /\ tx_buf \in [Index -> 0 .. Numbers - 1]
  /\ Len(txFifo) <= Depth /\ Len(rxFifo) <= Depth
  /\ irq_enable \subseteq {"RE", "WE"}
  /\ timeout \in 1 .. INT_MAX
  /\ host_inactive \in 0 .. INT_MAX
  /\ space \in 0 .. Depth

(* The characters of a ring, oldest first. *)
Ring(buf, i, o) ==
  [k \in 1 .. (i + BUF_LEN - o) % BUF_LEN |-> buf[Following(o, k - 1)]]

(* Consecutive characters, from one number up to but not with another.      *)
Consecutive(stream, from, to) ==
  /\ \A k \in DOMAIN stream : stream[k] = Number(from + k - 1)
  /\ Number(from + Len(stream)) = to

(* What write() has accepted and the host has not got is in the FIFO and    *)
(* the ring, in order and once, whatever the interrupt routine sends while  *)
(* write() works from an old snapshot of its pointer.                       *)
TxInOrder == Consecutive(txFifo \o Ring(tx_buf, tx_in, tx_out), hostNext, written)

(* The same from the host to read(): nothing typed is lost, also when the   *)
(* ring is full, and what read() returns are the characters in order.       *)
RxInOrder ==
  pc # "release" =>
    Consecutive(Ring(rx_buf, rx_in, rx_out) \o rxFifo, expected, typed)

(* No wake-up is lost: while there are characters to send, the transmit     *)
(* interrupt is on or write() is about to turn it on; while the device has  *)
(* characters, the receive interrupt is on, or the ring is full, or a       *)
(* read() that has made room is about to turn it on.                        *)
InterruptsArmed ==
  /\ tx_in # tx_out =>
       "WE" \in irq_enable \/ pc \in {"write", "copy", "advance", "kick"}
  /\ rxFifo # <<>> =>
       \/ "RE" \in irq_enable \/ RxFull
       \/ pc \in {"read", "take", "release", "enable"} /\ (pc = "read" => moved > 0)
=============================================================================
