--------------------------- MODULE JtagUartProofs ---------------------------
(***************************************************************************)
(* The JTAG UART driver, for every length of the rings and of the device's  *)
(* FIFOs, every size of the calls and every timeout: the characters arrive  *)
(* once and in order, and no wake-up is lost.                               *)
(***************************************************************************)
EXTENDS JtagUart, SequenceTheorems, TLAPS

Char == 0 .. Numbers - 1

(* How far one slot of a ring is ahead of another.                          *)
Ahead(i, o) == IF i >= o THEN i - o ELSE i + BUF_LEN - o

----------------------------------------------------------------------------
(* The invariant.                                                          *)

Places == {"idle", "write", "copy", "advance", "kick", "wait_space",
           "read", "take", "release", "wait_data", "enable", "close"}

RingsTyped ==
  /\ tx_in \in Index /\ tx_out \in Index /\ rx_in \in Index /\ rx_out \in Index
  /\ tx_buf \in [Index -> Char] /\ rx_buf \in [Index -> Char]

DeviceTyped ==
  /\ txFifo \in Seq(Char) /\ rxFifo \in Seq(Char)
  /\ Len(txFifo) <= Depth /\ Len(rxFifo) <= Depth
  /\ hostNext \in Char /\ typed \in Char

DriverTyped ==
  /\ irq_enable \subseteq {"RE", "WE"}
  /\ timeout \in 1 .. INT_MAX /\ host_inactive \in 0 .. INT_MAX
  /\ space \in 0 .. Depth

ProgramTyped ==
  /\ pc \in Places
  /\ in \in Index /\ out \in Index /\ n \in Nat /\ count \in Nat /\ moved \in Nat
  /\ written \in Char /\ expected \in Char

(* The interrupt routine sends no more than the FIFO has had space for.     *)
SpaceInv == Len(txFifo) + space <= Depth

(* The part of the ring that write() is filling is still free, although its *)
(* snapshot of the out pointer may be old.                                  *)
WriteInv ==
  /\ pc \in {"copy", "advance"} =>
       /\ in = tx_in /\ 1 <= n /\ n <= count /\ in + n <= BUF_LEN
       /\ Ahead(tx_in, tx_out) + n < BUF_LEN
  /\ pc = "advance" =>
       \A s \in Index : s \in in .. in + n - 1 => tx_buf[s] = Number(written + (s - in))

(* The part that read() is taking holds characters.                         *)
ReadInv ==
  /\ pc \in {"read", "wait_data"} => count > 0
  /\ pc \in {"take", "release"} =>
       /\ out = rx_out /\ 1 <= n /\ n <= count /\ out + n <= BUF_LEN
       /\ n <= Ahead(rx_in, rx_out)

(* What is between write() and the host, character by character.            *)
TxChars ==
  /\ \A k \in 1 .. Len(txFifo) : txFifo[k] = Number(hostNext + (k - 1))
  /\ \A s \in Index : Ahead(s, tx_out) < Ahead(tx_in, tx_out) =>
       tx_buf[s] = Number(hostNext + (Len(txFifo) + Ahead(s, tx_out)))
  /\ written = Number(hostNext + (Len(txFifo) + Ahead(tx_in, tx_out)))

(* What is between the host and read().  Before its release, the characters *)
(* that read() has taken are still in the ring.                             *)
Taken == IF pc = "release" THEN n ELSE 0

RxChars ==
  /\ \A s \in Index : Taken <= Ahead(s, rx_out) /\ Ahead(s, rx_out) < Ahead(rx_in, rx_out) =>
       rx_buf[s] = Number(expected + (Ahead(s, rx_out) - Taken))
  /\ \A k \in 1 .. Len(rxFifo) :
       rxFifo[k] = Number(expected + (Ahead(rx_in, rx_out) - Taken + (k - 1)))
  /\ typed = Number(expected + (Ahead(rx_in, rx_out) - Taken + Len(rxFifo)))

(* The receive interrupt is off only while the ring is full, or read() has  *)
(* made room and not yet returned; also while the device has no characters. *)
ReceiveArmed ==
  \/ "RE" \in irq_enable \/ RxFull
  \/ pc \in {"read", "take", "release", "enable"} /\ (pc = "read" => moved > 0)

TransmitArmed ==
  tx_in # tx_out => "WE" \in irq_enable \/ pc \in {"write", "copy", "advance", "kick"}

Typed == RingsTyped /\ DeviceTyped /\ DriverTyped /\ ProgramTyped

Inv ==
  /\ Typed /\ SpaceInv /\ WriteInv /\ ReadInv
  /\ TxChars /\ RxChars /\ ReceiveArmed /\ TransmitArmed
----------------------------------------------------------------------------
(* Numbers of characters and places in a ring wrap once.                    *)

LEMMA ModOnce ==
  ASSUME NEW m \in Nat, m > 0, NEW a \in Nat, a < m + m
  PROVE  a % m = IF a < m THEN a ELSE a - m
OBVIOUS

LEMMA Sizes ==
  /\ BUF_LEN \in Nat /\ BUF_LEN > 1 /\ Depth \in Nat /\ Depth > 0
  /\ Numbers \in Nat /\ Numbers > BUF_LEN + Depth - 1
BY BufferAssumption

LEMMA NumberOnce ==
  ASSUME NEW a \in Char, NEW k \in Nat, k < Numbers
  PROVE  /\ Number(a + k) = IF a + k < Numbers THEN a + k ELSE a + k - Numbers
         /\ Number(a + k) \in Char
<1>1. a + k \in Nat /\ a + k < Numbers + Numbers
  BY Sizes DEF Char
<1>2. Numbers \in Nat /\ Numbers > 0
  BY Sizes
<1>3. (a + k) % Numbers = IF a + k < Numbers THEN a + k ELSE a + k - Numbers
  BY <1>1, <1>2, ModOnce DEF Char
<1>4. QED BY <1>3, Sizes DEF Number, Char

LEMMA FollowingOnce ==
  ASSUME NEW i \in Index, NEW k \in Nat, k <= BUF_LEN
  PROVE  /\ Following(i, k) = IF i + k < BUF_LEN THEN i + k ELSE i + k - BUF_LEN
         /\ Following(i, k) \in Index
<1>1. i + k \in Nat /\ i + k < BUF_LEN + BUF_LEN
  BY Sizes DEF Index
<1>2. BUF_LEN \in Nat /\ BUF_LEN > 0
  BY Sizes
<1>3. (i + k) % BUF_LEN = IF i + k < BUF_LEN THEN i + k ELSE i + k - BUF_LEN
  BY <1>1, <1>2, ModOnce DEF Index
<1>4. QED BY <1>3, Sizes DEF Following, Index

(* A number counted on from a number is a number counted on from the first. *)
LEMMA NumberAdd ==
  ASSUME NEW a \in Char, NEW j \in Nat, NEW k \in Nat, j + k < Numbers
  PROVE  Number(Number(a + j) + k) = Number(a + (j + k))
<1>1. Number(a + j) \in Char /\ Number(a + j) = IF a + j < Numbers THEN a + j ELSE a + j - Numbers
  <2>1. j < Numbers
    BY Sizes
  <2>2. QED BY <2>1, NumberOnce
<1>2. k < Numbers /\ j + k \in Nat
  BY Sizes
<1>3. \A b \in Char : Number(b + k) = IF b + k < Numbers THEN b + k ELSE b + k - Numbers
  BY <1>2, NumberOnce
<1>4. Number(a + (j + k)) = IF a + (j + k) < Numbers THEN a + (j + k) ELSE a + (j + k) - Numbers
  BY <1>2, NumberOnce
<1>5. QED BY <1>1, <1>3, <1>4, Sizes DEF Char
(* Moving either pointer of a ring.                                         *)
LEMMA AheadRange ==
  ASSUME NEW i \in Index, NEW o \in Index
  PROVE  /\ Ahead(i, o) \in Index /\ Ahead(i, o) \in Nat /\ Ahead(i, o) < BUF_LEN
         /\ i # o => Ahead(i, o) >= 1
         /\ Ahead(i, i) = 0
BY Sizes DEF Ahead, Index

LEMMA OutMoves ==
  ASSUME NEW i \in Index, NEW o \in Index, NEW k \in Nat, k <= Ahead(i, o)
  PROVE  /\ Following(o, k) \in Index
         /\ Ahead(i, Following(o, k)) = Ahead(i, o) - k
<1>1. k <= BUF_LEN
  BY Sizes DEF Ahead, Index
<1>2. PICK f \in Index : /\ f = Following(o, k)
                        /\ f = IF o + k < BUF_LEN THEN o + k ELSE o + k - BUF_LEN
  BY <1>1, FollowingOnce
<1>3. QED BY <1>1, <1>2, Sizes DEF Ahead, Index

LEMMA InMoves ==
  ASSUME NEW i \in Index, NEW o \in Index, NEW k \in Nat, Ahead(i, o) + k < BUF_LEN
  PROVE  /\ Following(i, k) \in Index
         /\ Ahead(Following(i, k), o) = Ahead(i, o) + k
<1>1. k <= BUF_LEN
  BY Sizes DEF Ahead, Index
<1>2. PICK f \in Index : /\ f = Following(i, k)
                        /\ f = IF i + k < BUF_LEN THEN i + k ELSE i + k - BUF_LEN
  BY <1>1, FollowingOnce
<1>3. QED BY <1>1, <1>2, Sizes DEF Ahead, Index

(* What write() and read() take for the room and the characters there are. *)
LEMMA RoomIsFree ==
  ASSUME NEW i \in Index, NEW o \in Index
  PROVE  /\ Room(i, o) \in Nat /\ i + Room(i, o) <= BUF_LEN
         /\ Ahead(i, o) + Room(i, o) < BUF_LEN
BY Sizes DEF Room, Ahead, Index

LEMMA AvailableIsThere ==
  ASSUME NEW i \in Index, NEW o \in Index, i # o
  PROVE  /\ Available(i, o) \in Nat /\ Available(i, o) > 0
         /\ o + Available(i, o) <= BUF_LEN /\ Available(i, o) <= Ahead(i, o)
BY Sizes DEF Available, Ahead, Index

LEMMA MinOfTwo ==
  ASSUME NEW a \in Nat, NEW b \in Nat
  PROVE  /\ Min({a, b}) \in Nat /\ Min({a, b}) <= a /\ Min({a, b}) <= b
         /\ Min({a, b}) \in {a, b}
<1>1. \E x \in {a, b} : \A y \in {a, b} : x <= y
  OBVIOUS
<1>2. Min({a, b}) \in {a, b} /\ \A y \in {a, b} : Min({a, b}) <= y
  BY <1>1 DEF Min
<1>3. QED BY <1>2

----------------------------------------------------------------------------
(* Types.                                                                  *)

(* The program touches the rings in three places only.                     *)
LEMMA ProgramRings ==
  ASSUME Program
  PROVE  WriteCopy \/ WriteAdvance \/ ReadRelease \/ UNCHANGED <<tx, rx>>
BY DEF Program, Call, WriteSpace, WriteKick, WriteWait, ReadData, ReadNothing,
       ReadTake, ReadWait, ReadEnable, Close, SetTimeout

LEMMA RingsStep ==
  ASSUME Inv, Next
  PROVE  RingsTyped'
<1> USE DEF Inv, Typed, RingsTyped, tx, rx
<1>1. CASE Host \/ Alarm
  BY <1>1 DEF Host, Alarm
<1>2. CASE Irq
  <2>1. CASE IrqControl \/ IrqReceiveEmpty \/ IrqReceiveFull \/ IrqTransmitEnd
    BY <2>1 DEF IrqControl, IrqReceiveEmpty, IrqReceiveFull, IrqTransmitEnd
  <2>2. CASE IrqReceive
    <3>1. Head(rxFifo) \in Char
      BY <2>2 DEF IrqReceive, DeviceTyped
    <3>2. Following(rx_in, 1) \in Index
      BY FollowingOnce, Sizes
    <3>3. QED BY <2>2, <3>1, <3>2 DEF IrqReceive
  <2>3. CASE IrqTransmit
    <3>1. Following(tx_out, 1) \in Index
      BY FollowingOnce, Sizes
    <3>2. QED BY <2>3, <3>1 DEF IrqTransmit
  <2>4. QED BY <1>2, <2>1, <2>2, <2>3 DEF Irq
<1>3. CASE Program
  <2>1. CASE WriteCopy
    <3>1. \A i \in Index : i \in in .. in + n - 1 => Number(written + (i - in)) \in Char
      BY <2>1, NumberOnce, Sizes DEF WriteCopy, WriteInv, ProgramTyped, Index
    <3>2. QED BY <2>1, <3>1 DEF WriteCopy
  <2>2. CASE WriteAdvance
    <3>1. n \in Nat /\ n <= BUF_LEN
      BY <2>2, Sizes DEF WriteAdvance, WriteInv, ProgramTyped, Index
    <3>2. Following(in, n) \in Index
      BY <3>1, FollowingOnce DEF ProgramTyped
    <3>3. QED BY <2>2, <3>2 DEF WriteAdvance
  <2>3. CASE ReadRelease
    <3>1. n \in Nat /\ n <= BUF_LEN
      BY <2>3, Sizes DEF ReadRelease, ReadInv, ProgramTyped, Index
    <3>2. Following(out, n) \in Index
      BY <3>1, FollowingOnce DEF ProgramTyped
    <3>3. QED BY <2>3, <3>2 DEF ReadRelease
  <2>4. CASE UNCHANGED <<tx, rx>>
    BY <2>4
  <2>5. QED BY <1>3, <2>1, <2>2, <2>3, <2>4, ProgramRings
<1>4. QED BY <1>1, <1>2, <1>3 DEF Next

LEMMA DeviceStep ==
  ASSUME Inv, Next
  PROVE  DeviceTyped' /\ SpaceInv'
<1> USE DEF Inv, Typed, DeviceTyped, SpaceInv, device, host
<1>1. CASE Alarm \/ Program
  BY <1>1 DEF Alarm, Program, irqVars
<1>2. CASE Host
  <2>1. CASE HostTake
    <3>1. Tail(txFifo) \in Seq(Char) /\ Len(Tail(txFifo)) = Len(txFifo) - 1
      BY <2>1, HeadTailProperties DEF HostTake
    <3>2. Number(hostNext + 1) \in Char
      BY NumberOnce, Sizes
    <3>3. QED BY <1>2, <2>1, <3>1, <3>2, Sizes DEF HostTake, Host, irqVars, DriverTyped
  <2>2. CASE HostType
    <3>1. Append(rxFifo, typed) \in Seq(Char) /\ Len(Append(rxFifo, typed)) = Len(rxFifo) + 1
      BY AppendProperties
    <3>2. Number(typed + 1) \in Char
      BY NumberOnce, Sizes
    <3>3. QED BY <1>2, <2>2, <3>1, <3>2, Sizes DEF HostType, Host, irqVars
  <2>3. QED BY <1>2, <2>1, <2>2 DEF Host
<1>3. CASE Irq
  <2>1. CASE IrqControl
    BY <1>3, <2>1, Sizes DEF Irq, IrqControl, WI
  <2>2. CASE IrqReceiveEmpty \/ IrqReceiveFull \/ IrqTransmitEnd
    BY <1>3, <2>2, Sizes DEF Irq, IrqReceiveEmpty, IrqReceiveFull, IrqTransmitEnd
  <2>3. CASE IrqReceive
    <3>1. Tail(rxFifo) \in Seq(Char) /\ Len(Tail(rxFifo)) = Len(rxFifo) - 1
      BY <2>3, HeadTailProperties DEF IrqReceive
    <3>2. QED BY <1>3, <2>3, <3>1, Sizes DEF IrqReceive, Irq
  <2>4. CASE IrqTransmit
    <3>1. tx_buf[tx_out] \in Char
      BY DEF RingsTyped
    <3>2. /\ Append(txFifo, tx_buf[tx_out]) \in Seq(Char)
          /\ Len(Append(txFifo, tx_buf[tx_out])) = Len(txFifo) + 1
      BY <3>1, AppendProperties
    <3>3. QED BY <1>3, <2>4, <3>2, Sizes DEF IrqTransmit, Irq, DriverTyped
  <2>5. QED BY <1>3, <2>1, <2>2, <2>3, <2>4 DEF Irq
<1>4. QED BY <1>1, <1>2, <1>3 DEF Next

LEMMA DriverStep ==
  ASSUME Inv, Next
  PROVE  DriverTyped'
<1> USE DEF Inv, Typed, DriverTyped, clock
<1>1. CASE Host
  BY <1>1 DEF Host, irqVars
<1>2. CASE Alarm
  BY <1>2, TimeoutAssumption DEF Alarm, irqVars
<1>3. CASE Irq
  <2>1. Len(txFifo) \in Nat
    BY LenProperties DEF DeviceTyped
  <2>2. CASE IrqControl
    BY <1>3, <2>1, <2>2, Sizes DEF Irq, IrqControl, WI
  <2>3. CASE IrqReceive \/ IrqReceiveEmpty
    BY <1>3, <2>3 DEF Irq, IrqReceive, IrqReceiveEmpty
  <2>4. CASE IrqReceiveFull \/ IrqTransmitEnd
    <3>1. irq_enable' \subseteq {"RE", "WE"}
      BY <2>4 DEF IrqReceiveFull, IrqTransmitEnd
    <3>2. space' \in 0 .. Depth
      BY <2>4, Sizes DEF IrqReceiveFull, IrqTransmitEnd
    <3>3. QED BY <1>3, <3>1, <3>2 DEF Irq
  <2>5. CASE IrqTransmit
    BY <1>3, <2>5, Sizes DEF Irq, IrqTransmit
  <2>6. QED BY <1>3, <2>2, <2>3, <2>4, <2>5 DEF Irq
<1>4. CASE Program
  <2>1. UNCHANGED <<space>>
    BY <1>4 DEF Program, irqVars
  <2>2. CASE SetTimeout
    BY <2>1, <2>2, TimeoutAssumption DEF SetTimeout
  <2>3. CASE WriteKick \/ ReadEnable
    BY <2>1, <2>3 DEF WriteKick, ReadEnable
  <2>4. CASE UNCHANGED <<clock, irq_enable>>
    BY <2>1, <2>4
  <2>5. QED BY <1>4, <2>2, <2>3, <2>4
         DEF Program, Call, WriteSpace, WriteCopy, WriteAdvance, WriteWait, ReadData,
             ReadNothing, ReadTake, ReadRelease, ReadWait, Close
<1>5. QED BY <1>1, <1>2, <1>3, <1>4 DEF Next

(* What read() takes is what the host has typed next.                       *)
LEMMA TakesInOrder ==
  ASSUME Inv, pc = "take"
  PROVE  InOrder
<1> USE DEF Inv, Typed, ProgramTyped, RingsTyped
<1>1. out = rx_out /\ n \in Nat /\ out + n <= BUF_LEN /\ n <= Ahead(rx_in, rx_out)
  BY DEF ReadInv
<1>2. ASSUME NEW k \in 0 .. n - 1
      PROVE  rx_buf[out + k] = Number(expected + k)
  <2>1. out + k \in Index /\ Ahead(out + k, rx_out) = k
    BY <1>1, <1>2, Sizes DEF Index, Ahead
  <2>2. Taken = 0
    BY DEF Taken
  <2>3. k - 0 = k /\ 0 <= k /\ k < Ahead(rx_in, rx_out)
    BY <1>1, <1>2, Sizes DEF Index, Ahead
  <2>4. QED BY <2>1, <2>2, <2>3 DEF RxChars
<1>3. QED BY <1>2 DEF InOrder

LEMMA ProgramStep ==
  ASSUME Inv, Next
  PROVE  ProgramTyped'
<1> USE DEF Inv, Typed, ProgramTyped, Places, program, locals
<1>0. 0 \in Index
  BY Sizes DEF Index
<1>1. CASE Host \/ Alarm \/ Irq
  BY <1>1 DEF Host, Alarm, Irq
<1>2. CASE Call("write") \/ Call("read") \/ Call("close")
  <2>1. count' \in Nat /\ moved' \in Nat
    <3>1. count' \in Counts /\ moved' = 0
      BY <1>2 DEF Call
    <3>2. QED BY <3>1, BufferAssumption
  <2>2. pc' \in Places
    BY <1>2 DEF Call, Goto
  <2>3. UNCHANGED <<in, out, n, written, expected>>
    BY <1>2 DEF Call
  <2>4. QED BY <2>1, <2>2, <2>3
<1>3. CASE WriteSpace
  <2>1. Room(tx_in, tx_out) \in Nat
    BY RoomIsFree DEF RingsTyped
  <2>2. Min({Room(tx_in, tx_out), count}) \in Nat
    BY <2>1, MinOfTwo
  <2>3. QED BY <1>3, <2>2 DEF WriteSpace, Goto, RingsTyped
<1>4. CASE WriteCopy \/ SetTimeout
  BY <1>4 DEF WriteCopy, SetTimeout, Continue, Goto
<1>5. CASE WriteAdvance
  <2>1. Number(written + n) \in Char
    BY <1>5, NumberOnce, Sizes DEF WriteAdvance, WriteInv, Index
  <2>2. count - n \in Nat
    BY <1>5 DEF WriteAdvance, WriteInv
  <2>3. QED BY <1>0, <1>5, <2>1, <2>2 DEF WriteAdvance, Goto, ForgetSnapshot
<1>6. CASE WriteKick \/ WriteWait \/ ReadWait \/ ReadEnable \/ Close
  BY <1>0, <1>6 DEF WriteKick, WriteWait, ReadWait, ReadEnable, Close, Return, Goto,
                    ForgetSnapshot
<1>7. CASE ReadData
  <2>1. Available(rx_in, rx_out) \in Nat
    BY <1>7, AvailableIsThere DEF RingsTyped, ReadData
  <2>2. Min({Available(rx_in, rx_out), count}) \in Nat
    BY <2>1, MinOfTwo
  <2>3. QED BY <1>7, <2>2 DEF ReadData, Goto, RingsTyped
<1>8. CASE ReadNothing
  BY <1>0, <1>8 DEF ReadNothing, Return, Goto, ForgetSnapshot, RingsTyped
<1>9. CASE ReadTake
  <2>1. InOrder
    BY <1>9, TakesInOrder DEF ReadTake
  <2>2. Number(expected + n) \in Char
    BY <1>9, NumberOnce, Sizes DEF ReadTake, ReadInv, Index
  <2>3. QED BY <1>9, <2>1, <2>2 DEF ReadTake, Continue, Goto
<1>10. CASE ReadRelease
  <2>1. count - n \in Nat /\ moved + n \in Nat
    BY <1>10 DEF ReadRelease, ReadInv
  <2>2. QED BY <1>0, <1>10, <2>1 DEF ReadRelease, Goto, ForgetSnapshot
<1>11. QED
  BY <1>1, <1>2, <1>3, <1>4, <1>5, <1>6, <1>7, <1>8, <1>9, <1>10 DEF Next, Program

----------------------------------------------------------------------------
(* The parts of the rings that write() and read() work on.                 *)

LEMMA WriteInvStep ==
  ASSUME Inv, Next
  PROVE  WriteInv'
<1> USE DEF Inv, Typed, ProgramTyped, RingsTyped, WriteInv
<1>1. CASE Host \/ Alarm
  BY <1>1 DEF Host, Alarm, program, locals, tx
<1>2. CASE Irq
  <2>1. CASE IrqTransmit
    <3>1. Ahead(tx_in, tx_out') = Ahead(tx_in, tx_out) - 1
      <4>1. tx_out # tx_in /\ tx_out' = Following(tx_out, 1)
        BY <2>1 DEF IrqTransmit
      <4>2. 1 \in Nat /\ 1 <= Ahead(tx_in, tx_out)
        BY <4>1, AheadRange, Sizes DEF Index
      <4>3. QED BY <4>1, <4>2, OutMoves
    <3>2. Ahead(tx_in, tx_out) \in Index
      BY AheadRange
    <3>3. UNCHANGED <<pc, in, n, count, written, tx_in, tx_buf>>
      BY <1>2, <2>1 DEF Irq, IrqTransmit, program, locals
    <3>4. (Ahead(tx_in, tx_out))' = Ahead(tx_in, tx_out')
      BY <3>3 DEF Ahead
    <3>5. QED BY <3>1, <3>2, <3>3, <3>4, Sizes DEF Index
  <2>2. CASE UNCHANGED tx
    BY <1>2, <2>2 DEF Irq, program, locals, tx
  <2>3. QED BY <1>2, <2>1, <2>2
         DEF Irq, IrqControl, IrqReceive, IrqReceiveEmpty, IrqReceiveFull, IrqTransmitEnd
<1>3. CASE WriteSpace
  <2>1. CASE pc' = "copy"
    <3>1. in' = tx_in /\ n' = Min({Room(tx_in, tx_out), count}) /\ n' # 0
      BY <1>3, <2>1 DEF WriteSpace, Goto
    <3>2. UNCHANGED <<tx_in, tx_out, count>>
      BY <1>3 DEF WriteSpace, tx
    <3>3. /\ Room(tx_in, tx_out) \in Nat /\ tx_in + Room(tx_in, tx_out) <= BUF_LEN
          /\ Ahead(tx_in, tx_out) + Room(tx_in, tx_out) < BUF_LEN
      BY RoomIsFree
    <3>4. n' \in Nat /\ n' <= Room(tx_in, tx_out) /\ n' <= count
      BY <3>1, <3>3, MinOfTwo
    <3>5. (Ahead(tx_in, tx_out))' = Ahead(tx_in, tx_out) /\ Ahead(tx_in, tx_out) \in Index
      BY <3>2, AheadRange DEF Ahead
    <3>6. QED BY <2>1, <3>1, <3>2, <3>3, <3>4, <3>5, Sizes DEF Index
  <2>2. CASE pc' \notin {"copy", "advance"}
    BY <2>2
  <2>3. pc' # "advance"
    BY <1>3 DEF WriteSpace, Goto
  <2>4. QED BY <2>1, <2>2, <2>3
<1>4. CASE WriteCopy
  <2>1. UNCHANGED <<in, n, count, written, tx_in, tx_out>> /\ pc = "copy" /\ pc' = "advance"
    BY <1>4 DEF WriteCopy, Continue, Goto, locals
  <2>2. \A s \in Index : s \in in .. in + n - 1 => tx_buf'[s] = Number(written + (s - in))
    BY <1>4 DEF WriteCopy
  <2>3. (Ahead(tx_in, tx_out))' = Ahead(tx_in, tx_out)
    BY <2>1 DEF Ahead
  <2>4. QED BY <2>1, <2>2, <2>3
<1>5. CASE pc' \notin {"copy", "advance"}
  BY <1>5
<1>6. CASE SetTimeout
  BY <1>5, <1>6 DEF SetTimeout, Continue, Goto
<1>7. QED
  BY <1>1, <1>2, <1>3, <1>4, <1>5, <1>6
  DEF Next, Program, Call, WriteAdvance, WriteKick, WriteWait, ReadData, ReadNothing,
      ReadTake, ReadRelease, ReadWait, ReadEnable, Close, Continue, Return, Goto

(* A ring that is not full has a free slot beside the one it always keeps.  *)
LEMMA FullIsFull ==
  ASSUME RingsTyped, ~RxFull
  PROVE  Ahead(rx_in, rx_out) + 1 < BUF_LEN
<1>1. Following(rx_in, 1) = IF rx_in + 1 < BUF_LEN THEN rx_in + 1 ELSE rx_in + 1 - BUF_LEN
  BY FollowingOnce, Sizes DEF RingsTyped
<1>2. QED BY <1>1, Sizes DEF RxFull, RingsTyped, Ahead, Index

LEMMA ReadInvStep ==
  ASSUME Inv, Next
  PROVE  ReadInv'
<1> USE DEF Inv, Typed, ProgramTyped, RingsTyped, ReadInv
<1>1. CASE Host \/ Alarm
  BY <1>1 DEF Host, Alarm, program, locals, rx
<1>2. CASE Irq
  <2>1. CASE IrqReceive
    <3>1. Ahead(rx_in, rx_out) + 1 < BUF_LEN
      BY <2>1, FullIsFull DEF IrqReceive
    <3>2. Ahead(rx_in', rx_out) = Ahead(rx_in, rx_out) + 1
      BY <2>1, <3>1, InMoves DEF IrqReceive
    <3>3. UNCHANGED <<pc, out, n, count, rx_out>>
      BY <1>2, <2>1 DEF Irq, IrqReceive, program, locals
    <3>4. (Ahead(rx_in, rx_out))' = Ahead(rx_in', rx_out) /\ Ahead(rx_in, rx_out) \in Index
      BY <3>3, AheadRange DEF Ahead
    <3>5. QED BY <3>1, <3>2, <3>3, <3>4, Sizes DEF Index
  <2>2. CASE UNCHANGED rx
    BY <1>2, <2>2 DEF Irq, program, locals, rx
  <2>3. QED BY <1>2, <2>1, <2>2
         DEF Irq, IrqControl, IrqReceiveEmpty, IrqReceiveFull, IrqTransmit, IrqTransmitEnd
<1>3. CASE ReadData
  <2>1. /\ out' = rx_out /\ n' = Min({Available(rx_in, rx_out), count})
        /\ UNCHANGED <<count, rx_in, rx_out>> /\ pc' = "take" /\ rx_in # rx_out /\ pc = "read"
    BY <1>3 DEF ReadData, Goto, rx
  <2>2. /\ Available(rx_in, rx_out) \in Nat /\ Available(rx_in, rx_out) > 0
        /\ rx_out + Available(rx_in, rx_out) <= BUF_LEN
        /\ Available(rx_in, rx_out) <= Ahead(rx_in, rx_out)
    BY <2>1, AvailableIsThere
  <2>3. /\ n' \in Nat /\ n' <= Available(rx_in, rx_out) /\ n' <= count
        /\ n' \in {Available(rx_in, rx_out), count}
    BY <2>1, <2>2, MinOfTwo
  <2>4. (Ahead(rx_in, rx_out))' = Ahead(rx_in, rx_out) /\ Ahead(rx_in, rx_out) \in Index
    BY <2>1, AheadRange DEF Ahead
  <2>5. QED BY <2>1, <2>2, <2>3, <2>4, Sizes DEF Index
<1>4. CASE ReadTake
  <2>1. UNCHANGED <<out, n, count, rx_in, rx_out>> /\ pc = "take" /\ pc' = "release"
    BY <1>4 DEF ReadTake, Continue, Goto, locals, rx
  <2>2. (Ahead(rx_in, rx_out))' = Ahead(rx_in, rx_out)
    BY <2>1 DEF Ahead
  <2>3. QED BY <2>1, <2>2
<1>5. CASE ReadRelease
  BY <1>5 DEF ReadRelease, Goto
<1>6. CASE Call("write") \/ Call("read") \/ Call("close")
  <2>1. count' \in Counts /\ pc' \notin {"take", "release"}
    BY <1>6 DEF Call, Goto
  <2>2. QED BY <2>1, BufferAssumption
<1>7. CASE ReadWait
  <2>1. pc' \in {"idle", "read"} /\ (pc' = "read" => UNCHANGED count) /\ pc = "wait_data"
    BY <1>7 DEF ReadWait, Return, Goto
  <2>2. QED BY <2>1
<1>8. CASE ReadNothing
  <2>1. pc' \in {"idle", "enable", "wait_data"} /\ (pc' = "wait_data" => UNCHANGED count)
    BY <1>8 DEF ReadNothing, Return, Goto
  <2>2. QED BY <1>8, <2>1 DEF ReadNothing
<1>9. CASE pc' \notin {"read", "wait_data", "take", "release"}
  BY <1>9
<1>10. CASE SetTimeout
  BY <1>9, <1>10 DEF SetTimeout, Continue, Goto
<1>11. QED
  BY <1>1, <1>2, <1>3, <1>4, <1>5, <1>6, <1>7, <1>8, <1>9, <1>10
  DEF Next, Program, WriteSpace, WriteCopy, WriteAdvance, WriteKick, WriteWait,
      ReadEnable, Close, Continue, Return, Goto

----------------------------------------------------------------------------
(* The characters on their way to the host.                                *)

LEMMA TxFrame ==
  ASSUME Next
  PROVE  \/ (Host /\ HostTake) \/ (Irq /\ IrqTransmit)
         \/ Program /\ (WriteCopy \/ WriteAdvance)
         \/ UNCHANGED <<txFifo, hostNext, tx_in, tx_out, tx_buf, written>>
<1>1. CASE Host \/ Irq \/ Alarm
  BY <1>1 DEF Host, HostType, Irq, IrqControl, IrqReceive, IrqReceiveEmpty, IrqReceiveFull,
              IrqTransmitEnd, Alarm, device, host, tx, program
<1>2. CASE Program
  BY <1>2 DEF Program, Call, WriteSpace, WriteKick, WriteWait, ReadData, ReadNothing,
              ReadTake, ReadRelease, ReadWait, ReadEnable, Close, SetTimeout, device, host, tx
<1>3. QED BY <1>1, <1>2 DEF Next

LEMMA TxCharsTaken ==
  ASSUME Inv, Host, HostTake
  PROVE  TxChars'
<1> USE DEF Inv, Typed, RingsTyped, DeviceTyped
<1>1. /\ txFifo' = Tail(txFifo) /\ hostNext' = Number(hostNext + 1) /\ txFifo # <<>>
      /\ UNCHANGED <<tx_in, tx_out, tx_buf, written>>
  BY DEF HostTake, Host, tx, program
<1>2. /\ Len(txFifo) \in Nat /\ Len(txFifo) >= 1 /\ Len(txFifo') = Len(txFifo) - 1
      /\ \A k \in 1 .. Len(txFifo) - 1 : txFifo'[k] = txFifo[k + 1]
  BY <1>1, HeadTailProperties, LenProperties
<1>3. ASSUME NEW x \in Nat, x + 1 < Numbers
      PROVE  Number(hostNext' + x) = Number(hostNext + (x + 1))
  <2>1. Number(Number(hostNext + 1) + x) = Number(hostNext + (1 + x))
    BY <1>3, NumberAdd, 1 + x < Numbers
  <2>2. 1 + x = x + 1
    BY <1>3
  <2>3. QED BY <1>1, <2>1, <2>2
<1>4. \A s \in Index : Ahead(s, tx_out) \in Index
  BY AheadRange
<1>5. ASSUME NEW k \in 1 .. Len(txFifo')
      PROVE  txFifo'[k] = Number(hostNext' + (k - 1))
  <2>1. txFifo'[k] = Number(hostNext + k)
    BY <1>2, <1>5, (k + 1) - 1 = k DEF TxChars
  <2>2. Number(hostNext' + (k - 1)) = Number(hostNext + (k - 1 + 1))
    BY <1>2, <1>3, <1>5, Sizes
  <2>3. k - 1 + 1 = k
    BY <1>2, <1>5
  <2>4. QED BY <2>1, <2>2, <2>3
<1>6. ASSUME NEW d \in Index
      PROVE  Number(hostNext' + (Len(txFifo') + d)) = Number(hostNext + (Len(txFifo) + d))
  <2>1. Len(txFifo') + d \in Nat /\ Len(txFifo') + d + 1 = Len(txFifo) + d
    BY <1>2, <1>6, Sizes DEF Index
  <2>2. Len(txFifo) + d < Numbers
    BY <1>2, <1>6, Sizes DEF Index
  <2>3. QED BY <1>3, <2>1, <2>2
<1>7. \A s \in Index : (Ahead(s, tx_out))' = Ahead(s, tx_out)
  BY <1>1 DEF Ahead
<1>8. (Ahead(tx_in, tx_out))' = Ahead(tx_in, tx_out)
  BY <1>1 DEF Ahead
<1>9. \A s \in Index : Ahead(s, tx_out) < Ahead(tx_in, tx_out) =>
        tx_buf'[s] = Number(hostNext' + (Len(txFifo') + Ahead(s, tx_out)))
  BY <1>1, <1>4, <1>6 DEF TxChars
<1>10. written' = Number(hostNext' + (Len(txFifo') + Ahead(tx_in, tx_out)))
  BY <1>1, <1>4, <1>6 DEF TxChars
<1>11. QED BY <1>5, <1>7, <1>8, <1>9, <1>10 DEF TxChars

LEMMA TxCharsSent ==
  ASSUME Inv, Irq, IrqTransmit
  PROVE  TxChars'
<1> USE DEF Inv, Typed, RingsTyped, DeviceTyped
<1>1. /\ txFifo' = Append(txFifo, tx_buf[tx_out]) /\ tx_out' = Following(tx_out, 1)
      /\ tx_out # tx_in /\ UNCHANGED <<tx_in, tx_buf>>
  BY DEF IrqTransmit
<1>2. UNCHANGED <<hostNext, written>>
  BY DEF Irq, host, program
<1>3. tx_buf[tx_out] \in Char /\ Len(txFifo) \in Nat
  BY LenProperties
<1>4. /\ Len(txFifo') = Len(txFifo) + 1
      /\ \A k \in 1 .. Len(txFifo) : txFifo'[k] = txFifo[k]
      /\ txFifo'[Len(txFifo) + 1] = tx_buf[tx_out]
  BY <1>1, <1>3, AppendProperties
<1>5. Ahead(tx_in, tx_out) \in Index /\ Ahead(tx_in, tx_out) >= 1 /\ Ahead(tx_out, tx_out) = 0
  BY <1>1, AheadRange, Sizes DEF Index
<1>6. tx_out' \in Index /\ (Ahead(tx_in, tx_out))' = Ahead(tx_in, tx_out) - 1
  BY <1>1, <1>5, OutMoves, 1 \in Nat DEF Ahead
<1>7. tx_buf[tx_out] = Number(hostNext + Len(txFifo))
  BY <1>3, <1>5, Len(txFifo) + 0 = Len(txFifo), Sizes DEF TxChars, Index
<1>8. ASSUME NEW s \in Index, Ahead(s, tx_out') < Ahead(tx_in, tx_out) - 1
      PROVE  Ahead(s, tx_out) = Ahead(s, tx_out') + 1
  <2>1. Following(tx_out, 1) = IF tx_out + 1 < BUF_LEN THEN tx_out + 1 ELSE tx_out + 1 - BUF_LEN
    BY FollowingOnce, Sizes
  <2>2. QED BY <1>1, <1>8, <2>1, Sizes DEF Ahead, Index
<1>9. ASSUME NEW k \in 1 .. Len(txFifo')
      PROVE  txFifo'[k] = Number(hostNext + (k - 1))
  BY <1>3, <1>4, <1>7, <1>9, (Len(txFifo) + 1) - 1 = Len(txFifo) DEF TxChars
<1>10. ASSUME NEW s \in Index, Ahead(s, tx_out') < Ahead(tx_in, tx_out) - 1
       PROVE  tx_buf[s] = Number(hostNext + (Len(txFifo') + Ahead(s, tx_out')))
  <2>1. Ahead(s, tx_out) = Ahead(s, tx_out') + 1 /\ Ahead(s, tx_out') \in Index
    BY <1>6, <1>8, <1>10, AheadRange
  <2>2. Len(txFifo') + Ahead(s, tx_out') = Len(txFifo) + Ahead(s, tx_out)
    BY <1>3, <1>4, <2>1, Sizes DEF Index
  <2>3. Ahead(s, tx_out) < Ahead(tx_in, tx_out)
    BY <1>5, <1>10, <2>1, Sizes DEF Index
  <2>4. QED BY <2>2, <2>3 DEF TxChars
<1>11. Len(txFifo') + (Ahead(tx_in, tx_out) - 1) = Len(txFifo) + Ahead(tx_in, tx_out)
  BY <1>3, <1>4, <1>5, Sizes DEF Index
<1>12. \A s \in Index : (Ahead(s, tx_out))' = Ahead(s, tx_out')
  BY DEF Ahead
<1>13. written = Number(hostNext + (Len(txFifo') + (Ahead(tx_in, tx_out) - 1)))
  BY <1>11 DEF TxChars
<1>14. QED BY <1>1, <1>2, <1>6, <1>9, <1>10, <1>12, <1>13 DEF TxChars

LEMMA TxCharsCopied ==
  ASSUME Inv, Program, WriteCopy
  PROVE  TxChars'
<1> USE DEF Inv, Typed, RingsTyped, DeviceTyped, ProgramTyped
<1>1. /\ pc = "copy"
      /\ UNCHANGED <<txFifo, hostNext, tx_in, tx_out, written>>
      /\ tx_buf' = [i \in Index |-> IF i \in in .. in + n - 1
                                    THEN Number(written + (i - in)) ELSE tx_buf[i]]
  BY DEF WriteCopy, Program, device, host
<1>2. in = tx_in /\ n \in Nat /\ Ahead(tx_in, tx_out) + n < BUF_LEN
  BY <1>1 DEF WriteInv
<1>3. ASSUME NEW s \in Index, Ahead(s, tx_out) < Ahead(tx_in, tx_out)
      PROVE  s \notin in .. in + n - 1
  BY <1>2, <1>3, Sizes DEF Ahead, Index
<1>4. \A s \in Index : Ahead(s, tx_out) < Ahead(tx_in, tx_out) => tx_buf'[s] = tx_buf[s]
  BY <1>1, <1>3
<1>5. \A s \in Index : (Ahead(s, tx_out))' = Ahead(s, tx_out)
  BY <1>1 DEF Ahead
<1>6. QED BY <1>1, <1>4, <1>5 DEF TxChars

LEMMA TxCharsAdvanced ==
  ASSUME Inv, Program, WriteAdvance
  PROVE  TxChars'
<1> USE DEF Inv, Typed, RingsTyped, DeviceTyped, ProgramTyped
<1>1. /\ pc = "advance" /\ tx_in' = Following(in, n) /\ written' = Number(written + n)
      /\ UNCHANGED <<txFifo, hostNext, tx_out, tx_buf>>
  BY DEF WriteAdvance, Program, device, host
<1>2. /\ in = tx_in /\ n \in Nat /\ in + n <= BUF_LEN /\ Ahead(tx_in, tx_out) + n < BUF_LEN
      /\ \A s \in Index : s \in in .. in + n - 1 => tx_buf[s] = Number(written + (s - in))
  BY <1>1 DEF WriteInv
<1>3. Len(txFifo) \in Nat /\ Ahead(tx_in, tx_out) \in Index
  BY AheadRange, LenProperties
<1>4. tx_in' \in Index /\ (Ahead(tx_in, tx_out))' = Ahead(tx_in, tx_out) + n
  BY <1>1, <1>2, InMoves DEF Ahead
<1>5. ASSUME NEW x \in Nat, Ahead(tx_in, tx_out) + x < BUF_LEN
      PROVE  Number(written + x) = Number(hostNext + (Len(txFifo) + (Ahead(tx_in, tx_out) + x)))
  <2>1. Len(txFifo) + Ahead(tx_in, tx_out) \in Nat
    BY <1>3, Sizes DEF Index
  <2>2. Len(txFifo) + Ahead(tx_in, tx_out) + x < Numbers
    BY <1>3, <1>5, Sizes DEF Index
  <2>3. written = Number(hostNext + (Len(txFifo) + Ahead(tx_in, tx_out)))
    BY DEF TxChars
  <2>4. Number(written + x) = Number(hostNext + (Len(txFifo) + Ahead(tx_in, tx_out) + x))
    BY <2>1, <2>2, <2>3, NumberAdd
  <2>5. Len(txFifo) + Ahead(tx_in, tx_out) + x = Len(txFifo) + (Ahead(tx_in, tx_out) + x)
    BY <1>3, Sizes DEF Index
  <2>6. QED BY <2>4, <2>5
<1>6. ASSUME NEW s \in Index, Ahead(s, tx_out) < Ahead(tx_in, tx_out) + n
      PROVE  tx_buf[s] = Number(hostNext + (Len(txFifo) + Ahead(s, tx_out)))
  <2>1. CASE Ahead(s, tx_out) < Ahead(tx_in, tx_out)
    BY <2>1 DEF TxChars
  <2>2. CASE Ahead(s, tx_out) >= Ahead(tx_in, tx_out)
    <3>1. /\ s \in in .. in + n - 1
          /\ s - in \in Nat
          /\ Ahead(s, tx_out) = Ahead(tx_in, tx_out) + (s - in)
          /\ Ahead(tx_in, tx_out) + (s - in) < BUF_LEN
      BY <1>2, <1>6, <2>2, Sizes DEF Ahead, Index
    <3>2. tx_buf[s] = Number(written + (s - in))
      BY <1>2, <3>1
    <3>3. QED BY <1>5, <3>1, <3>2
  <2>3. Ahead(s, tx_out) \in Index
    BY AheadRange
  <2>4. QED BY <1>3, <2>1, <2>2, <2>3, Sizes DEF Index
<1>7. \A s \in Index : (Ahead(s, tx_out))' = Ahead(s, tx_out)
  BY <1>1 DEF Ahead
<1>8. written' = Number(hostNext + (Len(txFifo) + (Ahead(tx_in, tx_out) + n)))
  BY <1>1, <1>2, <1>5
<1>9. \A k \in 1 .. Len(txFifo) : txFifo[k] = Number(hostNext + (k - 1))
  BY DEF TxChars
<1>10. QED BY <1>1, <1>4, <1>6, <1>7, <1>8, <1>9 DEF TxChars

LEMMA TxCharsStep ==
  ASSUME Inv, Next
  PROVE  TxChars'
<1>1. CASE UNCHANGED <<txFifo, hostNext, tx_in, tx_out, tx_buf, written>>
  BY <1>1 DEF Inv, TxChars, Ahead
<1>2. QED BY <1>1, TxFrame, TxCharsTaken, TxCharsSent, TxCharsCopied, TxCharsAdvanced

----------------------------------------------------------------------------
(* The characters on their way to read().                                  *)

LEMMA TakenRange ==
  ASSUME Inv
  PROVE  /\ Taken \in Nat /\ Taken <= Ahead(rx_in, rx_out)
         /\ Ahead(rx_in, rx_out) \in Index
         /\ Ahead(rx_in, rx_out) - Taken \in Nat
         /\ Len(rxFifo) \in Nat /\ Len(rxFifo) <= Depth
<1>1. Ahead(rx_in, rx_out) \in Index
  BY AheadRange DEF Inv, Typed, RingsTyped
<1>2. Taken \in Nat /\ Taken <= Ahead(rx_in, rx_out)
  BY <1>1, Sizes DEF Taken, Index, Inv, Typed, ProgramTyped, ReadInv
<1>3. QED BY <1>1, <1>2, LenProperties, Sizes DEF Inv, Typed, DeviceTyped, Index

LEMMA RxFrame ==
  ASSUME Inv, Next
  PROVE  \/ (Host /\ HostType) \/ (Irq /\ IrqReceive)
         \/ Program /\ (ReadTake \/ ReadRelease)
         \/ UNCHANGED <<rxFifo, typed, rx_in, rx_out, rx_buf, expected, Taken>>
<1>1. CASE Host \/ Irq \/ Alarm
  BY <1>1 DEF Host, HostTake, Irq, IrqControl, IrqReceiveEmpty, IrqReceiveFull, IrqTransmit,
              IrqTransmitEnd, Alarm, device, host, rx, program, locals, Taken
<1>2. CASE Program /\ ~ReadTake /\ ~ReadRelease
  <2>1. UNCHANGED <<rxFifo, typed, rx_in, rx_out, rx_buf, expected>>
    BY <1>2 DEF Program, Call, WriteSpace, WriteCopy, WriteAdvance, WriteKick, WriteWait,
                ReadData, ReadNothing, ReadWait, ReadEnable, Close, SetTimeout, device, host, rx
  <2>2. pc # "release" /\ pc' # "release"
    BY <1>2 DEF Program, Call, WriteSpace, WriteCopy, WriteAdvance, WriteKick, WriteWait,
                ReadData, ReadNothing, ReadWait, ReadEnable, Close, SetTimeout,
                Goto, Continue, Return
  <2>3. QED BY <2>1, <2>2 DEF Taken
<1>3. QED BY <1>1, <1>2 DEF Next

LEMMA RxCharsTyped ==
  ASSUME Inv, Host, HostType
  PROVE  RxChars'
<1> USE DEF Inv, Typed, RingsTyped, DeviceTyped
<1> DEFINE D == Ahead(rx_in, rx_out) - Taken
<1>1. /\ rxFifo' = Append(rxFifo, typed) /\ typed' = Number(typed + 1) /\ Len(rxFifo) < Depth
      /\ UNCHANGED <<rx_in, rx_out, rx_buf, expected, pc, n>>
  BY DEF HostType, Host, rx, program, locals
<1>2. /\ Len(rxFifo') = Len(rxFifo) + 1
      /\ \A k \in 1 .. Len(rxFifo) : rxFifo'[k] = rxFifo[k]
      /\ rxFifo'[Len(rxFifo) + 1] = typed
  BY <1>1, AppendProperties
<1>3. /\ D \in Nat /\ D + Len(rxFifo) + 1 < Numbers /\ Len(rxFifo) \in Nat
      /\ D + Len(rxFifo) \in Nat
  BY <1>1, TakenRange, Sizes DEF Index
<1>4. typed = Number(expected + (D + Len(rxFifo)))
  BY DEF RxChars
<1>5. D' = D /\ Taken' = Taken /\ \A s \in Index : (Ahead(s, rx_out))' = Ahead(s, rx_out)
  BY <1>1 DEF Ahead, Taken
<1> HIDE DEF D
<1>6. ASSUME NEW k \in 1 .. Len(rxFifo')
      PROVE  rxFifo'[k] = Number(expected + (D + (k - 1)))
  <2>1. CASE k <= Len(rxFifo)
    BY <1>2, <1>3, <1>6, <2>1 DEF RxChars, D
  <2>2. CASE k = Len(rxFifo) + 1
    BY <1>2, <1>3, <1>4, <2>2, (Len(rxFifo) + 1) - 1 = Len(rxFifo)
  <2>3. QED BY <1>2, <1>3, <1>6, <2>1, <2>2
<1>7. typed' = Number(expected + (D + Len(rxFifo')))
  <2>1. Number(Number(expected + (D + Len(rxFifo))) + 1) = Number(expected + (D + Len(rxFifo) + 1))
    BY <1>3, NumberAdd, 1 \in Nat DEF ProgramTyped
  <2>2. D + Len(rxFifo) + 1 = D + Len(rxFifo')
    BY <1>2, <1>3
  <2>3. QED BY <1>1, <1>4, <2>1, <2>2
<1>8. \A s \in Index : Taken <= Ahead(s, rx_out) /\ Ahead(s, rx_out) < Ahead(rx_in, rx_out) =>
        rx_buf[s] = Number(expected + (Ahead(s, rx_out) - Taken))
  BY DEF RxChars
<1>9. QED BY <1>1, <1>5, <1>6, <1>7, <1>8 DEF RxChars, D

LEMMA RxCharsReceived ==
  ASSUME Inv, Irq, IrqReceive
  PROVE  RxChars'
<1> USE DEF Inv, Typed, RingsTyped, DeviceTyped
<1> DEFINE A == Ahead(rx_in, rx_out)
           D == A - Taken
<1>1. /\ ~RxFull /\ rxFifo # <<>>
      /\ rx_buf' = [rx_buf EXCEPT ![rx_in] = Head(rxFifo)]
      /\ rx_in' = Following(rx_in, 1) /\ rxFifo' = Tail(rxFifo)
      /\ UNCHANGED <<rx_out, typed, expected, pc, n>>
  BY DEF IrqReceive, Irq, host, program, locals
<1>2. /\ Len(rxFifo) \in Nat /\ Len(rxFifo) >= 1 /\ Len(rxFifo') = Len(rxFifo) - 1
      /\ Head(rxFifo) = rxFifo[1]
      /\ \A k \in 1 .. Len(rxFifo) - 1 : rxFifo'[k] = rxFifo[k + 1]
  BY <1>1, HeadTailProperties, LenProperties
<1>3. A + 1 < BUF_LEN
  BY <1>1, FullIsFull
<1>4. A \in Nat /\ D \in Nat /\ Taken \in Nat /\ Taken <= A
  BY TakenRange, Sizes DEF Index
<1>5. rx_in' \in Index /\ A' = A + 1
  BY <1>1, <1>3, InMoves, 1 \in Nat DEF Ahead
<1>6. Taken' = Taken /\ \A s \in Index : (Ahead(s, rx_out))' = Ahead(s, rx_out)
  BY <1>1 DEF Ahead, Taken
<1>7. Head(rxFifo) = Number(expected + D)
  <2>1. rxFifo[1] = Number(expected + (D + (1 - 1)))
    BY <1>2 DEF RxChars
  <2>2. D + (1 - 1) = D
    BY <1>4
  <2>3. QED BY <1>2, <2>1, <2>2
<1>8. ASSUME NEW s \in Index, Taken <= Ahead(s, rx_out), Ahead(s, rx_out) < A + 1
      PROVE  rx_buf'[s] = Number(expected + (Ahead(s, rx_out) - Taken))
  <2>1. CASE s = rx_in
    BY <1>1, <1>7, <2>1
  <2>2. CASE s # rx_in
    <3>1. Ahead(s, rx_out) # A /\ Ahead(s, rx_out) \in Nat
      BY <2>2, Sizes DEF Ahead, Index
    <3>2. Ahead(s, rx_out) < A
      BY <1>4, <1>8, <3>1
    <3>3. QED BY <1>1, <1>8, <2>2, <3>2 DEF RxChars
  <2>3. QED BY <2>1, <2>2
<1> HIDE DEF A
<1>9. ASSUME NEW k \in 1 .. Len(rxFifo')
      PROVE  rxFifo'[k] = Number(expected + (A + 1 - Taken + (k - 1)))
  <2>1. k + 1 \in 1 .. Len(rxFifo) /\ rxFifo'[k] = rxFifo[k + 1]
    BY <1>2, <1>9
  <2>2. rxFifo[k + 1] = Number(expected + (A - Taken + (k + 1 - 1)))
    BY <2>1 DEF RxChars, A
  <2>3. A - Taken + (k + 1 - 1) = A + 1 - Taken + (k - 1)
    BY <1>2, <1>4, <1>9
  <2>4. QED BY <2>1, <2>2, <2>3
<1>10. typed = Number(expected + (A + 1 - Taken + Len(rxFifo')))
  <2>1. typed = Number(expected + (A - Taken + Len(rxFifo)))
    BY DEF RxChars, A
  <2>2. A - Taken + Len(rxFifo) = A + 1 - Taken + Len(rxFifo')
    BY <1>2, <1>4
  <2>3. QED BY <2>1, <2>2
<1>11. \A s \in Index : Taken' <= Ahead(s, rx_out') /\ Ahead(s, rx_out') < A' =>
         rx_buf'[s] = Number(expected' + (Ahead(s, rx_out') - Taken'))
  BY <1>1, <1>5, <1>6, <1>8
<1>12. \A k \in 1 .. Len(rxFifo') : rxFifo'[k] = Number(expected' + (A' - Taken' + (k - 1)))
  BY <1>1, <1>4, <1>5, <1>6, <1>9
<1>13. typed' = Number(expected' + (A' - Taken' + Len(rxFifo')))
  BY <1>1, <1>4, <1>5, <1>6, <1>10
<1>14. QED BY <1>11, <1>12, <1>13 DEF RxChars, A

LEMMA RxCharsRead ==
  ASSUME Inv, Program, ReadTake
  PROVE  RxChars'
<1> USE DEF Inv, Typed, RingsTyped, DeviceTyped, ProgramTyped
<1> DEFINE A == Ahead(rx_in, rx_out)
<1>1. /\ pc = "take" /\ pc' = "release" /\ expected' = Number(expected + n)
      /\ UNCHANGED <<rxFifo, typed, rx_in, rx_out, rx_buf, n>>
  BY TakesInOrder DEF ReadTake, Continue, Goto, Program, device, host, locals, rx
<1>2. Taken = 0 /\ Taken' = n /\ n \in Nat /\ n <= A /\ A \in Nat /\ A < BUF_LEN
  BY <1>1, TakenRange, Sizes DEF Taken, ReadInv, Index
<1>3. Len(rxFifo) \in Nat /\ Len(rxFifo) <= Depth
  BY TakenRange
<1>4. ASSUME NEW x \in Nat, n <= x, x < Numbers
      PROVE  Number(expected + (x - Taken)) = Number(expected' + (x - n))
  <2>1. x - n \in Nat /\ n + (x - n) = x /\ x - 0 = x
    BY <1>2, <1>4
  <2>2. Number(Number(expected + n) + (x - n)) = Number(expected + (n + (x - n)))
    BY <1>2, <1>4, <2>1, NumberAdd
  <2>3. QED BY <1>1, <1>2, <2>1, <2>2
<1>5. ASSUME NEW s \in Index, n <= Ahead(s, rx_out), Ahead(s, rx_out) < A
      PROVE  rx_buf[s] = Number(expected' + (Ahead(s, rx_out) - n))
  <2>1. Ahead(s, rx_out) \in Nat /\ Ahead(s, rx_out) < Numbers
    BY <1>2, <1>5, AheadRange, Sizes
  <2>2. rx_buf[s] = Number(expected + (Ahead(s, rx_out) - Taken))
    BY <1>2, <1>5, <2>1 DEF RxChars
  <2>3. QED BY <1>4, <1>5, <2>1, <2>2
<1> HIDE DEF A
<1>6. ASSUME NEW j \in 0 .. Len(rxFifo)
      PROVE  Number(expected + (A - Taken + j)) = Number(expected' + (A - n + j))
  <2>1. PICK x \in Nat : x = A + j /\ n <= x /\ x < Numbers
    BY <1>2, <1>3, <1>6, Sizes
  <2>2. A - Taken + j = x - Taken /\ A - n + j = x - n
    BY <1>2, <1>6, <2>1
  <2>3. Number(expected + (x - Taken)) = Number(expected' + (x - n))
    BY <1>4, <2>1
  <2>4. QED BY <2>2, <2>3
<1>7. ASSUME NEW k \in 1 .. Len(rxFifo)
      PROVE  rxFifo[k] = Number(expected' + (A - n + (k - 1)))
  <2>1. k - 1 \in 0 .. Len(rxFifo)
    BY <1>3, <1>7
  <2>2. QED BY <1>6, <2>1 DEF RxChars, A
<1>8. typed = Number(expected' + (A - n + Len(rxFifo)))
  <2>1. Len(rxFifo) \in 0 .. Len(rxFifo)
    BY <1>3
  <2>2. QED BY <1>6, <2>1 DEF RxChars, A
<1>9. A' = A /\ \A s \in Index : (Ahead(s, rx_out))' = Ahead(s, rx_out)
  BY <1>1 DEF A, Ahead
<1>10. QED BY <1>1, <1>2, <1>5, <1>7, <1>8, <1>9 DEF RxChars, A

LEMMA RxCharsReleased ==
  ASSUME Inv, Program, ReadRelease
  PROVE  RxChars'
<1> USE DEF Inv, Typed, RingsTyped, DeviceTyped, ProgramTyped
<1> DEFINE A == Ahead(rx_in, rx_out)
<1>1. /\ pc = "release" /\ pc' # "release" /\ rx_out' = Following(out, n)
      /\ UNCHANGED <<rxFifo, typed, rx_in, rx_buf, expected>>
  BY DEF ReadRelease, Goto, Program, device, host
<1>2. /\ Taken = n /\ Taken' = 0 /\ out = rx_out /\ n \in Nat /\ n <= A /\ out + n <= BUF_LEN
      /\ A \in Nat /\ A < BUF_LEN
  BY <1>1, TakenRange, Sizes DEF Taken, ReadInv, Index
<1>3. rx_out' \in Index /\ A' = A - n
  BY <1>1, <1>2, OutMoves DEF Ahead
<1>4. ASSUME NEW s \in Index, Ahead(s, rx_out') < A - n
      PROVE  Ahead(s, rx_out) = Ahead(s, rx_out') + n
  <2>1. Following(rx_out, n) = IF rx_out + n < BUF_LEN THEN rx_out + n ELSE rx_out + n - BUF_LEN
    BY <1>2, FollowingOnce, Sizes DEF Index
  <2>2. QED BY <1>1, <1>2, <1>4, <2>1, Sizes DEF Ahead, Index
<1>5. ASSUME NEW s \in Index, Ahead(s, rx_out') < A - n
      PROVE  rx_buf[s] = Number(expected + Ahead(s, rx_out'))
  <2>1. Ahead(s, rx_out') \in Nat
    BY <1>3, AheadRange
  <2>2. /\ n <= Ahead(s, rx_out) /\ Ahead(s, rx_out) < A
        /\ Ahead(s, rx_out) - n = Ahead(s, rx_out')
    BY <1>2, <1>4, <1>5, <2>1
  <2>3. QED BY <1>2, <2>2 DEF RxChars
<1>6. ASSUME NEW s \in Index
      PROVE  Ahead(s, rx_out') \in Nat /\ Ahead(s, rx_out') - 0 = Ahead(s, rx_out')
  <2>1. Ahead(s, rx_out') \in Nat
    BY <1>3, AheadRange
  <2>2. QED BY <2>1
<1>7. A' - Taken' = A - Taken
  BY <1>2, <1>3
<1>8. \A s \in Index : Taken' <= Ahead(s, rx_out') /\ Ahead(s, rx_out') < A' =>
         rx_buf'[s] = Number(expected' + (Ahead(s, rx_out') - Taken'))
  BY <1>1, <1>2, <1>3, <1>5, <1>6
<1> HIDE DEF A
<1>9. \A k \in 1 .. Len(rxFifo') : rxFifo'[k] = Number(expected' + (A' - Taken' + (k - 1)))
  BY <1>1, <1>7 DEF RxChars, A
<1>10. typed' = Number(expected' + (A' - Taken' + Len(rxFifo')))
  BY <1>1, <1>7 DEF RxChars, A
<1>11. QED BY <1>8, <1>9, <1>10 DEF RxChars, A

LEMMA RxCharsStep ==
  ASSUME Inv, Next
  PROVE  RxChars'
<1>1. CASE UNCHANGED <<rxFifo, typed, rx_in, rx_out, rx_buf, expected, Taken>>
  BY <1>1 DEF Inv, RxChars, Ahead
<1>2. QED BY <1>1, RxFrame, RxCharsTyped, RxCharsReceived, RxCharsRead, RxCharsReleased

----------------------------------------------------------------------------
(* The interrupts.                                                         *)

LEMMA TransmitArmedStep ==
  ASSUME Inv, Next
  PROVE  TransmitArmed'
<1> USE DEF Inv, TransmitArmed
<1>1. CASE Host \/ Alarm
  BY <1>1 DEF Host, Alarm, tx, program
<1>2. CASE Irq
  <2>1. UNCHANGED pc
    BY <1>2 DEF Irq, program
  <2>2. CASE IrqReceiveFull
    BY <2>1, <2>2 DEF IrqReceiveFull, tx
  <2>3. CASE IrqTransmit
    BY <2>1, <2>3 DEF IrqTransmit
  <2>4. CASE IrqTransmitEnd
    BY <2>1, <2>4 DEF IrqTransmitEnd, tx
  <2>5. CASE IrqControl \/ IrqReceive \/ IrqReceiveEmpty
    BY <2>1, <2>5 DEF IrqControl, IrqReceive, IrqReceiveEmpty, tx
  <2>6. QED BY <1>2, <2>2, <2>3, <2>4, <2>5 DEF Irq
<1>3. CASE Program
  <2>1. CASE WriteSpace \/ WriteCopy \/ WriteAdvance \/ WriteKick
    BY <2>1 DEF WriteSpace, WriteCopy, WriteAdvance, WriteKick, Continue, Goto
  <2>2. CASE UNCHANGED <<tx, irq_enable>> /\ pc \notin {"write", "copy", "advance", "kick"}
    BY <2>2 DEF tx
  <2>3. CASE ReadEnable
    BY <2>3 DEF ReadEnable, tx
  <2>4. QED BY <1>3, <2>1, <2>2, <2>3
         DEF Program, Call, WriteWait, ReadData, ReadNothing, ReadTake, ReadRelease,
             ReadWait, Close, SetTimeout
<1>4. QED BY <1>1, <1>2, <1>3 DEF Next

LEMMA ReceiveArmedStep ==
  ASSUME Inv, Next
  PROVE  ReceiveArmed'
<1> USE DEF Inv, ReceiveArmed
<1>1. CASE Host \/ Alarm
  BY <1>1 DEF Host, Alarm, rx, program, locals, RxFull
<1>2. CASE Irq
  <2>1. UNCHANGED <<pc, moved>>
    BY <1>2 DEF Irq, program, locals
  <2>2. CASE IrqReceive
    BY <2>1, <2>2 DEF IrqReceive
  <2>3. CASE IrqReceiveFull
    BY <2>1, <2>3 DEF IrqReceiveFull, RxFull, rx
  <2>4. CASE IrqTransmitEnd
    BY <2>1, <2>4 DEF IrqTransmitEnd, RxFull, rx
  <2>5. CASE IrqControl \/ IrqTransmit \/ IrqReceiveEmpty
    BY <2>1, <2>5 DEF IrqControl, IrqTransmit, IrqReceiveEmpty, RxFull, rx
  <2>6. QED BY <1>2, <2>2, <2>3, <2>4, <2>5 DEF Irq
<1>3. CASE Program
  <2>1. CASE WriteKick \/ ReadEnable
    BY <2>1 DEF WriteKick, ReadEnable, rx, RxFull
  <2>2. CASE ReadRelease
    <3>1. moved' > 0 /\ pc' \in {"read", "enable"}
      BY <2>2 DEF ReadRelease, Goto, ReadInv, Typed, ProgramTyped
    <3>2. QED BY <3>1
  <2>3. CASE ReadData \/ ReadTake
    BY <2>3 DEF ReadData, ReadTake, Continue, Goto, rx, RxFull
  <2>4. CASE ReadNothing
    <3>1. Following(rx_in, 1) = IF rx_in + 1 < BUF_LEN THEN rx_in + 1 ELSE rx_in + 1 - BUF_LEN
      BY FollowingOnce, Sizes DEF Typed, RingsTyped
    <3>2. ~RxFull
      BY <2>4, <3>1, Sizes DEF RxFull, ReadNothing, Typed, RingsTyped, Index
    <3>3. CASE "RE" \in irq_enable
      BY <2>4, <3>3 DEF ReadNothing
    <3>4. CASE moved > 0
      BY <2>4, <3>4 DEF ReadNothing, Return, Goto
    <3>5. QED BY <2>4, <3>2, <3>3, <3>4 DEF ReadNothing
  <2>5. CASE /\ UNCHANGED <<rx, irq_enable>>
             /\ pc \notin {"read", "take", "release", "enable"}
    BY <2>5 DEF rx, RxFull
  <2>6. QED BY <1>3, <2>1, <2>2, <2>3, <2>4, <2>5
         DEF Program, Call, WriteSpace, WriteCopy, WriteAdvance, WriteWait, ReadWait,
             Close, SetTimeout
<1>4. QED BY <1>1, <1>2, <1>3 DEF Next

----------------------------------------------------------------------------
(* The theorems.                                                           *)

LEMMA InitInv ==
  ASSUME Init
  PROVE  Inv
<1> USE DEF Init
<1>0. 0 \in Index /\ 0 \in Char
  BY Sizes DEF Index, Char
<1>1. Typed
  <2>1. RingsTyped
    BY <1>0 DEF RingsTyped
  <2>2. DeviceTyped
    BY <1>0, Sizes DEF DeviceTyped
  <2>3. DriverTyped
    BY Sizes, TimeoutAssumption DEF DriverTyped
  <2>4. ProgramTyped
    BY <1>0 DEF ProgramTyped, Places
  <2>5. QED BY <2>1, <2>2, <2>3, <2>4 DEF Typed
<1>2. SpaceInv
  BY Sizes DEF SpaceInv
<1>3. WriteInv /\ ReadInv
  BY DEF WriteInv, ReadInv
<1>4. Ahead(0, 0) = 0 /\ Taken = 0
  BY Sizes DEF Ahead, Taken
<1>5. Number(0) = 0
  <2>1. Number(0 + 0) = IF 0 + 0 < Numbers THEN 0 + 0 ELSE 0 + 0 - Numbers
    BY <1>0, NumberOnce, Sizes
  <2>2. QED BY <2>1, Sizes
<1>6. \A s \in Index : ~(Ahead(s, 0) < 0)
  BY Sizes DEF Ahead, Index
<1>7. TxChars
  BY <1>4, <1>5, <1>6 DEF TxChars
<1>8. RxChars
  BY <1>4, <1>5, <1>6 DEF RxChars
<1>9. TransmitArmed /\ ReceiveArmed
  BY DEF TransmitArmed, ReceiveArmed
<1>10. QED BY <1>1, <1>2, <1>3, <1>7, <1>8, <1>9 DEF Inv

LEMMA InvStep ==
  ASSUME Inv, [Next]_vars
  PROVE  Inv'
<1>1. CASE Next
  <2>1. Typed' /\ SpaceInv'
    BY <1>1, RingsStep, DeviceStep, DriverStep, ProgramStep DEF Typed
  <2>2. QED
    BY <1>1, <2>1, WriteInvStep, ReadInvStep, TxCharsStep, RxCharsStep,
       TransmitArmedStep, ReceiveArmedStep DEF Inv
<1>2. CASE UNCHANGED vars
  BY <1>2 DEF vars, device, host, tx, rx, clock, irqVars, program, locals, Inv, Typed,
    RingsTyped, DeviceTyped, DriverTyped, ProgramTyped, SpaceInv, WriteInv, ReadInv,
    TxChars, RxChars, Taken, Ahead, TransmitArmed, ReceiveArmed, RxFull
<1>3. QED BY <1>1, <1>2

LEMMA InvAlways == Spec => []Inv
<1>1. Init => Inv
  BY InitInv
<1>2. Inv /\ [Next]_vars => Inv'
  BY InvStep
<1>3. QED BY <1>1, <1>2, PTL DEF Spec

(* The characters of a ring as a sequence.                                  *)
LEMMA RingIsSeq ==
  ASSUME NEW buf \in [Index -> Char], NEW i \in Index, NEW o \in Index
  PROVE  /\ Ring(buf, i, o) \in Seq(Char)
         /\ Len(Ring(buf, i, o)) = Ahead(i, o)
         /\ \A k \in 1 .. Ahead(i, o) :
              \E s \in Index : Ahead(s, o) = k - 1 /\ Ring(buf, i, o)[k] = buf[s]
<1>1. Ahead(i, o) \in Nat /\ Ahead(i, o) < BUF_LEN
  BY AheadRange
<1>2. (i + BUF_LEN - o) % BUF_LEN = Ahead(i, o)
  <2>1. PICK a \in Nat : a = i + BUF_LEN - o /\ a < BUF_LEN + BUF_LEN
    BY Sizes DEF Index
  <2>2. a % BUF_LEN = IF a < BUF_LEN THEN a ELSE a - BUF_LEN
    BY <2>1, ModOnce, Sizes
  <2>3. QED BY <2>1, <2>2, Sizes DEF Ahead, Index
<1>3. ASSUME NEW k \in 1 .. Ahead(i, o)
      PROVE  \E s \in Index : s = Following(o, k - 1) /\ Ahead(s, o) = k - 1
  <2>1. PICK j \in Nat : j = k - 1 /\ j < BUF_LEN
    BY <1>1, <1>3, Sizes
  <2>2. PICK s \in Index : s = Following(o, j) /\ s = IF o + j < BUF_LEN THEN o + j
                                                      ELSE o + j - BUF_LEN
    BY <2>1, FollowingOnce, Sizes
  <2>3. Ahead(s, o) = j
    BY <2>1, <2>2, Sizes DEF Ahead, Index
  <2>4. QED BY <2>1, <2>2, <2>3
<1>4. Ring(buf, i, o) = [k \in 1 .. Ahead(i, o) |-> buf[Following(o, k - 1)]]
  BY <1>2 DEF Ring
<1>5. \A k \in 1 .. Ahead(i, o) : buf[Following(o, k - 1)] \in Char
  BY <1>3
<1>6. Ring(buf, i, o) \in Seq(Char) /\ Len(Ring(buf, i, o)) = Ahead(i, o)
  BY <1>1, <1>4, <1>5, IsASeq, LenProperties
<1>7. QED BY <1>3, <1>4, <1>6

(* Types, for every instance.  The local copies of the pointers are places  *)
(* in the ring, too.                                                        *)
THEOREM TypeCorrect == Spec => []TypeOK
<1>1. Inv => TypeOK
  BY DEF Inv, Typed, RingsTyped, DeviceTyped, DriverTyped, ProgramTyped, TypeOK, Char
<1>2. QED BY <1>1, InvAlways, PTL

(* Nothing that write() has accepted is lost, doubled or overtaken on its   *)
(* way to the host, for every length of ring and FIFO.                      *)
THEOREM TxInOrderCorrect == Spec => []TxInOrder
<1>1. ASSUME Inv PROVE TxInOrder
  <2> USE DEF Inv, Typed, RingsTyped, DeviceTyped
  <2> DEFINE r == Ring(tx_buf, tx_in, tx_out)
             L == Len(txFifo)
             A == Ahead(tx_in, tx_out)
  <2>1. /\ r \in Seq(Char) /\ Len(r) = A
        /\ \A k \in 1 .. A : \E s \in Index : Ahead(s, tx_out) = k - 1 /\ r[k] = tx_buf[s]
    <3>1. tx_buf \in [Index -> Char] /\ tx_in \in Index /\ tx_out \in Index
      BY <1>1
    <3>2. QED BY <3>1, RingIsSeq
  <2>2. L \in Nat /\ A \in Nat
    BY <1>1, LenProperties, AheadRange
  <2>3. /\ txFifo \o r \in Seq(Char) /\ Len(txFifo \o r) = L + A
        /\ \A k \in 1 .. L + A : (txFifo \o r)[k] = IF k <= L THEN txFifo[k] ELSE r[k - L]
    BY <1>1, <2>1, ConcatProperties
  <2>4. DOMAIN (txFifo \o r) = 1 .. L + A
    BY <2>3, LenProperties
  <2> HIDE DEF r, L, A
  <2>5. ASSUME NEW k \in 1 .. L + A
        PROVE  (txFifo \o r)[k] = Number(hostNext + k - 1)
    <3>1. CASE k <= L
      <4>1. k \in 1 .. L /\ hostNext + (k - 1) = hostNext + k - 1
        BY <1>1, <2>2, <2>5, <3>1 DEF Char
      <4>2. txFifo[k] = Number(hostNext + (k - 1))
        BY <1>1, <4>1 DEF TxChars, L
      <4>3. QED BY <2>3, <3>1, <4>1, <4>2
    <3>2. CASE k > L
      <4>1. k - L \in 1 .. A
        BY <2>2, <2>5, <3>2
      <4>2. PICK s \in Index : Ahead(s, tx_out) = k - L - 1 /\ r[k - L] = tx_buf[s]
        BY <2>1, <4>1
      <4>3. Ahead(s, tx_out) < A
        BY <2>2, <2>5, <4>2
      <4>4. tx_buf[s] = Number(hostNext + (L + Ahead(s, tx_out)))
        BY <1>1, <4>3 DEF TxChars, L, A
      <4>5. hostNext + (L + Ahead(s, tx_out)) = hostNext + k - 1
        BY <1>1, <2>2, <2>5, <4>2 DEF Char
      <4>6. ~(k <= L)
        BY <2>2, <2>5, <3>2
      <4>7. (txFifo \o r)[k] = r[k - L]
        BY <2>3, <2>5, <4>6
      <4>8. QED BY <4>2, <4>4, <4>5, <4>7
    <3>3. k <= L \/ k > L
      BY <2>2, <2>5
    <3>4. QED BY <3>1, <3>2, <3>3
  <2>6. Number(hostNext + Len(txFifo \o r)) = written
    BY <1>1, <2>3 DEF TxChars, L, A
  <2>7. QED BY <2>4, <2>5, <2>6 DEF TxInOrder, Consecutive, r
<1>2. QED BY <1>1, InvAlways, PTL

(* Nothing that the host has typed is lost, doubled or overtaken on its way *)
(* to read(), for every length of ring and FIFO.                            *)
THEOREM RxInOrderCorrect == Spec => []RxInOrder
<1>1. ASSUME Inv, pc # "release"
      PROVE  Consecutive(Ring(rx_buf, rx_in, rx_out) \o rxFifo, expected, typed)
  <2> USE DEF Inv, Typed, RingsTyped, DeviceTyped, ProgramTyped
  <2> DEFINE r == Ring(rx_buf, rx_in, rx_out)
             L == Len(rxFifo)
             A == Ahead(rx_in, rx_out)
  <2>0. Taken = 0
    BY <1>1 DEF Taken
  <2>1. /\ r \in Seq(Char) /\ Len(r) = A
        /\ \A k \in 1 .. A : \E s \in Index : Ahead(s, rx_out) = k - 1 /\ r[k] = rx_buf[s]
    <3>1. rx_buf \in [Index -> Char] /\ rx_in \in Index /\ rx_out \in Index
      BY <1>1
    <3>2. QED BY <3>1, RingIsSeq
  <2>2. L \in Nat /\ A \in Nat
    BY <1>1, LenProperties, AheadRange
  <2>3. /\ r \o rxFifo \in Seq(Char) /\ Len(r \o rxFifo) = A + L
        /\ \A k \in 1 .. A + L : (r \o rxFifo)[k] = IF k <= A THEN r[k] ELSE rxFifo[k - A]
    <3>1. r \in Seq(Char) /\ rxFifo \in Seq(Char)
      BY <1>1, <2>1
    <3> HIDE DEF r, A
    <3>2. /\ r \o rxFifo \in Seq(Char) /\ Len(r \o rxFifo) = Len(r) + Len(rxFifo)
          /\ \A k \in 1 .. Len(r) + Len(rxFifo) :
               (r \o rxFifo)[k] = IF k <= Len(r) THEN r[k] ELSE rxFifo[k - Len(r)]
      BY <3>1, ConcatProperties
    <3>3. QED BY <2>1, <3>2
  <2>4. DOMAIN (r \o rxFifo) = 1 .. A + L
    BY <2>3, LenProperties
  <2> HIDE DEF r, L, A
  <2>5. ASSUME NEW k \in 1 .. A + L
        PROVE  (r \o rxFifo)[k] = Number(expected + k - 1)
    <3>1. CASE k <= A
      <4>1. k \in 1 .. A
        BY <2>2, <2>5, <3>1
      <4>2. PICK s \in Index : Ahead(s, rx_out) = k - 1 /\ r[k] = rx_buf[s]
        BY <2>1, <4>1
      <4>3. Ahead(s, rx_out) < A /\ 0 <= Ahead(s, rx_out)
        BY <2>2, <4>1, <4>2
      <4>4. rx_buf[s] = Number(expected + (Ahead(s, rx_out) - 0))
        BY <1>1, <2>0, <4>3 DEF RxChars, A
      <4>5. expected + (Ahead(s, rx_out) - 0) = expected + k - 1
        BY <1>1, <2>2, <2>5, <4>2 DEF Char
      <4>6. QED BY <2>3, <3>1, <4>2, <4>4, <4>5
    <3>2. CASE k > A
      <4>1. k - A \in 1 .. L /\ ~(k <= A)
        BY <2>2, <2>5, <3>2
      <4>2. rxFifo[k - A] = Number(expected + (A - 0 + (k - A - 1)))
        BY <1>1, <2>0, <4>1 DEF RxChars, L, A
      <4>3. expected + (A - 0 + (k - A - 1)) = expected + k - 1
        BY <1>1, <2>2, <2>5 DEF Char
      <4>4. (r \o rxFifo)[k] = rxFifo[k - A]
        BY <2>3, <2>5, <4>1
      <4>5. QED BY <4>2, <4>3, <4>4
    <3>3. k <= A \/ k > A
      BY <2>2, <2>5
    <3>4. QED BY <3>1, <3>2, <3>3
  <2>6. Number(expected + Len(r \o rxFifo)) = typed
    <3>1. typed = Number(expected + (A - 0 + L))
      BY <1>1, <2>0 DEF RxChars, L, A
    <3>2. A - 0 + L = A + L
      BY <2>2
    <3>3. QED BY <2>3, <3>1, <3>2
  <2>7. QED BY <2>4, <2>5, <2>6 DEF Consecutive, r
<1>2. Inv => RxInOrder
  BY <1>1 DEF RxInOrder
<1>3. QED BY <1>2, InvAlways, PTL

(* No wake-up is lost: while characters wait, on either side, somebody is   *)
(* going to be woken for them.                                              *)
THEOREM InterruptsArmedCorrect == Spec => []InterruptsArmed
<1>1. Inv => InterruptsArmed
  BY DEF Inv, InterruptsArmed, TransmitArmed, ReceiveArmed
<1>2. QED BY <1>1, InvAlways, PTL

(* write() and read() work from pointers they have read before, while the   *)
(* interrupt routine moves the other end: the part that write() fills stays *)
(* free, and does not run into what the routine has still to send; the part *)
(* that read() takes stays full; neither passes the end of the ring.        *)
THEOREM SnapshotsSafe == Spec => [](WriteInv /\ ReadInv)
<1>1. Inv => WriteInv /\ ReadInv
  BY DEF Inv
<1>2. QED BY <1>1, InvAlways, PTL

(* The characters that read() returns are the ones the host has typed next. *)
THEOREM ReadsInOrder == Spec => [](pc = "take" => InOrder)
<1>1. Inv => (pc = "take" => InOrder)
  BY TakesInOrder
<1>2. QED BY <1>1, InvAlways, PTL
=============================================================================
