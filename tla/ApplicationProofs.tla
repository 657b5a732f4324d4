--------------------------- MODULE ApplicationProofs ---------------------------
(***************************************************************************)
(* main() on the register file and the master, for every length of the     *)
(* frames and the bursts, every number of frames that are given up and of   *)
(* runs that are interrupted: what main() reads has been flagged for it,    *)
(* and the second and the third buffer hold the frames they should.         *)
(***************************************************************************)
EXTENDS Application, TLAPS

----------------------------------------------------------------------------
(* The invariant.                                                          *)

L == Value(FrameLength)

(* Where the bursts of a frame go in a buffer, and where the buffers begin. *)
Offsets == {n * ADDR_INCREMENT : n \in 0 .. (L \div ADDR_INCREMENT) - 1}

Base(k) == IF k = 0 THEN 0 ELSE IF k = 1 THEN L ELSE L + L

All == {0, 1, 2}

(* All the bursts of buffer k are from frame f. *)
Holds(k, f) == \A o \in Offsets : memory[Base(k) + o] = f

ProgramTyped ==
  /\ pc \in {"fill", "stop", "address", "length", "status", "start", "poll", "halt", "read"}
  /\ i \in 0 .. 3
  /\ pc \in {"fill", "stop", "status", "start", "halt"} => i = 0
  /\ pc \in {"poll", "read"} => i \in 0 .. 2
  /\ giveUps \in 0 .. MaxGiveUps /\ frame \in 1 .. LastFrame
  /\ memory \in [BurstAddress -> 0 .. LastFrame]

RegistersTyped ==
  /\ iRegStart \in {{}, {0}} /\ AS_ALL_Start \in BOOLEAN
  /\ iRegStartAddress = Slave!Zero
  /\ iRegBufferAddress \in Slave!Word /\ iRegLength \in Slave!Word
  /\ iRegStatus \subseteq All /\ nextBuffer \in All /\ prevStatus \in BOOLEAN

MasterInv ==
  /\ iRegStateSM \in {"WAITDATA", "BEGINTRANSFER", "BURST"}
  /\ iRegBurstCount \in Nat
  /\ iRegCounterAddress \in Offsets
  /\ ~AS_ALL_Start => Master!MasterInit

(* While main() configures the controller, it is stopped.                   *)
StoppedInv ==
  /\ pc \in {"address", "length", "status", "start"} => iRegStart = {}
  /\ pc \in {"length", "status", "start"} \/ (pc = "address" /\ i > 0) => ~AS_ALL_Start
  /\ pc \in {"poll", "halt"} => iRegStart = {0}

(* What main() has configured so far.                                       *)
ConfiguredInv ==
  /\ pc = "address" => \A j \in 0 .. 3 : j < i => iRegBufferAddress[j] = 0
  /\ pc \in {"length", "status", "start"} => iRegBufferAddress = Slave!Zero
  /\ pc = "length" => \A j \in 0 .. 3 : j < i => iRegLength[j] = FrameLength[j]
  /\ pc \in {"status", "start", "poll", "halt", "read"} \/ iRegStart # {} \/ AS_ALL_Start =>
       iRegLength = FrameLength
  /\ pc \in {"start", "poll", "halt", "read"} \/ iRegStart # {} \/ AS_ALL_Start =>
       AS_AM_Length = FrameLength
  /\ pc = "start" => iRegStatus = {}

(* A ring that was found at its second or third buffer never shows the      *)
(* status 1.                                                                *)
Skewed ==
  \/ iRegStatus = {} /\ nextBuffer # 0
  \/ iRegStatus = {1} /\ nextBuffer = 2
  \/ iRegStatus = {1, 2} /\ nextBuffer = 0
  \/ iRegStatus = {2} /\ nextBuffer = 0
  \/ iRegStatus = {0, 2} /\ nextBuffer = 1
  \/ iRegStatus = All /\ nextBuffer # 0

InOrder ==
  \/ iRegStatus = {} /\ nextBuffer = 0
  \/ iRegStatus = {0} /\ nextBuffer = 1
  \/ iRegStatus = {0, 1} /\ nextBuffer = 2
  \/ iRegStatus = All /\ nextBuffer = 0

RingInv ==
  /\ pc = "poll" => InOrder \/ (Skewed /\ i = 0)
  /\ pc \in {"halt", "read"} => iRegStatus = All /\ nextBuffer = 0

(* A run that has found the ring at its first buffer.                       *)
Run == Started /\ InOrder

(* The edge detector is armed again before the next frame ends, and the     *)
(* address of the next buffer is at the master before its first burst.      *)
PipelineInv ==
  /\ pc = "poll" /\ prevStatus => iRegStateSM = "WAITDATA"
  /\ Run => /\ iRegBufferAddress = Slave!BufferStart(Slave!Zero, nextBuffer)
            /\ \/ AS_AM_StartAddress = iRegBufferAddress
               \/ iRegStateSM = "WAITDATA" /\ iRegCounterAddress = 0

(* The camera has delivered the recorded frames, those given up, and one    *)
(* that it is at.                                                           *)
NumberInv == Run /\ iRegStatus # All => frame <= 1 + giveUps + nextBuffer

(* The recorded frames are in the memory, in the order they were taken.     *)
KeptInv ==
  Run =>
    /\ iRegStatus = {0, 1} => \E f \in 1 .. frame - 1 : Holds(1, f)
    /\ iRegStatus = All =>
         \E f, g \in 1 .. LastFrame - 1 : f < g /\ Holds(1, f) /\ Holds(2, g)

(* The frame that is on its way is there as far as the master has got.      *)
CurrentInv ==
  Run /\ iRegStatus # All =>
    \A o \in Offsets :
      o < iRegCounterAddress \/ (o = iRegCounterAddress /\ iRegStateSM = "BURST") =>
        memory[Base(nextBuffer) + o] = frame

Inv ==
  /\ ProgramTyped /\ RegistersTyped /\ MasterInv
  /\ StoppedInv /\ ConfiguredInv /\ RingInv /\ PipelineInv
  /\ NumberInv /\ KeptInv /\ CurrentInv

----------------------------------------------------------------------------
(* The arithmetic of buffers and bursts.                                    *)

LEMMA Product ==
  ASSUME NEW h \in Nat, NEW a \in Nat, NEW b \in Nat, a < b
  PROVE  a * h + h <= b * h
OBVIOUS

LEMMA Small ==
  ASSUME NEW p \in Nat \ {0}, NEW n \in Nat, n < p
  PROVE  n % p = n /\ n \div p = 0
OBVIOUS

(* The number of a word.                                                    *)
LEMMA ValueTyped ==
  ASSUME NEW w \in Slave!Word
  PROVE  Value(w) \in Nat
<1>1. w[0] \in Nat /\ w[1] \in Nat /\ w[2] \in Nat /\ w[3] \in Nat /\ ByteBase \in Nat
  BY ApplicationAssumption DEF Slave!Word, Slave!Lane, Slave!Byte
<1>2. PICK x \in Nat : x = w[2] + ByteBase * w[3]
  BY <1>1
<1>3. PICK y \in Nat : y = w[1] + ByteBase * x
  BY <1>1
<1>4. w[0] + ByteBase * y \in Nat
  BY <1>1
<1>5. QED BY <1>2, <1>3, <1>4 DEF Value

LEMMA Sizes ==
  /\ ByteBase \in Nat /\ ByteBase >= 2
  /\ ADDR_INCREMENT \in Nat /\ ADDR_INCREMENT >= 1
  /\ L \in Nat /\ L >= 1 /\ AddressSpace \in Nat /\ L + L + L <= AddressSpace
  /\ MaxGiveUps \in Nat /\ LastFrame \in Nat /\ LastFrame > MaxGiveUps + 3
<1>1. L \in Nat
  BY ValueTyped, ApplicationAssumption DEF L
<1>2. AddressSpace \in Nat
  <2>1. PICK n \in Nat : n = ByteBase * ByteBase
    BY ApplicationAssumption
  <2>2. PICK m \in Nat : m = n * ByteBase
    BY ApplicationAssumption
  <2>3. m * ByteBase \in Nat
    BY <2>2, ApplicationAssumption
  <2>4. QED BY <2>1, <2>2, <2>3 DEF AddressSpace
<1>3. L > 0 /\ 3 * L <= AddressSpace
  BY ApplicationAssumption DEF L
<1>4. QED BY <1>1, <1>2, <1>3, ApplicationAssumption

(* A burst ends inside the frame, and the next one, too, unless it was the  *)
(* last.                                                                   *)
LEMMA BurstSteps ==
  /\ 0 \in Offsets /\ L - ADDR_INCREMENT \in Offsets
  /\ \A o \in Offsets :
       /\ o \in Nat /\ o + ADDR_INCREMENT <= L
       /\ o + ADDR_INCREMENT < L => o + ADDR_INCREMENT \in Offsets
  /\ \A o, p \in Offsets : o < p + ADDR_INCREMENT => o <= p
<1>1. ADDR_INCREMENT \in Nat /\ ADDR_INCREMENT >= 1 /\ L \in Nat /\ L >= 1
  BY Sizes
<1>2. PICK n \in Nat : n = L \div ADDR_INCREMENT
  BY <1>1
<1>3. L = n * ADDR_INCREMENT
  BY <1>1, <1>2, ApplicationAssumption DEF L
<1>4. n >= 1
  BY <1>1, <1>3
<1>5. 0 \in Offsets
  <2>1. 0 = 0 * ADDR_INCREMENT /\ 0 \in 0 .. n - 1
    BY <1>1, <1>4
  <2>2. QED BY <1>2, <2>1 DEF Offsets
<1>6. L - ADDR_INCREMENT \in Offsets
  <2>1. L - ADDR_INCREMENT = (n - 1) * ADDR_INCREMENT /\ n - 1 \in 0 .. n - 1
    BY <1>1, <1>3, <1>4
  <2>2. QED BY <1>2, <2>1 DEF Offsets
<1>7. ASSUME NEW o \in Offsets
      PROVE  /\ o \in Nat /\ o + ADDR_INCREMENT <= L
             /\ o + ADDR_INCREMENT < L => o + ADDR_INCREMENT \in Offsets
  <2>1. PICK b \in 0 .. n - 1 : o = b * ADDR_INCREMENT
    BY <1>2 DEF Offsets
  <2>2. o \in Nat
    BY <1>1, <2>1
  <2>3. o + ADDR_INCREMENT <= L
    BY <1>1, <1>3, <2>1, Product
  <2>4. o + ADDR_INCREMENT = (b + 1) * ADDR_INCREMENT
    BY <1>1, <2>1
  <2>5. b + 1 = n => o + ADDR_INCREMENT = L
    BY <1>3, <2>4
  <2>6. ASSUME o + ADDR_INCREMENT < L PROVE o + ADDR_INCREMENT \in Offsets
    <3>1. b + 1 \in 0 .. n - 1
      BY <2>2, <2>5, <2>6, <1>1
    <3>2. QED BY <1>2, <2>4, <3>1 DEF Offsets
  <2>7. QED BY <2>2, <2>3, <2>6
<1>8. ASSUME NEW o \in Offsets, NEW p \in Offsets, o < p + ADDR_INCREMENT
      PROVE  o <= p
  <2>1. PICK a \in 0 .. n - 1 : o = a * ADDR_INCREMENT
    BY <1>2 DEF Offsets
  <2>2. PICK b \in 0 .. n - 1 : p = b * ADDR_INCREMENT
    BY <1>2 DEF Offsets
  <2>3. b < a => b * ADDR_INCREMENT + ADDR_INCREMENT <= a * ADDR_INCREMENT
    BY <1>1, <2>1, <2>2, Product
  <2>4. a <= b
    BY <1>1, <1>8, <2>1, <2>2, <2>3
  <2>5. a = b => o = p
    BY <2>1, <2>2
  <2>6. a < b => a * ADDR_INCREMENT + ADDR_INCREMENT <= b * ADDR_INCREMENT
    BY <1>1, <2>1, <2>2, Product
  <2>7. QED BY <1>1, <1>7, <2>1, <2>2, <2>4, <2>5, <2>6
<1>9. QED BY <1>5, <1>6, <1>7, <1>8

(* The places of the three buffers in the memory.                           *)
LEMMA Places ==
  /\ \A k \in All : Base(k) \in Nat /\ Base(k) + L <= AddressSpace
  /\ \A k \in All, o \in Offsets : Base(k) + o \in BurstAddress
  /\ \A k, j \in All : \A o, p \in Offsets : Base(k) + o = Base(j) + p => k = j /\ o = p
<1>1. ADDR_INCREMENT \in Nat /\ ADDR_INCREMENT >= 1 /\ L \in Nat /\ L >= 1
      /\ AddressSpace \in Nat /\ L + L + L <= AddressSpace
  BY Sizes
<1>2. \A k \in All : Base(k) \in Nat /\ Base(k) + L <= AddressSpace
  BY <1>1 DEF Base, All
<1>3. ASSUME NEW k \in All, NEW j \in All, NEW o \in Offsets, NEW p \in Offsets,
             Base(k) + o = Base(j) + p
      PROVE  k = j /\ o = p
  <2>1. o \in Nat /\ p \in Nat /\ o < L /\ p < L
    BY <1>1, BurstSteps
  <2>2. k = j
    BY <1>1, <1>3, <2>1 DEF Base, All
  <2>3. QED BY <1>2, <1>3, <2>1, <2>2
<1>4. ASSUME NEW k \in All, NEW o \in Offsets PROVE Base(k) + o \in BurstAddress
  <2>1. PICK n \in Nat : n = L \div ADDR_INCREMENT
    BY <1>1
  <2>2. L = n * ADDR_INCREMENT
    BY <1>1, <2>1, ApplicationAssumption DEF L
  <2>3. PICK b \in 0 .. n - 1 : o = b * ADDR_INCREMENT
    BY <2>1 DEF Offsets
  <2>4. PICK j \in 0 .. n + n : Base(k) = j * ADDR_INCREMENT
    <3>1. 0 = 0 * ADDR_INCREMENT /\ L = n * ADDR_INCREMENT
          /\ L + L = (n + n) * ADDR_INCREMENT
      BY <1>1, <2>1, <2>2
    <3>2. QED BY <3>1, <2>1 DEF Base, All
  <2>5. Base(k) + o = ADDR_INCREMENT * (j + b)
    BY <1>1, <2>1, <2>3, <2>4
  <2>6. PICK m \in Nat : m = AddressSpace \div ADDR_INCREMENT
    BY <1>1
  <2>7. n + n + n <= m
    <3>1. (n + n + n) * ADDR_INCREMENT <= AddressSpace
      BY <1>1, <2>1, <2>2
    <3>2. AddressSpace < (m + 1) * ADDR_INCREMENT
      BY <1>1, <2>6
    <3>3. m < n + n + n => (m + 1) * ADDR_INCREMENT <= (n + n + n) * ADDR_INCREMENT
      <4>1. m < n + n + n => m * ADDR_INCREMENT + ADDR_INCREMENT <= (n + n + n) * ADDR_INCREMENT
        BY <1>1, <2>1, <2>6, Product
      <4>2. QED BY <4>1, <1>1, <2>6
    <3>4. QED BY <1>1, <2>1, <2>6, <3>1, <3>2, <3>3
  <2>8. j + b \in 0 .. m - 1
    BY <2>1, <2>3, <2>4, <2>6, <2>7
  <2>9. QED BY <2>5, <2>6, <2>8 DEF BurstAddress
<1>5. QED BY <1>2, <1>3, <1>4

(* A word below half the address space, doubled lane by lane.               *)
LEMMA Carry ==
  ASSUME NEW b \in Nat \ {0}, NEW s \in Nat
  PROVE  /\ s % b \in 0 .. b - 1 /\ s \div b \in Nat
         /\ s = b * (s \div b) + (s % b)
OBVIOUS

LEMMA Horner ==
  ASSUME NEW b \in Nat, NEW x \in Nat, NEW hi \in Nat, NEW c \in Nat, NEW d \in Nat,
         NEW r \in Nat, NEW v \in Nat, NEW p \in Nat,
         x + x + c = b * d + r, hi + hi + d = v + p
  PROVE  (x + b * hi) + (x + b * hi) + c = r + b * v + b * p
<1>1. PICK m \in Nat, n \in Nat, k \in Nat, l \in Nat :
        m = b * hi /\ n = b * d /\ k = b * v /\ l = b * p
  OBVIOUS
<1>2. b * (hi + hi + d) = m + m + n /\ b * (v + p) = k + l
  BY <1>1
<1>3. m + m + n = k + l
  BY <1>2
<1>4. QED BY <1>1, <1>3

LEMMA Grows ==
  ASSUME NEW b \in Nat, NEW x \in Nat, NEW y \in Nat, x <= y
  PROVE  b * x <= b * y /\ (y >= 1 => b <= b * y)
OBVIOUS

LEMMA Doubled ==
  ASSUME NEW w \in Slave!Word, Value(w) + Value(w) < AddressSpace
  PROVE  /\ Slave!Plus(w, w) \in Slave!Word
         /\ Value(Slave!Plus(w, w)) = Value(w) + Value(w)
<1> DEFINE b == ByteBase
           s0 == w[0] + w[0]
           c1 == s0 \div b
           s1 == w[1] + w[1] + c1
           c2 == s1 \div b
           s2 == w[2] + w[2] + c2
           c3 == s2 \div b
           s3 == w[3] + w[3] + c3
           c4 == s3 \div b
<1>1. b \in Nat \ {0} /\ w[0] \in Nat /\ w[1] \in Nat /\ w[2] \in Nat /\ w[3] \in Nat
  BY Sizes DEF Slave!Word, Slave!Lane, Slave!Byte
<1>2. s0 \in Nat /\ s0 % b \in 0 .. b - 1 /\ c1 \in Nat /\ s0 = b * c1 + (s0 % b)
  <2>1. s0 \in Nat
    BY <1>1
  <2>2. QED BY <1>1, <2>1, Carry
<1>3. s1 \in Nat /\ s1 % b \in 0 .. b - 1 /\ c2 \in Nat /\ s1 = b * c2 + (s1 % b)
  <2>1. s1 \in Nat
    BY <1>1, <1>2
  <2>2. QED BY <1>1, <2>1, Carry
<1>4. s2 \in Nat /\ s2 % b \in 0 .. b - 1 /\ c3 \in Nat /\ s2 = b * c3 + (s2 % b)
  <2>1. \A c \in Nat : w[2] + w[2] + c \in Nat
    BY <1>1
  <2>2. s2 \in Nat
    BY <1>3, <2>1
  <2>3. QED BY <1>1, <2>2, Carry
<1>5. s3 \in Nat /\ s3 % b \in 0 .. b - 1 /\ c4 \in Nat /\ s3 = b * c4 + (s3 % b)
  <2>1. \A c \in Nat : w[3] + w[3] + c \in Nat
    BY <1>1
  <2>2. s3 \in Nat
    BY <1>4, <2>1
  <2>3. QED BY <1>1, <2>2, Carry
<1>6. Slave!Plus(w, w) = [j \in Slave!Lane |-> (w[j] + w[j] + <<0, c1, c2, c3>>[j + 1]) % b]
  BY DEF Slave!Plus
<1>7. /\ Slave!Plus(w, w)[0] = s0 % b /\ Slave!Plus(w, w)[1] = s1 % b
      /\ Slave!Plus(w, w)[2] = s2 % b /\ Slave!Plus(w, w)[3] = s3 % b
  <2>1. s0 + 0 = s0
    BY <1>2
  <2>2. QED BY <1>6, <2>1 DEF Slave!Lane
<1>8. Slave!Plus(w, w) \in Slave!Word
  <2>1. \A j \in Slave!Lane : Slave!Plus(w, w)[j] \in Slave!Byte
    BY <1>2, <1>3, <1>4, <1>5, <1>7 DEF Slave!Lane, Slave!Byte
  <2>2. QED BY <1>6, <2>1 DEF Slave!Word
<1>9. Value(Slave!Plus(w, w)) = (s0 % b) + b * ((s1 % b) + b * ((s2 % b) + b * (s3 % b)))
  BY <1>7 DEF Value
<1> DEFINE r0 == s0 % b
           r1 == s1 % b
           r2 == s2 % b
           r3 == s3 % b
<1>10. PICK u \in Nat, v \in Nat, x \in Nat, y \in Nat :
         /\ u = w[2] + b * w[3] /\ v = w[1] + b * u
         /\ x = r2 + b * r3 /\ y = r1 + b * x
  <2> HIDE DEF b, r0, r1, r2, r3
  <2>1. r0 \in Nat /\ r1 \in Nat /\ r2 \in Nat /\ r3 \in Nat
    BY <1>1, <1>2, <1>3, <1>4, <1>5 DEF r0, r1, r2, r3
  <2>2. PICK u \in Nat, x \in Nat : u = w[2] + b * w[3] /\ x = r2 + b * r3
    BY <1>1, <2>1
  <2>3. PICK v \in Nat, y \in Nat : v = w[1] + b * u /\ y = r1 + b * x
    BY <1>1, <2>1, <2>2
  <2>4. QED BY <2>2, <2>3
<1>11. Value(w) = w[0] + b * v /\ Value(Slave!Plus(w, w)) = r0 + b * y
  BY <1>9, <1>10 DEF Value
<1>12. PICK p1 \in Nat, p2 \in Nat, p3 \in Nat, p4 \in Nat :
         p1 = b * c4 /\ p2 = b * p1 /\ p3 = b * p2 /\ p4 = b * p3
  <2> HIDE DEF b, c4
  <2>1. PICK p1 \in Nat : p1 = b * c4
    BY <1>1, <1>5
  <2>2. PICK p2 \in Nat : p2 = b * p1
    BY <1>1
  <2>3. PICK p3 \in Nat : p3 = b * p2
    BY <1>1
  <2>4. PICK p4 \in Nat : p4 = b * p3
    BY <1>1
  <2>5. QED BY <2>1, <2>2, <2>3, <2>4
<1>13. r0 \in Nat /\ r1 \in Nat /\ r2 \in Nat /\ r3 \in Nat
  BY <1>1, <1>2, <1>3, <1>4, <1>5
<1>14. /\ w[3] + w[3] + c3 = r3 + p1
       /\ w[2] + w[2] + c2 = b * c3 + r2
       /\ w[1] + w[1] + c1 = b * c2 + r1
       /\ w[0] + w[0] = b * c1 + r0
       /\ c1 \in Nat /\ c2 \in Nat /\ c3 \in Nat
  <2>1. w[3] + w[3] + c3 = b * c4 + r3
    BY <1>5
  <2>2. w[3] + w[3] + c3 = r3 + p1
    BY <1>12, <1>13, <2>1
  <2>3. QED BY <1>2, <1>3, <1>4, <2>2
<1>15. Value(w) + Value(w) = Value(Slave!Plus(w, w)) + p4
  <2>1. PICK w0 \in Nat, w1 \in Nat, w2 \in Nat, w3 \in Nat :
          w0 = w[0] /\ w1 = w[1] /\ w2 = w[2] /\ w3 = w[3]
    BY <1>1
  <2>2. PICK d1 \in Nat, d2 \in Nat, d3 \in Nat : d1 = c1 /\ d2 = c2 /\ d3 = c3
    BY <1>14
  <2>3. PICK q0 \in Nat, q1 \in Nat, q2 \in Nat, q3 \in Nat :
          q0 = r0 /\ q1 = r1 /\ q2 = r2 /\ q3 = r3
    BY <1>13
  <2>4. PICK n \in Nat : n = b
    BY <1>1
  <2> HIDE DEF b, s0, s1, s2, s3, c1, c2, c3, c4, r0, r1, r2, r3
  <2>5. /\ w3 + w3 + d3 = q3 + p1 /\ w2 + w2 + d2 = n * d3 + q2
        /\ w1 + w1 + d1 = n * d2 + q1 /\ w0 + w0 + 0 = n * d1 + q0
    BY <1>14, <2>1, <2>2, <2>3, <2>4
  <2>6. /\ u = w2 + n * w3 /\ v = w1 + n * u /\ x = q2 + n * q3 /\ y = q1 + n * x
        /\ p2 = n * p1 /\ p3 = n * p2 /\ p4 = n * p3
    BY <1>10, <1>12, <2>1, <2>3, <2>4
  <2>7. u + u + d2 = x + p2
    BY <2>5, <2>6, Horner
  <2>8. v + v + d1 = y + p3
    BY <2>5, <2>6, <2>7, Horner
  <2>9. (w0 + n * v) + (w0 + n * v) + 0 = q0 + n * y + p4
    BY <2>5, <2>6, <2>8, Horner
  <2>10. Value(w) = w0 + n * v /\ Value(Slave!Plus(w, w)) = q0 + n * y
    BY <1>11, <2>1, <2>3, <2>4
  <2>11. w0 + n * v \in Nat
    OBVIOUS
  <2>12. QED BY <2>9, <2>10, <2>11
<1>16. p4 = 0
  <2> HIDE DEF b, s0, s1, s2, s3, c1, c2, c3, c4, r0, r1, r2, r3
  <2>1. Value(w) \in Nat /\ Value(Slave!Plus(w, w)) \in Nat
    BY <1>8, ValueTyped
  <2>2. CASE c4 = 0
    BY <1>1, <1>12, <2>2
  <2>3. CASE c4 >= 1
    <3>1. PICK q2 \in Nat : q2 = b * b
      BY <1>1
    <3>2. PICK q3 \in Nat : q3 = b * q2
      BY <1>1
    <3>3. b <= p1
      BY <1>1, <1>5, <1>12, <2>3, Grows
    <3>4. q2 <= p2
      BY <1>1, <1>12, <3>1, <3>3, Grows
    <3>5. q3 <= p3
      BY <1>1, <1>12, <3>2, <3>4, Grows
    <3>6. b * q3 <= p4
      BY <1>1, <1>12, <3>5, Grows
    <3>7. AddressSpace = b * q3
      <4>1. AddressSpace = b * b * b * b
        BY DEF AddressSpace, b
      <4>2. QED BY <1>1, <3>1, <3>2, <4>1
    <3>8. AddressSpace \in Nat
      BY Sizes
    <3>9. QED BY <1>12, <1>15, <2>1, <3>6, <3>7, <3>8
  <2>4. QED BY <1>5, <2>2, <2>3
<1>17. Value(Slave!Plus(w, w)) \in Nat
  BY <1>8, ValueTyped
<1>18. QED BY <1>8, <1>15, <1>16, <1>17

(* Where the register file has the buffers is where main() reads them.      *)
LEMMA BufferStarts ==
  ASSUME NEW k \in All
  PROVE  /\ Slave!BufferStart(Slave!Zero, k) \in Slave!Word
         /\ Value(Slave!BufferStart(Slave!Zero, k)) = Base(k)
<1>1. FrameLength \in Slave!Word /\ BURST_LENGTH = FrameLength
  BY ApplicationAssumption
<1>2. ByteBase \in Nat /\ ByteBase >= 2
  BY Sizes
<1>3. Slave!Zero \in Slave!Word /\ Value(Slave!Zero) = 0
  BY <1>2 DEF Slave!Zero, Slave!Word, Slave!Lane, Slave!Byte, Value
<1>4. Slave!Plus(Slave!Zero, FrameLength) = FrameLength
  <2>1. \A j \in Slave!Lane : FrameLength[j] \in 0 .. ByteBase - 1
    BY <1>1 DEF Slave!Word, Slave!Byte
  <2>2. \A j \in Slave!Lane : (0 + FrameLength[j]) \div ByteBase = 0
                             /\ (0 + FrameLength[j] + 0) \div ByteBase = 0
                             /\ (0 + FrameLength[j] + 0) % ByteBase = FrameLength[j]
    <3>1. \A x \in 0 .. ByteBase - 1 : x % ByteBase = x /\ x \div ByteBase = 0
      BY <1>2, Small
    <3>2. ASSUME NEW j \in Slave!Lane
          PROVE  0 + FrameLength[j] = FrameLength[j] /\ 0 + FrameLength[j] + 0 = FrameLength[j]
      BY <2>1
    <3>3. QED BY <2>1, <3>1, <3>2
  <2>3. Slave!Zero[0] = 0 /\ Slave!Zero[1] = 0 /\ Slave!Zero[2] = 0 /\ Slave!Zero[3] = 0
    BY DEF Slave!Zero, Slave!Lane
  <2>4. Slave!Plus(Slave!Zero, FrameLength)
          = [j \in Slave!Lane |-> (Slave!Zero[j] + FrameLength[j] + <<0, 0, 0, 0>>[j + 1]) % ByteBase]
    BY <2>2, <2>3 DEF Slave!Plus, Slave!Lane
  <2>5. \A j \in Slave!Lane :
          (Slave!Zero[j] + FrameLength[j] + <<0, 0, 0, 0>>[j + 1]) % ByteBase = FrameLength[j]
    BY <2>2, <2>3 DEF Slave!Lane
  <2>6. FrameLength = [j \in Slave!Lane |-> FrameLength[j]]
    BY <1>1 DEF Slave!Word
  <2>7. QED BY <2>4, <2>5, <2>6
<1>5. /\ Slave!Plus(FrameLength, FrameLength) \in Slave!Word
      /\ Value(Slave!Plus(FrameLength, FrameLength)) = L + L
  <2>1. Value(FrameLength) + Value(FrameLength) < AddressSpace
    BY Sizes DEF L
  <2>2. QED BY <1>1, <2>1, Doubled DEF L
<1>6. Slave!BufferStart(Slave!Zero, k) = IF k = 0 THEN Slave!Zero ELSE IF k = 1 THEN FrameLength
                                         ELSE Slave!Plus(FrameLength, FrameLength)
  BY <1>1, <1>4 DEF Slave!BufferStart, All
<1>7. QED BY <1>1, <1>3, <1>5, <1>6 DEF Base, All, L

----------------------------------------------------------------------------
(* One clock of the hardware.                                              *)

LEMMA RingSteps ==
  ASSUME RegistersTyped, NEW s \in BOOLEAN, Slave!RingStep(s)
  PROVE  /\ UNCHANGED <<iRegStart, iRegStartAddress, iRegLength>>
         /\ prevStatus' \in BOOLEAN /\ (prevStatus' => s)
         /\ \/ /\ s /\ ~prevStatus /\ nextBuffer \notin iRegStatus
               /\ iRegStatus' = iRegStatus \cup {nextBuffer}
               /\ nextBuffer' = (nextBuffer + 1) % 3
               /\ iRegBufferAddress' = Slave!BufferStart(Slave!Zero, nextBuffer')
            \/ /\ UNCHANGED <<iRegStatus, nextBuffer, iRegBufferAddress>>
               /\ s => prevStatus \/ nextBuffer \in iRegStatus
<1>1. iRegStartAddress = Slave!Zero /\ prevStatus \in BOOLEAN
  BY DEF RegistersTyped
<1>2. CASE s /\ Slave!RecordFrame
  BY <1>1, <1>2 DEF Slave!RecordFrame, Slave!Advance
<1>3. CASE s /\ Slave!DropFrame
  BY <1>1, <1>3 DEF Slave!DropFrame
<1>4. CASE Slave!Rearm(s)
  BY <1>1, <1>4 DEF Slave!Rearm
<1>5. CASE Slave!Hold(s)
  <2>1. /\ s = prevStatus
        /\ UNCHANGED <<iRegStart, iRegStartAddress, iRegBufferAddress, iRegLength, iRegStatus,
                       prevStatus, nextBuffer>>
    BY <1>5 DEF Slave!Hold
  <2>2. QED BY <1>1, <2>1
<1>6. QED BY <1>2, <1>3, <1>4, <1>5 DEF Slave!RingStep, Slave!FrameEnd

(* Offset o of the current frame has been written. *)
Stored(o) == o < iRegCounterAddress \/ (o = iRegCounterAddress /\ iRegStateSM = "BURST")

(* The master puts the first word of a burst on the bus, and it is taken. *)
FirstWordTaken(wait) == AS_ALL_Start /\ iRegStateSM = "BEGINTRANSFER" /\ ~wait

LEMMA LengthFacts ==
  ASSUME MasterInv, AS_AM_Length = FrameLength
  PROVE  /\ Master!LastBurst(Value(AS_AM_Length)) <=> iRegCounterAddress + ADDR_INCREMENT = L
         /\ iRegCounterAddress + ADDR_INCREMENT # L =>
              /\ (iRegCounterAddress + ADDR_INCREMENT) % AddressSpace
                   = iRegCounterAddress + ADDR_INCREMENT
              /\ iRegCounterAddress + ADDR_INCREMENT \in Offsets
<1>1. iRegCounterAddress \in Nat /\ iRegCounterAddress + ADDR_INCREMENT <= L
      /\ (iRegCounterAddress + ADDR_INCREMENT < L =>
            iRegCounterAddress + ADDR_INCREMENT \in Offsets)
  BY BurstSteps DEF MasterInv
<1>2. ADDR_INCREMENT \in Nat /\ ADDR_INCREMENT >= 1 /\ L \in Nat
      /\ AddressSpace \in Nat \ {0} /\ L < AddressSpace
  BY Sizes
<1>3. (L - ADDR_INCREMENT) % AddressSpace = L - ADDR_INCREMENT
  <2>1. L - ADDR_INCREMENT \in Nat /\ L - ADDR_INCREMENT < AddressSpace
    BY <1>1, <1>2
  <2>2. QED BY <1>2, <2>1, Small
<1>4. (iRegCounterAddress + ADDR_INCREMENT) % AddressSpace
        = iRegCounterAddress + ADDR_INCREMENT
  <2>1. iRegCounterAddress + ADDR_INCREMENT \in Nat
        /\ iRegCounterAddress + ADDR_INCREMENT < AddressSpace
    BY <1>1, <1>2
  <2>2. QED BY <1>2, <2>1, Small
<1>5. Master!LastBurst(Value(AS_AM_Length)) <=> iRegCounterAddress = L - ADDR_INCREMENT
  BY <1>3 DEF Master!LastBurst, L
<1>6. QED BY <1>1, <1>2, <1>4, <1>5

LEMMA HardwareSteps ==
  ASSUME Inv, NEW used \in {0, BURSTCOUNT_LENGTH}, NEW wait \in BOOLEAN,
         NEW pending \in BOOLEAN, Hardware(used, wait, pending)
  PROVE  /\ MasterInv'
         /\ AS_ALL_Start' = (0 \in iRegStart /\ ~pending)
         /\ AS_AM_StartAddress' = iRegBufferAddress /\ AS_AM_Length' = iRegLength
         /\ Sig_Status(wait) =>
              /\ AS_ALL_Start /\ iRegStateSM = "BURST"
              /\ iRegCounterAddress + ADDR_INCREMENT = L
         /\ Sig_Status(wait) \/ ~(AS_ALL_Start /\ AS_ALL_Start') =>
              iRegStateSM' = "WAITDATA" /\ iRegCounterAddress' = 0
         /\ ~Sig_Status(wait) =>
              \A o \in Offsets : Stored(o)' =>
                Stored(o) \/ (o = iRegCounterAddress /\ FirstWordTaken(wait))
<1> USE DEF Inv
<1>1. /\ AS_ALL_Start' = (0 \in iRegStart /\ ~pending)
      /\ AS_AM_StartAddress' = iRegBufferAddress /\ AS_AM_Length' = iRegLength
  BY DEF Hardware, Slave!UpdateOutput
<1>2. AS_ALL_Start \in BOOLEAN /\ AS_ALL_Start' \in BOOLEAN
  BY <1>1 DEF RegistersTyped
<1>3. Master!MasterEdge(AS_ALL_Start, AS_ALL_Start', used, wait, Value(AS_AM_Length))
  BY DEF Hardware
<1>4. AS_ALL_Start => AS_AM_Length = FrameLength
  BY DEF ConfiguredInv
<1>5. iRegCounterAddress \in Nat
  BY BurstSteps DEF MasterInv
<1>6. Sig_Status(wait) =>
        /\ AS_ALL_Start /\ iRegStateSM = "BURST"
        /\ iRegCounterAddress + ADDR_INCREMENT = L
  <2>1. ASSUME Sig_Status(wait) PROVE iRegStateSM = "BURST" /\ Master!LastBurst(Value(AS_AM_Length))
    BY <2>1 DEF Sig_Status, Master!AM_AS_Status, Master!BurstEnd
  <2>2. iRegStateSM = "BURST" => AS_ALL_Start
    BY DEF MasterInv, Master!MasterInit, Master!Cleared
  <2>3. QED BY <1>4, <2>1, <2>2, LengthFacts
<1>7. CASE ~(AS_ALL_Start /\ AS_ALL_Start')
  <2>1. iRegStateSM' = "WAITDATA" /\ iRegCounterAddress' = 0 /\ iRegBurstCount' = 0
    BY <1>3, <1>7 DEF Master!MasterEdge, Master!Abort, Master!Cleared
  <2>2. MasterInv'
    <3>1. 0 \in Offsets
      BY BurstSteps
    <3>2. Offsets' = Offsets
      BY DEF Offsets, L, Value
    <3>3. QED BY <2>1, <3>1, <3>2 DEF MasterInv, Master!MasterInit, Master!Cleared
  <2>3. \A o \in Offsets : ~Stored(o)'
    <3>1. \A o \in Offsets : o \in Nat
      BY BurstSteps
    <3>2. QED BY <2>1, <3>1 DEF Stored
  <2>4. QED BY <1>1, <1>6, <2>1, <2>2, <2>3
<1>8. CASE AS_ALL_Start /\ AS_ALL_Start'
  <2>1. Master!ClockEdge(used, wait, Value(AS_AM_Length))
    BY <1>3, <1>8 DEF Master!MasterEdge
  <2>2. /\ Master!LastBurst(Value(AS_AM_Length)) <=> iRegCounterAddress + ADDR_INCREMENT = L
        /\ iRegCounterAddress + ADDR_INCREMENT # L =>
             /\ (iRegCounterAddress + ADDR_INCREMENT) % AddressSpace
                  = iRegCounterAddress + ADDR_INCREMENT
             /\ iRegCounterAddress + ADDR_INCREMENT \in Offsets
    BY <1>4, <1>8, LengthFacts
  <2>3. MasterInv' <=> /\ iRegStateSM' \in {"WAITDATA", "BEGINTRANSFER", "BURST"}
                       /\ iRegBurstCount' \in Nat /\ iRegCounterAddress' \in Offsets
    <3>1. Offsets' = Offsets
      BY DEF Offsets, L, Value
    <3>2. QED BY <1>8, <3>1 DEF MasterInv
  <2>4. CASE Master!StartBurst(used)
    <3>1. /\ iRegStateSM = "WAITDATA" /\ iRegStateSM' = "BEGINTRANSFER"
          /\ iRegCounterAddress' = iRegCounterAddress /\ iRegBurstCount' = iRegBurstCount
      BY <2>4 DEF Master!StartBurst
    <3>2. ~Sig_Status(wait)
      BY <1>6, <3>1
    <3>3. MasterInv'
      BY <2>3, <3>1 DEF MasterInv
    <3>4. QED BY <1>1, <1>8, <3>1, <3>2, <3>3 DEF Stored
  <2>5. CASE Master!FirstWord(wait)
    <3>1. /\ iRegStateSM = "BEGINTRANSFER" /\ ~wait /\ iRegStateSM' = "BURST"
          /\ iRegCounterAddress' = iRegCounterAddress /\ iRegBurstCount' = iRegBurstCount + 1
      BY <2>5 DEF Master!FirstWord
    <3>2. ~Sig_Status(wait)
      BY <1>6, <3>1
    <3>3. MasterInv'
      BY <2>3, <3>1 DEF MasterInv
    <3>4. QED BY <1>1, <1>8, <3>1, <3>2, <3>3 DEF Stored, FirstWordTaken
  <2>6. CASE Master!NextWord(wait)
    <3>1. /\ iRegStateSM = "BURST" /\ ~Master!BurstEnd(wait) /\ iRegStateSM' = iRegStateSM
          /\ iRegCounterAddress' = iRegCounterAddress /\ iRegBurstCount' = iRegBurstCount + 1
      BY <2>6 DEF Master!NextWord
    <3>2. ~Sig_Status(wait)
      BY <3>1 DEF Sig_Status, Master!AM_AS_Status
    <3>3. MasterInv'
      BY <2>3, <3>1 DEF MasterInv
    <3>4. QED BY <1>1, <1>8, <3>1, <3>2, <3>3 DEF Stored
  <2>7. CASE Master!LastWord(wait, Value(AS_AM_Length))
    <3>1. /\ Master!BurstEnd(wait) /\ iRegStateSM = "BURST" /\ iRegStateSM' = "WAITDATA"
          /\ iRegBurstCount' = 0
          /\ iRegCounterAddress' = IF iRegCounterAddress + ADDR_INCREMENT = L THEN 0
                                   ELSE iRegCounterAddress + ADDR_INCREMENT
      BY <2>2, <2>7 DEF Master!LastWord, Master!BurstEnd
    <3>2. Sig_Status(wait) <=> iRegCounterAddress + ADDR_INCREMENT = L
      BY <2>2, <3>1 DEF Sig_Status, Master!AM_AS_Status
    <3>3. MasterInv'
      <4>1. iRegCounterAddress' \in Offsets
        BY <2>2, <3>1, BurstSteps
      <4>2. QED BY <2>3, <3>1, <4>1
    <3>4. ASSUME ~Sig_Status(wait), NEW o \in Offsets, Stored(o)' PROVE Stored(o)
      <4>1. o < iRegCounterAddress + ADDR_INCREMENT
        BY <3>1, <3>2, <3>4 DEF Stored
      <4>2. o <= iRegCounterAddress
        BY <4>1, BurstSteps DEF MasterInv
      <4>3. o \in Nat
        BY BurstSteps
      <4>4. QED BY <1>5, <3>1, <4>2, <4>3 DEF Stored
    <3>5. QED BY <1>1, <1>6, <1>8, <3>1, <3>2, <3>3, <3>4
  <2>8. CASE Master!Stay(used, wait)
    <3>1. /\ iRegStateSM' = iRegStateSM
          /\ iRegCounterAddress' = iRegCounterAddress /\ iRegBurstCount' = iRegBurstCount
      BY <2>8 DEF Master!Stay, Master!masterVars
    <3>2. ~Sig_Status(wait)
      BY <2>8 DEF Master!Stay, Master!WriteAccess, Sig_Status, Master!AM_AS_Status,
                  Master!BurstEnd
    <3>3. MasterInv'
      BY <2>3, <3>1 DEF MasterInv
    <3>4. QED BY <1>1, <1>8, <3>1, <3>2, <3>3 DEF Stored
  <2>9. QED BY <2>1, <2>4, <2>5, <2>6, <2>7, <2>8 DEF Master!ClockEdge
<1>9. QED BY <1>7, <1>8

----------------------------------------------------------------------------
(* What main() does in a clock: it leaves the bus alone or reads, or it is  *)
(* one of the six writes.                                                   *)

Passive(s) ==
  /\ Slave!RingStep(s)
  /\ \/ pc' = pc /\ i' = i
     \/ pc = "fill" /\ pc' = "stop" /\ i' = 0
     \/ pc # "fill" /\ pc' = "fill" /\ i' = 0
     \/ pc = "poll" /\ i < 2 /\ iRegStatus = 0 .. i /\ pc' = pc /\ i' = i + 1
     \/ pc = "poll" /\ i = 2 /\ iRegStatus = 0 .. i /\ pc' = "halt" /\ i' = 0
     \/ pc = "read" /\ i < 2 /\ pc' = pc /\ i' = i + 1

LEMMA StatusRead == Slave!ReadData(9) = iRegStatus
BY DEF Slave!ReadData

LEMMA ProgramSteps ==
  ASSUME Inv, NEW used \in {0, BURSTCOUNT_LENGTH}, NEW wait \in BOOLEAN,
         NEW pending \in BOOLEAN, Edge(used, wait, pending)
  PROVE  /\ Hardware(used, wait, pending) /\ Sig_Status(wait) \in BOOLEAN
         /\ Passive(Sig_Status(wait)) \/ Stop \/ Address \/ Length \/ Status \/ Start \/ Halt
<1>1. Hardware(used, wait, pending) /\ Sig_Status(wait) \in BOOLEAN
  BY DEF Edge, Sig_Status, Master!AM_AS_Status
<1>2. i \in 0 .. 3 /\ (pc \in {"poll", "read"} => i \in 0 .. 2)
  BY DEF Inv, ProgramTyped
<1>3. CASE Fill(Sig_Status(wait))
  BY <1>1, <1>3 DEF Fill, NoAccess, Goto, Passive
<1>4. CASE Poll(Sig_Status(wait))
  BY <1>1, <1>2, <1>4, StatusRead DEF Poll, NoAccess, Goto, Repeat, Passive
<1>5. CASE Read(Sig_Status(wait))
  BY <1>1, <1>2, <1>5 DEF Read, NoAccess, Goto, Repeat, Passive
<1>6. CASE Compute(Sig_Status(wait))
  BY <1>1, <1>6 DEF Compute, NoAccess, Passive
<1>7. CASE Interrupted(wait)
  BY <1>1, <1>7 DEF Interrupted, Interrupt, NoAccess, Goto, Passive
<1>8. QED BY <1>1, <1>3, <1>4, <1>5, <1>6, <1>7 DEF Edge, Access

LEMMA Words ==
  /\ Slave!Zero \in Slave!Word /\ \A j \in 0 .. 3 : Slave!Zero[j] = 0
  /\ \A w \in Slave!Word : (\A j \in 0 .. 3 : w[j] = 0) => w = Slave!Zero
  /\ \A w \in Slave!Word : (\A j \in 0 .. 3 : w[j] = FrameLength[j]) => w = FrameLength
  /\ \A w \in Slave!Word, j \in 0 .. 3 : [w EXCEPT ![j] = 0] \in Slave!Word
  /\ \A w \in Slave!Word, j \in 0 .. 3 : [w EXCEPT ![j] = FrameLength[j]] \in Slave!Word
  /\ \A j \in 0 .. 3 : [Slave!Zero EXCEPT ![j] = 0] = Slave!Zero
  /\ \A j \in 0 .. 3 : [FrameLength EXCEPT ![j] = FrameLength[j]] = FrameLength
<1>1. FrameLength \in [0 .. 3 -> 0 .. ByteBase - 1] /\ 0 \in 0 .. ByteBase - 1
  BY Sizes, ApplicationAssumption DEF Slave!Word, Slave!Lane, Slave!Byte
<1>2. Slave!Word = [0 .. 3 -> 0 .. ByteBase - 1] /\ Slave!Zero = [j \in 0 .. 3 |-> 0]
  BY DEF Slave!Word, Slave!Lane, Slave!Byte, Slave!Zero
<1>3. Slave!Zero \in Slave!Word /\ \A j \in 0 .. 3 : Slave!Zero[j] = 0
  BY <1>1, <1>2
<1>4. \A w \in Slave!Word : (\A j \in 0 .. 3 : w[j] = 0) => w = Slave!Zero
  BY <1>2
<1>5. \A w \in Slave!Word : (\A j \in 0 .. 3 : w[j] = FrameLength[j]) => w = FrameLength
  BY <1>1, <1>2
<1>6. \A w \in Slave!Word, j \in 0 .. 3 : [w EXCEPT ![j] = 0] \in Slave!Word
  BY <1>1, <1>2
<1>7. \A w \in Slave!Word, j \in 0 .. 3 : [w EXCEPT ![j] = FrameLength[j]] \in Slave!Word
  BY <1>1, <1>2
<1>8. \A j \in 0 .. 3 : [Slave!Zero EXCEPT ![j] = 0] = Slave!Zero
  BY <1>2
<1>9. \A j \in 0 .. 3 : [FrameLength EXCEPT ![j] = FrameLength[j]] = FrameLength
  BY <1>1
<1>10. QED BY <1>3, <1>4, <1>5, <1>6, <1>7, <1>8, <1>9

(* The histories and the memory.                                            *)
LEMMA FrameNumbers ==
  ASSUME Inv, NEW used \in {0, BURSTCOUNT_LENGTH}, NEW wait \in BOOLEAN,
         NEW pending \in BOOLEAN, Edge(used, wait, pending)
  PROVE  /\ frame' \in 1 .. LastFrame /\ giveUps' \in 0 .. MaxGiveUps
         /\ memory' \in [BurstAddress -> 0 .. LastFrame]
<1>1. Hardware(used, wait, pending)
  BY ProgramSteps
<1>2. /\ frame \in 1 .. LastFrame /\ giveUps \in 0 .. MaxGiveUps
      /\ memory \in [BurstAddress -> 0 .. LastFrame]
      /\ MaxGiveUps \in Nat /\ LastFrame \in Nat /\ LastFrame > 3
  BY Sizes DEF Inv, ProgramTyped
<1>3. frame' \in 1 .. LastFrame
  <2>1. frame' = 1 \/ frame' = frame \/ (frame < LastFrame /\ frame' = frame + 1)
    BY <1>1 DEF Hardware, CountFrames
  <2>2. QED BY <1>2, <2>1
<1>4. giveUps' \in 0 .. MaxGiveUps
  <2>1. \/ giveUps' = 0 \/ giveUps' = giveUps
        \/ giveUps < MaxGiveUps /\ giveUps' = giveUps + 1
    BY <1>1 DEF Hardware, GiveUp
  <2>2. QED BY <1>2, <2>1
<1>5. memory' \in [BurstAddress -> 0 .. LastFrame]
  <2>1. \/ memory' = [a \in BurstAddress |-> 0] \/ memory' = memory
        \/ memory' = [memory EXCEPT ![Master!MemoryAddress(Value(AS_AM_StartAddress))] = frame]
    BY <1>1 DEF Hardware, Memory
  <2>2. 0 \in 0 .. LastFrame /\ frame \in 0 .. LastFrame
    BY <1>2
  <2>3. QED BY <1>2, <2>1, <2>2
<1>6. QED BY <1>3, <1>4, <1>5

LEMMA TypedStep ==
  ASSUME Inv, NEW used \in {0, BURSTCOUNT_LENGTH}, NEW wait \in BOOLEAN,
         NEW pending \in BOOLEAN, Edge(used, wait, pending)
  PROVE  ProgramTyped' /\ RegistersTyped'
<1> DEFINE s == Sig_Status(wait)
<1>1. /\ Hardware(used, wait, pending) /\ s \in BOOLEAN
      /\ Passive(s) \/ Stop \/ Address \/ Length \/ Status \/ Start \/ Halt
  BY ProgramSteps
<1>2. /\ frame' \in 1 .. LastFrame /\ giveUps' \in 0 .. MaxGiveUps
      /\ memory' \in [BurstAddress -> 0 .. LastFrame] /\ AS_ALL_Start' \in BOOLEAN
  BY <1>1, FrameNumbers, HardwareSteps
<1>3. ProgramTyped /\ RegistersTyped
  BY DEF Inv
<1>4. BurstAddress' = BurstAddress
  BY DEF BurstAddress, AddressSpace
<1> HIDE DEF s
<1>5. ProgramTyped'
  <2>1. /\ pc' \in {"fill", "stop", "address", "length", "status", "start", "poll", "halt",
                    "read"}
        /\ i' \in 0 .. 3
        /\ pc' \in {"fill", "stop", "status", "start", "halt"} => i' = 0
        /\ pc' \in {"poll", "read"} => i' \in 0 .. 2
    <3>1. /\ i \in 0 .. 3 /\ (pc \in {"fill", "stop", "status", "start", "halt"} => i = 0)
          /\ (pc \in {"poll", "read"} => i \in 0 .. 2)
          /\ pc \in {"fill", "stop", "address", "length", "status", "start", "poll", "halt",
                     "read"}
      BY <1>3 DEF ProgramTyped
    <3>2. CASE Passive(s)
      BY <3>1, <3>2 DEF Passive
    <3>3. CASE Stop \/ Status \/ Start \/ Halt
      BY <3>3 DEF Stop, Status, Start, Halt, Goto
    <3>4. CASE Address \/ Length
      BY <3>1, <3>4 DEF Address, Length, Repeat, Goto
    <3>5. QED BY <1>1, <3>2, <3>3, <3>4
  <2>2. QED BY <1>2, <1>4, <2>1 DEF ProgramTyped
<1>6. RegistersTyped'
  <2>1. /\ iRegStart \in {{}, {0}} /\ iRegStartAddress = Slave!Zero
        /\ iRegBufferAddress \in Slave!Word /\ iRegLength \in Slave!Word
        /\ iRegStatus \subseteq All /\ nextBuffer \in All /\ prevStatus \in BOOLEAN
        /\ i \in 0 .. 3
    BY <1>3 DEF RegistersTyped, ProgramTyped
  <2>2. CASE Passive(s)
    <3>1. Slave!RingStep(s)
      BY <2>2 DEF Passive
    <3>2. UNCHANGED <<iRegStart, iRegStartAddress, iRegLength>> /\ prevStatus' \in BOOLEAN
      BY <1>1, <1>3, <3>1, RingSteps
    <3>3. /\ iRegStatus' \subseteq All /\ nextBuffer' \in All
          /\ iRegBufferAddress' \in Slave!Word
      <4>1. (nextBuffer + 1) % 3 \in All
        BY <2>1 DEF All
      <4>2. \/ /\ iRegStatus' = iRegStatus \cup {nextBuffer}
               /\ nextBuffer' = (nextBuffer + 1) % 3
               /\ iRegBufferAddress' = Slave!BufferStart(Slave!Zero, nextBuffer')
            \/ UNCHANGED <<iRegStatus, nextBuffer, iRegBufferAddress>>
        BY <1>1, <1>3, <3>1, RingSteps
      <4>3. nextBuffer' \in All
        BY <2>1, <4>1, <4>2
      <4>4. Slave!BufferStart(Slave!Zero, nextBuffer') \in Slave!Word
        BY <4>3, BufferStarts
      <4>5. QED BY <2>1, <4>2, <4>3, <4>4
    <3>4. QED BY <1>2, <2>1, <3>2, <3>3 DEF RegistersTyped, Slave!Zero, Slave!Word
  <2>3. CASE Stop \/ Start \/ Halt
    <3>1. /\ iRegStart' = {} \/ iRegStart' = {0}
          /\ UNCHANGED <<iRegStartAddress, iRegBufferAddress, iRegLength, iRegStatus,
                         prevStatus, nextBuffer>>
      BY <2>3 DEF Stop, Start, Halt, Slave!WriteStart
    <3>2. QED BY <1>2, <2>1, <3>1 DEF RegistersTyped, Slave!Zero, Slave!Word
  <2>4. CASE Address
    <3>1. /\ iRegStartAddress' = [iRegStartAddress EXCEPT ![i] = 0]
          /\ iRegBufferAddress' = [iRegBufferAddress EXCEPT ![i] = 0]
          /\ UNCHANGED <<iRegStart, iRegLength, iRegStatus, prevStatus, nextBuffer>>
      BY <2>4 DEF Address, Slave!WriteStartAddress
    <3>2. iRegStartAddress' = Slave!Zero /\ iRegBufferAddress' \in Slave!Word
      BY <2>1, <3>1, Words
    <3>3. QED BY <1>2, <2>1, <3>1, <3>2 DEF RegistersTyped, Slave!Zero, Slave!Word
  <2>5. CASE Length
    <3>1. /\ iRegLength' = [iRegLength EXCEPT ![i] = FrameLength[i]]
          /\ UNCHANGED <<iRegStart, iRegStartAddress, iRegBufferAddress, iRegStatus,
                         prevStatus, nextBuffer>>
      BY <2>5 DEF Length, Slave!WriteLength
    <3>2. iRegLength' \in Slave!Word
      BY <2>1, <3>1, Words
    <3>3. QED BY <1>2, <2>1, <3>1, <3>2 DEF RegistersTyped, Slave!Zero, Slave!Word
  <2>6. CASE Status
    <3>1. /\ iRegStatus' = {}
          /\ UNCHANGED <<iRegStart, iRegStartAddress, iRegBufferAddress, iRegLength,
                         prevStatus, nextBuffer>>
      BY <2>6 DEF Status, Slave!WriteStatus
    <3>2. QED BY <1>2, <2>1, <3>1 DEF RegistersTyped, Slave!Zero, Slave!Word
  <2>7. QED BY <1>1, <2>2, <2>3, <2>4, <2>5, <2>6
<1>7. QED BY <1>5, <1>6

----------------------------------------------------------------------------
(* The configuration of the controller, which main() writes while it is     *)
(* stopped.                                                                 *)

LEMMA StoppedStep ==
  ASSUME Inv, NEW used \in {0, BURSTCOUNT_LENGTH}, NEW wait \in BOOLEAN,
         NEW pending \in BOOLEAN, Edge(used, wait, pending)
  PROVE  StoppedInv'
<1> DEFINE s == Sig_Status(wait)
<1>1. /\ Hardware(used, wait, pending) /\ s \in BOOLEAN
      /\ Passive(s) \/ Stop \/ Address \/ Length \/ Status \/ Start \/ Halt
  BY ProgramSteps
<1>2. iRegStart = {} => ~AS_ALL_Start'
  BY <1>1, HardwareSteps
<1>3. StoppedInv /\ RegistersTyped /\ i \in 0 .. 3
  BY DEF Inv, ProgramTyped
<1> HIDE DEF s
<1>4. CASE Passive(s)
  <2>1. iRegStart' = iRegStart
    BY <1>1, <1>3, <1>4, RingSteps DEF Passive
  <2>2. \/ pc' = pc /\ i' = i
        \/ pc' \in {"fill", "stop", "read"}
        \/ pc = "poll" /\ pc' \in {"poll", "halt"}
    BY <1>4 DEF Passive
  <2>3. QED BY <1>2, <1>3, <2>1, <2>2 DEF StoppedInv
<1>5. CASE Stop
  BY <1>5 DEF Stop, Goto, Slave!WriteStart, StoppedInv
<1>6. CASE Address
  <2>1. pc = "address" /\ iRegStart' = iRegStart /\ pc' \in {"address", "length"}
    BY <1>6 DEF Address, Repeat, Goto, Slave!WriteStartAddress
  <2>2. QED BY <1>2, <1>3, <2>1 DEF StoppedInv
<1>7. CASE Length
  <2>1. pc = "length" /\ iRegStart' = iRegStart /\ pc' \in {"length", "status"}
    BY <1>7 DEF Length, Repeat, Goto, Slave!WriteLength
  <2>2. QED BY <1>2, <1>3, <2>1 DEF StoppedInv
<1>8. CASE Status
  <2>1. pc = "status" /\ iRegStart' = iRegStart /\ pc' = "start"
    BY <1>8 DEF Status, Goto, Slave!WriteStatus
  <2>2. QED BY <1>2, <1>3, <2>1 DEF StoppedInv
<1>9. CASE Start
  BY <1>9 DEF Start, Goto, Slave!WriteStart, StoppedInv
<1>10. CASE Halt
  BY <1>10 DEF Halt, Goto, Slave!WriteStart, StoppedInv
<1>11. QED BY <1>1, <1>4, <1>5, <1>6, <1>7, <1>8, <1>9, <1>10

LEMMA QuietRing ==
  ASSUME Inv, NEW used \in {0, BURSTCOUNT_LENGTH}, NEW wait \in BOOLEAN,
         NEW pending \in BOOLEAN, Edge(used, wait, pending), ~AS_ALL_Start,
         Passive(Sig_Status(wait))
  PROVE  UNCHANGED <<iRegStatus, nextBuffer, iRegBufferAddress>>
<1>1. ~Sig_Status(wait) /\ Sig_Status(wait) \in BOOLEAN
  BY ProgramSteps, HardwareSteps
<1>2. Slave!RingStep(Sig_Status(wait)) /\ RegistersTyped
  BY DEF Passive, Inv
<1>3. QED BY <1>1, <1>2, RingSteps

LEMMA ConfiguredStep ==
  ASSUME Inv, NEW used \in {0, BURSTCOUNT_LENGTH}, NEW wait \in BOOLEAN,
         NEW pending \in BOOLEAN, Edge(used, wait, pending)
  PROVE  ConfiguredInv'
<1> DEFINE s == Sig_Status(wait)
<1>1. /\ Hardware(used, wait, pending) /\ s \in BOOLEAN
      /\ Passive(s) \/ Stop \/ Address \/ Length \/ Status \/ Start \/ Halt
  BY ProgramSteps
<1>2. (AS_ALL_Start' => iRegStart # {}) /\ AS_AM_Length' = iRegLength
  BY <1>1, HardwareSteps
<1>3. ConfiguredInv /\ StoppedInv /\ RegistersTyped /\ i \in 0 .. 3
  BY DEF Inv, ProgramTyped
<1>4. Passive(s) /\ ~AS_ALL_Start => UNCHANGED <<iRegStatus, iRegBufferAddress>>
  BY QuietRing
<1>5. iRegBufferAddress \in Slave!Word /\ iRegLength \in Slave!Word
  BY <1>3 DEF RegistersTyped
<1> HIDE DEF s
<1>6. CASE Passive(s)
  <2>1. iRegStart' = iRegStart /\ iRegLength' = iRegLength
    BY <1>1, <1>3, <1>6, RingSteps DEF Passive
  <2>2. \/ pc' = pc /\ i' = i
        \/ pc' \in {"fill", "stop"}
        \/ pc = "poll" /\ pc' \in {"poll", "halt"}
        \/ pc = "read" /\ pc' = "read"
    BY <1>6 DEF Passive
  <2>3. pc' \in {"length", "status", "start"} \/ (pc' = "address" /\ i' > 0) =>
          /\ pc' = pc /\ i' = i
          /\ iRegStatus' = iRegStatus /\ iRegBufferAddress' = iRegBufferAddress
    BY <1>3, <1>4, <1>6, <2>2 DEF StoppedInv
  <2>4. \A j \in 0 .. 3 : j < i => i > 0
    BY <1>3
  <2>5. pc' = "address" => \A j \in 0 .. 3 : j < i' => iRegBufferAddress'[j] = 0
    BY <1>3, <2>2, <2>3, <2>4 DEF ConfiguredInv
  <2>6. pc' \in {"length", "status", "start"} => iRegBufferAddress' = Slave!Zero
    BY <1>3, <2>3 DEF ConfiguredInv
  <2>7. pc' = "length" => \A j \in 0 .. 3 : j < i' => iRegLength'[j] = FrameLength[j]
    BY <1>3, <2>1, <2>3 DEF ConfiguredInv
  <2>8. pc' \in {"status", "start", "poll", "halt", "read"} \/ iRegStart' # {} \/ AS_ALL_Start' =>
          iRegLength' = FrameLength
    BY <1>2, <1>3, <2>1, <2>2 DEF ConfiguredInv
  <2>9. pc' \in {"start", "poll", "halt", "read"} \/ iRegStart' # {} \/ AS_ALL_Start' =>
          AS_AM_Length' = FrameLength
    BY <1>2, <1>3, <2>1, <2>2 DEF ConfiguredInv
  <2>10. pc' = "start" => iRegStatus' = {}
    BY <1>3, <2>3 DEF ConfiguredInv
  <2>11. QED BY <2>5, <2>6, <2>7, <2>8, <2>9, <2>10 DEF ConfiguredInv, Slave!Zero
<1>7. CASE Stop
  <2>1. pc' = "address" /\ i' = 0 /\ iRegStart' = {} /\ iRegLength' = iRegLength
    BY <1>7 DEF Stop, Goto, Slave!WriteStart
  <2>2. QED BY <1>2, <1>3, <2>1 DEF ConfiguredInv
<1>8. CASE Address
  <2>1. /\ pc = "address" /\ iRegBufferAddress' = [iRegBufferAddress EXCEPT ![i] = 0]
        /\ UNCHANGED <<iRegStart, iRegLength>>
        /\ \/ i = 3 /\ pc' = "length" /\ i' = 0
           \/ i # 3 /\ pc' = "address" /\ i' = i + 1
    BY <1>8 DEF Address, Repeat, Goto, Slave!WriteStartAddress
  <2>2. iRegStart' = {} /\ ~AS_ALL_Start'
    BY <1>2, <1>3, <2>1 DEF StoppedInv
  <2>3. \A j \in 0 .. 3 : j < i + 1 => iRegBufferAddress'[j] = 0
    <3>1. \A j \in 0 .. 3 : j < i => iRegBufferAddress[j] = 0
      BY <1>3, <2>1 DEF ConfiguredInv
    <3>2. ASSUME NEW j \in 0 .. 3, j < i + 1 PROVE iRegBufferAddress'[j] = 0
      <4>1. iRegBufferAddress'[j] = IF j = i THEN 0 ELSE iRegBufferAddress[j]
        BY <1>5, <2>1 DEF Slave!Word, Slave!Lane
      <4>2. j = i \/ j < i
        BY <1>3, <3>2
      <4>3. QED BY <3>1, <4>1, <4>2
    <3>3. QED BY <3>2
  <2>4. pc' = "length" => iRegBufferAddress' = Slave!Zero
    <3>1. iRegBufferAddress' \in Slave!Word
      BY <1>3, <1>5, <2>1, Words
    <3>2. i = 3 => \A j \in 0 .. 3 : iRegBufferAddress'[j] = 0
      BY <2>3
    <3>3. QED BY <2>1, <3>1, <3>2, Words
  <2>5. QED BY <2>1, <2>2, <2>3, <2>4 DEF ConfiguredInv, Slave!Zero
<1>9. CASE Length
  <2>1. /\ pc = "length" /\ iRegLength' = [iRegLength EXCEPT ![i] = FrameLength[i]]
        /\ UNCHANGED <<iRegStart, iRegBufferAddress>>
        /\ \/ i = 3 /\ pc' = "status" /\ i' = 0
           \/ i # 3 /\ pc' = "length" /\ i' = i + 1
    BY <1>9 DEF Length, Repeat, Goto, Slave!WriteLength
  <2>2. iRegStart' = {} /\ ~AS_ALL_Start'
    BY <1>2, <1>3, <2>1 DEF StoppedInv
  <2>3. \A j \in 0 .. 3 : j < i + 1 => iRegLength'[j] = FrameLength[j]
    <3>1. \A j \in 0 .. 3 : j < i => iRegLength[j] = FrameLength[j]
      BY <1>3, <2>1 DEF ConfiguredInv
    <3>2. ASSUME NEW j \in 0 .. 3, j < i + 1 PROVE iRegLength'[j] = FrameLength[j]
      <4>1. iRegLength'[j] = IF j = i THEN FrameLength[i] ELSE iRegLength[j]
        BY <1>5, <2>1 DEF Slave!Word, Slave!Lane
      <4>2. j = i \/ j < i
        BY <1>3, <3>2
      <4>3. QED BY <3>1, <4>1, <4>2
    <3>3. QED BY <3>2
  <2>4. pc' = "status" => iRegLength' = FrameLength
    <3>1. iRegLength' \in Slave!Word
      BY <1>3, <1>5, <2>1, Words
    <3>2. i = 3 => \A j \in 0 .. 3 : iRegLength'[j] = FrameLength[j]
      BY <2>3
    <3>3. QED BY <2>1, <3>1, <3>2, Words
  <2>5. iRegBufferAddress' = Slave!Zero
    BY <1>3, <2>1 DEF ConfiguredInv
  <2>6. QED BY <2>1, <2>2, <2>3, <2>4, <2>5 DEF ConfiguredInv, Slave!Zero
<1>10. CASE Status
  <2>1. /\ pc = "status" /\ pc' = "start" /\ iRegStatus' = {}
        /\ UNCHANGED <<iRegStart, iRegBufferAddress, iRegLength>>
    BY <1>10 DEF Status, Goto, Slave!WriteStatus
  <2>2. iRegBufferAddress = Slave!Zero /\ iRegLength = FrameLength
    BY <1>3, <2>1 DEF ConfiguredInv
  <2>3. QED BY <1>2, <2>1, <2>2 DEF ConfiguredInv, Slave!Zero
<1>11. CASE Start
  <2>1. pc = "start" /\ pc' = "poll" /\ iRegLength' = iRegLength
    BY <1>11 DEF Start, Goto, Slave!WriteStart
  <2>2. QED BY <1>2, <1>3, <2>1 DEF ConfiguredInv
<1>12. CASE Halt
  <2>1. pc = "halt" /\ pc' = "read" /\ iRegLength' = iRegLength
    BY <1>12 DEF Halt, Goto, Slave!WriteStart
  <2>2. QED BY <1>2, <1>3, <2>1 DEF ConfiguredInv
<1>13. QED BY <1>1, <1>6, <1>7, <1>8, <1>9, <1>10, <1>11, <1>12

----------------------------------------------------------------------------
(* The ring in a run of main().                                            *)

LEMMA RingOrder ==
  ASSUME RegistersTyped, NEW s \in BOOLEAN, Slave!RingStep(s)
  PROVE  (InOrder => InOrder') /\ (Skewed => Skewed')
<1>1. \/ /\ nextBuffer \notin iRegStatus
         /\ iRegStatus' = iRegStatus \cup {nextBuffer}
         /\ nextBuffer' = (nextBuffer + 1) % 3
      \/ UNCHANGED <<iRegStatus, nextBuffer>>
  BY RingSteps
<1>2. nextBuffer \in {0, 1, 2}
  BY DEF RegistersTyped, All
<1>3. CASE UNCHANGED <<iRegStatus, nextBuffer>>
  BY <1>3 DEF InOrder, Skewed
<1>4. CASE /\ nextBuffer \notin iRegStatus
           /\ iRegStatus' = iRegStatus \cup {nextBuffer}
           /\ nextBuffer' = (nextBuffer + 1) % 3
  <2>1. /\ nextBuffer = 0 => nextBuffer' = 1
        /\ nextBuffer = 1 => nextBuffer' = 2
        /\ nextBuffer = 2 => nextBuffer' = 0
    BY <1>4
  <2>2. ASSUME InOrder PROVE InOrder'
    BY <1>2, <1>4, <2>1, <2>2 DEF InOrder, All
  <2>3. ASSUME Skewed PROVE Skewed'
    BY <1>2, <1>4, <2>1, <2>3 DEF Skewed, All
  <2>4. QED BY <2>2, <2>3
<1>5. QED BY <1>1, <1>3, <1>4

LEMMA Orders ==
  /\ 0 .. 0 = {0} /\ 0 .. 1 = {0, 1} /\ 0 .. 2 = All
  /\ Skewed => ~InOrder /\ iRegStatus # {0}
BY DEF Skewed, InOrder, All

LEMMA RingStays ==
  ASSUME Inv, NEW used \in {0, BURSTCOUNT_LENGTH}, NEW wait \in BOOLEAN,
         NEW pending \in BOOLEAN, Edge(used, wait, pending)
  PROVE  RingInv'
<1> DEFINE s == Sig_Status(wait)
<1>1. /\ s \in BOOLEAN
      /\ Passive(s) \/ Stop \/ Address \/ Length \/ Status \/ Start \/ Halt
  BY ProgramSteps
<1>2. RingInv /\ RegistersTyped /\ ProgramTyped /\ ConfiguredInv
  BY DEF Inv
<1> HIDE DEF s
<1>3. CASE Passive(s)
  <2>1. Slave!RingStep(s)
    BY <1>3 DEF Passive
  <2>2. (InOrder => InOrder') /\ (Skewed => Skewed')
    BY <1>1, <1>2, <2>1, RingOrder
  <2>3. iRegStatus = All /\ nextBuffer = 0 => iRegStatus' = All /\ nextBuffer' = 0
    <3>1. nextBuffer \notin iRegStatus \/ UNCHANGED <<iRegStatus, nextBuffer>>
      BY <1>1, <1>2, <2>1, RingSteps
    <3>2. QED BY <3>1 DEF All
  <2>4. ASSUME pc' = "poll" PROVE InOrder' \/ (Skewed' /\ i' = 0)
    <3>1. pc = "poll" /\ (i' = i \/ iRegStatus = 0 .. i)
      BY <1>3, <2>4 DEF Passive
    <3>2. CASE InOrder
      BY <2>2, <3>2
    <3>3. CASE Skewed /\ i = 0
      BY <2>2, <3>1, <3>3, Orders
    <3>4. QED BY <1>2, <3>1, <3>2, <3>3 DEF RingInv
  <2>5. ASSUME pc' \in {"halt", "read"} PROVE iRegStatus' = All /\ nextBuffer' = 0
    <3>1. pc \in {"halt", "read"} \/ (pc = "poll" /\ i = 2 /\ iRegStatus = 0 .. 2)
      BY <1>3, <2>5 DEF Passive
    <3>2. CASE pc \in {"halt", "read"}
      BY <1>2, <2>3, <3>2 DEF RingInv
    <3>3. CASE pc = "poll" /\ i = 2 /\ iRegStatus = 0 .. 2
      <4>1. iRegStatus = All /\ InOrder
        BY <1>2, <3>3, Orders DEF RingInv
      <4>2. nextBuffer = 0
        BY <4>1 DEF InOrder, All
      <4>3. QED BY <2>3, <4>1, <4>2
    <3>4. QED BY <3>1, <3>2, <3>3
  <2>6. QED BY <2>4, <2>5 DEF RingInv
<1>4. CASE Start
  <2>1. pc = "start" /\ pc' = "poll" /\ i' = 0 /\ UNCHANGED <<iRegStatus, nextBuffer>>
    BY <1>4 DEF Start, Goto, Slave!WriteStart
  <2>2. iRegStatus' = {} /\ nextBuffer' = nextBuffer
    BY <1>2, <2>1 DEF ConfiguredInv
  <2>3. InOrder' \/ Skewed'
    BY <2>2 DEF InOrder, Skewed
  <2>4. QED BY <2>1, <2>3 DEF RingInv
<1>5. CASE Halt
  <2>1. pc = "halt" /\ pc' = "read" /\ UNCHANGED <<iRegStatus, nextBuffer>>
    BY <1>5 DEF Halt, Goto, Slave!WriteStart
  <2>2. QED BY <1>2, <2>1 DEF RingInv, All
<1>6. CASE Stop \/ Address \/ Length \/ Status
  <2>1. pc' \in {"address", "length", "status", "start"}
    BY <1>6 DEF Stop, Address, Length, Status, Repeat, Goto
  <2>2. QED BY <2>1 DEF RingInv
<1>7. QED BY <1>1, <1>3, <1>4, <1>5, <1>6

(* main() starts a run with the master at rest.                             *)
LEMMA StartsRun ==
  ASSUME Inv, NEW used \in {0, BURSTCOUNT_LENGTH}, NEW wait \in BOOLEAN,
         NEW pending \in BOOLEAN, Edge(used, wait, pending), ~Started, Started'
  PROVE  /\ iRegStatus' = {} /\ nextBuffer' = nextBuffer
         /\ iRegBufferAddress' = Slave!Zero /\ AS_AM_StartAddress' = Slave!Zero
         /\ iRegStateSM' = "WAITDATA" /\ iRegCounterAddress' = 0
         /\ frame' = 1 /\ giveUps' = 0
<1>1. /\ Hardware(used, wait, pending)
      /\ Passive(Sig_Status(wait)) \/ Stop \/ Address \/ Length \/ Status \/ Start \/ Halt
  BY ProgramSteps
<1>2. Start
  <2>1. pc' \in {"poll", "halt", "read"} /\ pc \notin {"poll", "halt", "read"}
    BY DEF Started
  <2>2. ~Passive(Sig_Status(wait))
    BY <2>1 DEF Passive
  <2>3. ~Stop /\ ~Address /\ ~Length /\ ~Status /\ ~Halt
    BY <2>1 DEF Stop, Address, Length, Status, Halt, Goto, Repeat
  <2>4. QED BY <1>1, <2>2, <2>3
<1>3. pc = "start" /\ UNCHANGED <<iRegStatus, nextBuffer, iRegBufferAddress>>
  BY <1>2 DEF Start, Slave!WriteStart
<1>4. iRegStart = {} /\ iRegStatus = {} /\ iRegBufferAddress = Slave!Zero
  BY <1>3 DEF Inv, StoppedInv, ConfiguredInv
<1>5. ~AS_ALL_Start' /\ AS_AM_StartAddress' = iRegBufferAddress
  BY <1>1, <1>4, HardwareSteps
<1>6. iRegStateSM' = "WAITDATA" /\ iRegCounterAddress' = 0
  BY <1>1, <1>5, HardwareSteps
<1>7. frame' = 1 /\ giveUps' = 0
  BY <1>1, <1>3 DEF Hardware, CountFrames, GiveUp, Started
<1>8. QED BY <1>3, <1>4, <1>5, <1>6, <1>7

(* A run goes on: the ring records the frame that ends, and drops it only   *)
(* when the three buffers are full.                                         *)
LEMMA RunSteps ==
  ASSUME Inv, NEW used \in {0, BURSTCOUNT_LENGTH}, NEW wait \in BOOLEAN,
         NEW pending \in BOOLEAN, Edge(used, wait, pending), Started, Run'
  PROVE  /\ Run
         /\ \/ /\ Sig_Status(wait) /\ iRegStatus # All
               /\ iRegStatus' = iRegStatus \cup {nextBuffer}
               /\ nextBuffer' = (nextBuffer + 1) % 3
               /\ iRegBufferAddress' = Slave!BufferStart(Slave!Zero, nextBuffer')
            \/ /\ UNCHANGED <<iRegStatus, nextBuffer, iRegBufferAddress>>
               /\ Sig_Status(wait) => iRegStatus = All
<1> DEFINE s == Sig_Status(wait)
<1>1. /\ Hardware(used, wait, pending) /\ s \in BOOLEAN
      /\ Passive(s) \/ Stop \/ Address \/ Length \/ Status \/ Start \/ Halt
  BY ProgramSteps
<1>2. RegistersTyped /\ RingInv /\ PipelineInv
  BY DEF Inv
<1>3. pc \in {"poll", "halt", "read"} /\ pc' \in {"poll", "halt", "read"} /\ InOrder'
  BY DEF Run, Started
<1>4. s => iRegStateSM = "BURST"
  BY <1>1, HardwareSteps
<1> HIDE DEF s
<1>5. iRegStatus = All /\ nextBuffer = 0 => InOrder
  BY DEF InOrder
<1>6. CASE Passive(s)
  <2>1. Slave!RingStep(s)
    BY <1>6 DEF Passive
  <2>2. InOrder
    <3>1. Skewed => Skewed'
      BY <1>1, <1>2, <2>1, RingOrder
    <3>2. ~(Skewed' /\ InOrder')
      BY DEF Skewed, InOrder, All
    <3>3. QED BY <1>2, <1>3, <1>5, <3>1, <3>2 DEF RingInv
  <2>3. nextBuffer \notin iRegStatus <=> iRegStatus # All
    BY <2>2 DEF InOrder, All
  <2>4. s => ~prevStatus \/ iRegStatus = All
    BY <1>2, <1>3, <1>4 DEF RingInv, PipelineInv
  <2>5. \/ /\ s /\ nextBuffer \notin iRegStatus
           /\ iRegStatus' = iRegStatus \cup {nextBuffer}
           /\ nextBuffer' = (nextBuffer + 1) % 3
           /\ iRegBufferAddress' = Slave!BufferStart(Slave!Zero, nextBuffer')
        \/ /\ UNCHANGED <<iRegStatus, nextBuffer, iRegBufferAddress>>
           /\ s => prevStatus \/ nextBuffer \in iRegStatus
    BY <1>1, <1>2, <2>1, RingSteps
  <2>6. Run
    BY <2>2 DEF Run
  <2>7. QED BY <2>3, <2>4, <2>5, <2>6 DEF s
<1>7. CASE Halt
  <2>1. pc = "halt" /\ UNCHANGED <<iRegStatus, nextBuffer, iRegBufferAddress>>
    BY <1>7 DEF Halt, Slave!WriteStart
  <2>2. iRegStatus = All /\ nextBuffer = 0
    BY <1>2, <2>1 DEF RingInv
  <2>3. QED BY <1>5, <2>1, <2>2 DEF Run
<1>8. ~Stop /\ ~Address /\ ~Length /\ ~Status /\ ~Start
  BY <1>3 DEF Stop, Address, Length, Status, Start
<1>9. QED BY <1>1, <1>6, <1>7, <1>8

(* Inside a run only the buffer that the ring points to is written.         *)
LEMMA MemorySteps ==
  ASSUME Inv, Run, NEW used \in {0, BURSTCOUNT_LENGTH}, NEW wait \in BOOLEAN,
         NEW pending \in BOOLEAN, Hardware(used, wait, pending)
  PROVE  \A k \in All, o \in Offsets :
           memory'[Base(k) + o] =
             IF FirstWordTaken(wait) /\ k = nextBuffer /\ o = iRegCounterAddress
             THEN frame ELSE memory[Base(k) + o]
<1>1. /\ RegistersTyped /\ MasterInv /\ PipelineInv
      /\ memory \in [BurstAddress -> 0 .. LastFrame] /\ Started
  BY DEF Inv, ProgramTyped, Run
<1>2. memory' = IF AS_ALL_Start /\ Master!ReadCheck(wait) /\ iRegStateSM = "BEGINTRANSFER"
                THEN [memory EXCEPT ![Master!MemoryAddress(Value(AS_AM_StartAddress))] = frame]
                ELSE memory
  BY <1>1 DEF Hardware, Memory
<1>3. CASE ~FirstWordTaken(wait)
  <2>1. memory' = memory
    BY <1>2, <1>3 DEF FirstWordTaken, Master!ReadCheck
  <2>2. QED BY <1>3, <2>1
<1>4. CASE FirstWordTaken(wait)
  <2>1. iRegStateSM = "BEGINTRANSFER" /\ AS_ALL_Start /\ Master!ReadCheck(wait)
    BY <1>4 DEF FirstWordTaken, Master!ReadCheck, Master!WriteAccess
  <2>2. AS_AM_StartAddress = Slave!BufferStart(Slave!Zero, nextBuffer) /\ nextBuffer \in All
    BY <1>1, <2>1 DEF PipelineInv, RegistersTyped
  <2>3. Value(AS_AM_StartAddress) = Base(nextBuffer)
    BY <2>2, BufferStarts
  <2>4. iRegCounterAddress \in Offsets
    BY <1>1 DEF MasterInv
  <2>5. (Base(nextBuffer) + iRegCounterAddress) % AddressSpace
          = Base(nextBuffer) + iRegCounterAddress
    <3>1. ADDR_INCREMENT \in Nat /\ ADDR_INCREMENT >= 1 /\ L \in Nat
          /\ AddressSpace \in Nat \ {0}
      BY Sizes
    <3>2. iRegCounterAddress \in Nat /\ iRegCounterAddress + ADDR_INCREMENT <= L
      BY <2>4, BurstSteps
    <3>3. Base(nextBuffer) \in Nat /\ Base(nextBuffer) + L <= AddressSpace
      BY <2>2, Places
    <3>4. /\ Base(nextBuffer) + iRegCounterAddress \in Nat
          /\ Base(nextBuffer) + iRegCounterAddress < AddressSpace
      BY <3>1, <3>2, <3>3
    <3>5. QED BY <3>1, <3>4, Small
  <2>6. memory' = [memory EXCEPT ![Base(nextBuffer) + iRegCounterAddress] = frame]
    BY <1>2, <2>1, <2>3, <2>5 DEF Master!MemoryAddress
  <2>7. ASSUME NEW k \in All, NEW o \in Offsets
        PROVE  memory'[Base(k) + o] = IF k = nextBuffer /\ o = iRegCounterAddress
                                      THEN frame ELSE memory[Base(k) + o]
    <3>1. Base(k) + o \in BurstAddress
      BY Places
    <3>2. Base(k) + o = Base(nextBuffer) + iRegCounterAddress
            => k = nextBuffer /\ o = iRegCounterAddress
      BY <2>2, <2>4, Places
    <3>3. memory'[Base(k) + o] =
            IF Base(k) + o = Base(nextBuffer) + iRegCounterAddress
            THEN frame ELSE memory[Base(k) + o]
      BY <1>1, <2>6, <3>1
    <3>4. QED BY <3>2, <3>3
  <2>8. QED BY <1>4, <2>7
<1>5. QED BY <1>3, <1>4

LEMMA PipelineStep ==
  ASSUME Inv, NEW used \in {0, BURSTCOUNT_LENGTH}, NEW wait \in BOOLEAN,
         NEW pending \in BOOLEAN, Edge(used, wait, pending)
  PROVE  PipelineInv'
<1>1. /\ Hardware(used, wait, pending) /\ Sig_Status(wait) \in BOOLEAN
      /\ \/ Passive(Sig_Status(wait)) \/ Stop \/ Address \/ Length \/ Status
         \/ Start \/ Halt
  BY ProgramSteps
<1>2. RegistersTyped /\ PipelineInv /\ StoppedInv
  BY DEF Inv
<1>3. ASSUME pc' = "poll", prevStatus' PROVE iRegStateSM' = "WAITDATA"
  <2>1. CASE Passive(Sig_Status(wait))
    <3>1. Slave!RingStep(Sig_Status(wait))
      BY <2>1 DEF Passive
    <3>2. Sig_Status(wait)
      BY <1>1, <1>2, <1>3, <3>1, RingSteps
    <3>3. QED BY <1>1, <3>2, HardwareSteps
  <2>2. CASE Start
    <3>1. pc = "start"
      BY <2>2 DEF Start
    <3>2. ~AS_ALL_Start
      BY <1>2, <3>1 DEF StoppedInv
    <3>3. QED BY <1>1, <3>2, HardwareSteps
  <2>3. ~Stop /\ ~Address /\ ~Length /\ ~Status /\ ~Halt
    BY <1>3 DEF Stop, Address, Length, Status, Halt, Goto, Repeat
  <2>4. QED BY <1>1, <2>1, <2>2, <2>3
<1>4. ASSUME Run'
      PROVE  /\ iRegBufferAddress' = Slave!BufferStart(Slave!Zero, nextBuffer')
             /\ \/ AS_AM_StartAddress' = iRegBufferAddress'
                \/ iRegStateSM' = "WAITDATA" /\ iRegCounterAddress' = 0
  <2>1. CASE Started
    <3>1. Run
      BY <1>4, <2>1, RunSteps
    <3>2. iRegBufferAddress = Slave!BufferStart(Slave!Zero, nextBuffer)
          /\ AS_AM_StartAddress' = iRegBufferAddress
      BY <1>1, <1>2, <3>1, HardwareSteps DEF PipelineInv
    <3>3. CASE UNCHANGED <<iRegStatus, nextBuffer, iRegBufferAddress>>
      BY <3>2, <3>3
    <3>4. CASE /\ Sig_Status(wait)
               /\ iRegBufferAddress' = Slave!BufferStart(Slave!Zero, nextBuffer')
      <4>1. iRegStateSM' = "WAITDATA" /\ iRegCounterAddress' = 0
        BY <1>1, <3>4, HardwareSteps
      <4>2. QED BY <3>4, <4>1
    <3>5. QED BY <1>4, <2>1, <3>3, <3>4, RunSteps
  <2>2. CASE ~Started
    <3>1. Started' /\ InOrder'
      BY <1>4 DEF Run
    <3>2. /\ iRegStatus' = {} /\ iRegBufferAddress' = Slave!Zero
          /\ iRegStateSM' = "WAITDATA" /\ iRegCounterAddress' = 0
      BY <2>2, <3>1, StartsRun
    <3>3. nextBuffer' = 0
      BY <3>1, <3>2 DEF InOrder, All
    <3>4. QED BY <3>2, <3>3 DEF Slave!BufferStart
  <2>3. QED BY <2>1, <2>2
<1>5. QED BY <1>3, <1>4 DEF PipelineInv, Slave!BufferStart, Slave!Zero, Slave!Plus

LEMMA Counted ==
  ASSUME NEW f \in Nat, NEW g \in Nat, NEW n \in Nat, NEW ff \in Nat, NEW gg \in Nat,
         f <= 1 + g + n, g <= gg, ff <= f + 1
  PROVE  ff <= 1 + gg + (n + 1)
OBVIOUS

(* A frame that is over before the status shows the three buffers full has  *)
(* been recorded or given up.                                               *)
LEMMA NumberStep ==
  ASSUME Inv, NEW used \in {0, BURSTCOUNT_LENGTH}, NEW wait \in BOOLEAN,
         NEW pending \in BOOLEAN, Edge(used, wait, pending)
  PROVE  NumberInv'
<1>1. /\ Hardware(used, wait, pending) /\ Sig_Status(wait) \in BOOLEAN
      /\ RegistersTyped /\ ProgramTyped /\ StoppedInv /\ RingInv /\ NumberInv
  BY ProgramSteps DEF Inv
<1>2. SUFFICES ASSUME Run', iRegStatus' # All
               PROVE  frame' <= 1 + giveUps' + nextBuffer'
  BY DEF NumberInv, All
<1>3. Started'
  BY <1>2 DEF Run
<1>4. CASE ~Started
  <2>1. frame' = 1 /\ giveUps' = 0 /\ nextBuffer' = nextBuffer
    BY <1>3, <1>4, StartsRun
  <2>2. nextBuffer \in {0, 1, 2}
    BY <1>1 DEF RegistersTyped, All
  <2>3. QED BY <2>1, <2>2
<1>5. CASE Started
  <2>1. /\ Run
        /\ \/ /\ Sig_Status(wait) /\ iRegStatus # All
              /\ iRegStatus' = iRegStatus \cup {nextBuffer}
              /\ nextBuffer' = (nextBuffer + 1) % 3
           \/ /\ UNCHANGED <<iRegStatus, nextBuffer>>
              /\ Sig_Status(wait) => iRegStatus = All
    BY <1>2, <1>5, RunSteps
  <2>2. iRegStatus # All /\ InOrder
    BY <1>2, <2>1 DEF Run
  <2>3. pc = "poll" /\ iRegStart = {0}
    BY <1>1, <1>5, <2>2 DEF Started, RingInv, StoppedInv
  <2>4. frame <= 1 + giveUps + nextBuffer
    BY <1>1, <2>1, <2>2 DEF NumberInv
  <2>5. giveUps \in Nat /\ frame \in Nat /\ nextBuffer \in {0, 1, 2}
    BY <1>1, Sizes DEF ProgramTyped, RegistersTyped, All
  <2>6. giveUps' = IF pending THEN giveUps + 1 ELSE giveUps
    BY <1>1, <2>3 DEF Hardware, GiveUp
  <2>7. AS_ALL_Start' = ~pending
    BY <1>1, <2>3, HardwareSteps
  <2>8. frame' = frame \/ (frame' = frame + 1 /\ (Sig_Status(wait) \/ pending))
    BY <1>1, <1>5, <2>7 DEF Hardware, CountFrames, FrameOver
  <2>9. CASE ~Sig_Status(wait)
    <3>1. nextBuffer' = nextBuffer
      BY <2>1, <2>9
    <3>2. frame' = frame \/ (frame' = frame + 1 /\ pending)
      BY <2>8, <2>9
    <3>3. CASE pending
      BY <2>4, <2>5, <2>6, <3>1, <3>2, <3>3
    <3>4. CASE ~pending
      BY <2>4, <2>5, <2>6, <3>1, <3>2, <3>4
    <3>5. QED BY <3>3, <3>4
  <2>10. CASE Sig_Status(wait)
    <3>1. iRegStatus' = iRegStatus \cup {nextBuffer} /\ nextBuffer' = (nextBuffer + 1) % 3
      BY <2>1, <2>2, <2>10
    <3>2. nextBuffer # 2
      BY <1>2, <2>2, <3>1 DEF InOrder, All
    <3>3. nextBuffer' = nextBuffer + 1
      BY <2>5, <3>1, <3>2
    <3>4. giveUps' \in Nat /\ giveUps <= giveUps' /\ frame' <= frame + 1
      <4>1. CASE pending
        BY <2>5, <2>6, <2>8, <4>1
      <4>2. CASE ~pending
        BY <2>5, <2>6, <2>8, <4>2
      <4>3. QED BY <4>1, <4>2
    <3>5. frame' \in Nat
      BY <2>5, <2>8
    <3>6. nextBuffer \in Nat
      BY <2>5
    <3>7. QED BY <2>4, <2>5, <3>3, <3>4, <3>5, <3>6, Counted
  <2>11. QED BY <1>1, <2>9, <2>10
<1>6. QED BY <1>4, <1>5

(* The frame that the ring records is in its buffer as a whole, and the     *)
(* next one has a greater number.                                           *)
LEMMA RecordedFrame ==
  ASSUME Inv, NEW used \in {0, BURSTCOUNT_LENGTH}, NEW wait \in BOOLEAN,
         NEW pending \in BOOLEAN, Hardware(used, wait, pending),
         Run, iRegStatus # All, Sig_Status(wait)
  PROVE  /\ \A o \in Offsets : memory'[Base(nextBuffer) + o] = frame
         /\ frame \in Nat /\ frame >= 1 /\ frame <= LastFrame - 1 /\ frame' = frame + 1
<1>1. /\ RegistersTyped /\ ProgramTyped /\ NumberInv /\ CurrentInv /\ Started
  BY DEF Inv, Run
<1>2. /\ iRegStateSM = "BURST" /\ iRegCounterAddress + ADDR_INCREMENT = L
  BY HardwareSteps
<1>3. iRegCounterAddress \in Nat
  BY BurstSteps DEF Inv, MasterInv
<1>4. ASSUME NEW o \in Offsets PROVE memory'[Base(nextBuffer) + o] = frame
  <2>1. o \in Nat /\ o <= iRegCounterAddress
    <3>1. o \in Nat /\ o + ADDR_INCREMENT <= L
      BY BurstSteps
    <3>2. QED BY <1>2, <1>3, <3>1, Sizes
  <2>2. o < iRegCounterAddress \/ (o = iRegCounterAddress /\ iRegStateSM = "BURST")
    BY <1>2, <1>3, <2>1
  <2>3. memory[Base(nextBuffer) + o] = frame
    BY <1>1, <2>2 DEF CurrentInv
  <2>4. ~FirstWordTaken(wait) /\ nextBuffer \in All
    BY <1>1, <1>2 DEF FirstWordTaken, RegistersTyped
  <2>5. QED BY <2>3, <2>4, MemorySteps
<1>5. frame \in Nat /\ frame >= 1 /\ frame <= LastFrame - 1
  <2>1. frame <= 1 + giveUps + nextBuffer
    BY <1>1 DEF NumberInv
  <2>2. giveUps \in Nat /\ giveUps <= MaxGiveUps /\ frame \in Nat /\ frame >= 1
    BY <1>1, Sizes DEF ProgramTyped
  <2>3. nextBuffer \in Nat /\ nextBuffer <= 2
    BY <1>1 DEF RegistersTyped, All
  <2>4. QED BY <2>1, <2>2, <2>3, Sizes
<1>6. frame' = frame + 1
  <2>1. frame < LastFrame
    BY <1>5, Sizes
  <2>2. QED BY <1>1, <2>1 DEF Hardware, CountFrames, FrameOver
<1>7. QED BY <1>4, <1>5, <1>6

LEMMA Widened ==
  ASSUME NEW m \in Nat, NEW n \in Nat, m <= n, NEW f \in 1 .. m - 1
  PROVE  f \in 1 .. n - 1
OBVIOUS

LEMMA KeptStep ==
  ASSUME Inv, NEW used \in {0, BURSTCOUNT_LENGTH}, NEW wait \in BOOLEAN,
         NEW pending \in BOOLEAN, Edge(used, wait, pending)
  PROVE  KeptInv'
<1>1. /\ Hardware(used, wait, pending) /\ Sig_Status(wait) \in BOOLEAN
      /\ RegistersTyped /\ ProgramTyped /\ KeptInv
  BY ProgramSteps DEF Inv
<1>2. SUFFICES ASSUME Run'
               PROVE  /\ iRegStatus' = {0, 1} =>
                           \E f \in 1 .. frame' - 1 :
                             \A o \in Offsets : memory'[Base(1) + o] = f
                      /\ iRegStatus' = All =>
                           \E f, g \in 1 .. LastFrame - 1 :
                             /\ f < g
                             /\ \A o \in Offsets : memory'[Base(1) + o] = f
                             /\ \A o \in Offsets : memory'[Base(2) + o] = g
  BY DEF KeptInv, Holds, All, Offsets, Base, L, Value
<1>3. frame \in Nat /\ frame >= 1 /\ LastFrame \in Nat
  BY <1>1, Sizes DEF ProgramTyped
<1>4. CASE ~Started
  <2>1. iRegStatus' = {}
    BY <1>2, <1>4, StartsRun DEF Run
  <2>2. QED BY <2>1 DEF All
<1>5. CASE Started
  <2>1. /\ Run
        /\ \/ /\ Sig_Status(wait) /\ iRegStatus # All
              /\ iRegStatus' = iRegStatus \cup {nextBuffer}
           \/ iRegStatus' = iRegStatus
    BY <1>2, <1>5, RunSteps
  <2>2. InOrder
    BY <2>1 DEF Run
  <2>3. ASSUME NEW k \in All, k # nextBuffer, NEW f, Holds(k, f)
        PROVE  \A o \in Offsets : memory'[Base(k) + o] = f
    <3>1. ASSUME NEW o \in Offsets PROVE memory'[Base(k) + o] = memory[Base(k) + o]
      BY <1>1, <2>1, <2>3, MemorySteps
    <3>2. QED BY <2>3, <3>1 DEF Holds
  <2>4. frame' \in Nat /\ frame <= frame'
    BY <1>1, <1>3, <1>5 DEF Hardware, CountFrames
  <2>5. CASE iRegStatus' = iRegStatus
    <3>1. ASSUME iRegStatus = {0, 1}
          PROVE  \E f \in 1 .. frame' - 1 : \A o \in Offsets : memory'[Base(1) + o] = f
      <4>1. nextBuffer = 2
        BY <2>2, <3>1 DEF InOrder, All
      <4>2. PICK f \in 1 .. frame - 1 : Holds(1, f)
        BY <1>1, <2>1, <3>1 DEF KeptInv
      <4>3. f \in 1 .. frame' - 1
        BY <1>3, <2>4, <4>2, Widened
      <4>4. \A o \in Offsets : memory'[Base(1) + o] = f
        BY <2>3, <4>1, <4>2 DEF All
      <4>5. QED BY <4>3, <4>4
    <3>2. ASSUME iRegStatus = All
          PROVE  \E f, g \in 1 .. LastFrame - 1 :
                   /\ f < g
                   /\ \A o \in Offsets : memory'[Base(1) + o] = f
                   /\ \A o \in Offsets : memory'[Base(2) + o] = g
      <4>1. nextBuffer = 0
        BY <2>2, <3>2 DEF InOrder, All
      <4>2. PICK f, g \in 1 .. LastFrame - 1 : f < g /\ Holds(1, f) /\ Holds(2, g)
        BY <1>1, <2>1, <3>2 DEF KeptInv
      <4>3. /\ \A o \in Offsets : memory'[Base(1) + o] = f
            /\ \A o \in Offsets : memory'[Base(2) + o] = g
        BY <2>3, <4>1, <4>2 DEF All
      <4>4. QED BY <4>2, <4>3
    <3>3. QED BY <2>5, <3>1, <3>2
  <2>6. CASE /\ Sig_Status(wait) /\ iRegStatus # All
             /\ iRegStatus' = iRegStatus \cup {nextBuffer}
    <3>1. /\ \A o \in Offsets : memory'[Base(nextBuffer) + o] = frame
          /\ frame <= LastFrame - 1 /\ frame' = frame + 1
      BY <1>1, <2>1, <2>6, RecordedFrame
    <3>2. ASSUME iRegStatus' = {0, 1}
          PROVE  \E f \in 1 .. frame' - 1 : \A o \in Offsets : memory'[Base(1) + o] = f
      <4>1. nextBuffer = 1
        BY <2>2, <2>6, <3>2 DEF InOrder, All
      <4>2. frame \in 1 .. frame' - 1
        BY <1>3, <3>1
      <4>3. QED BY <3>1, <4>1, <4>2
    <3>3. ASSUME iRegStatus' = All
          PROVE  \E f, g \in 1 .. LastFrame - 1 :
                   /\ f < g
                   /\ \A o \in Offsets : memory'[Base(1) + o] = f
                   /\ \A o \in Offsets : memory'[Base(2) + o] = g
      <4>1. iRegStatus = {0, 1} /\ nextBuffer = 2
        BY <2>2, <2>6, <3>3 DEF InOrder, All
      <4>2. PICK f \in 1 .. frame - 1 : Holds(1, f)
        BY <1>1, <2>1, <4>1 DEF KeptInv
      <4>3. \A o \in Offsets : memory'[Base(1) + o] = f
        BY <2>3, <4>1, <4>2 DEF All
      <4>4. f \in 1 .. LastFrame - 1 /\ frame \in 1 .. LastFrame - 1 /\ f < frame
        BY <1>3, <3>1, <4>2
      <4>5. \A o \in Offsets : memory'[Base(2) + o] = frame
        BY <3>1, <4>1
      <4>6. QED BY <4>3, <4>4, <4>5
    <3>4. QED BY <3>2, <3>3
  <2>7. QED BY <2>1, <2>5, <2>6
<1>6. QED BY <1>4, <1>5

LEMMA CurrentStep ==
  ASSUME Inv, NEW used \in {0, BURSTCOUNT_LENGTH}, NEW wait \in BOOLEAN,
         NEW pending \in BOOLEAN, Edge(used, wait, pending)
  PROVE  CurrentInv'
<1>1. /\ Hardware(used, wait, pending) /\ Sig_Status(wait) \in BOOLEAN
      /\ RegistersTyped /\ CurrentInv
  BY ProgramSteps DEF Inv
<1>2. SUFFICES ASSUME Run', iRegStatus' # All, NEW o \in Offsets, Stored(o)'
               PROVE  memory'[Base(nextBuffer') + o] = frame'
  BY DEF CurrentInv, Stored, All, Offsets, Base, L, Value
<1>3. Started'
  BY <1>2 DEF Run
<1>4. ~(iRegStateSM' = "WAITDATA" /\ iRegCounterAddress' = 0)
  <2>1. o \in Nat
    BY BurstSteps
  <2>2. QED BY <1>2, <2>1 DEF Stored
<1>5. Started
  BY <1>3, <1>4, StartsRun
<1>6. ~Sig_Status(wait) /\ AS_ALL_Start /\ AS_ALL_Start'
  BY <1>1, <1>4, HardwareSteps
<1>7. Run /\ iRegStatus' = iRegStatus /\ nextBuffer' = nextBuffer
  BY <1>2, <1>5, <1>6, RunSteps
<1>8. frame' = frame
  BY <1>1, <1>5, <1>6 DEF Hardware, CountFrames, FrameOver
<1>9. Stored(o) \/ (o = iRegCounterAddress /\ FirstWordTaken(wait))
  BY <1>1, <1>2, <1>6, HardwareSteps
<1>10. nextBuffer \in All
  BY <1>1 DEF RegistersTyped
<1>11. memory'[Base(nextBuffer) + o] =
         IF FirstWordTaken(wait) /\ o = iRegCounterAddress
         THEN frame ELSE memory[Base(nextBuffer) + o]
  BY <1>1, <1>7, <1>10, MemorySteps
<1>12. Stored(o) => memory[Base(nextBuffer) + o] = frame
  BY <1>1, <1>2, <1>7 DEF CurrentInv, Stored
<1>13. QED BY <1>7, <1>8, <1>9, <1>11, <1>12

----------------------------------------------------------------------------
(* The theorems.                                                           *)

LEMMA Initially == Init => Inv
<1> SUFFICES ASSUME Init PROVE Inv
  OBVIOUS
<1>1. /\ iRegStart = {} /\ iRegStartAddress = Slave!Zero /\ iRegBufferAddress = Slave!Zero
      /\ iRegLength = Slave!Zero /\ iRegStatus = {} /\ prevStatus = FALSE /\ nextBuffer = 0
      /\ AS_ALL_Start = FALSE
  BY DEF Init, Slave!Init
<1>2. iRegStateSM = "WAITDATA" /\ iRegCounterAddress = 0 /\ iRegBurstCount = 0
  BY DEF Init, Master!MasterInit, Master!Cleared
<1>3. /\ pc = "fill" /\ i = 0 /\ memory = [a \in BurstAddress |-> 0]
      /\ frame = 1 /\ giveUps = 0
  BY DEF Init
<1>4. ProgramTyped
  <2>1. 0 \in 0 .. LastFrame /\ frame \in 1 .. LastFrame /\ giveUps \in 0 .. MaxGiveUps
    BY <1>3, Sizes
  <2>2. memory \in [BurstAddress -> 0 .. LastFrame]
    BY <1>3, <2>1
  <2>3. QED BY <1>3, <2>1, <2>2 DEF ProgramTyped
<1>5. RegistersTyped
  BY <1>1, Words DEF RegistersTyped, All
<1>6. MasterInv
  BY <1>2, BurstSteps DEF MasterInv, Master!MasterInit, Master!Cleared
<1>7. StoppedInv /\ ConfiguredInv /\ RingInv /\ PipelineInv
  BY <1>1, <1>3 DEF StoppedInv, ConfiguredInv, RingInv, PipelineInv, Run, Started
<1>8. NumberInv /\ KeptInv /\ CurrentInv
  BY <1>3 DEF NumberInv, KeptInv, CurrentInv, Run, Started
<1>9. QED BY <1>4, <1>5, <1>6, <1>7, <1>8 DEF Inv

LEMMA Inductive == Inv /\ [Next]_vars => Inv'
<1>1. ASSUME Inv, Next PROVE Inv'
  <2>1. PICK used \in {0, BURSTCOUNT_LENGTH}, wait \in BOOLEAN, pending \in BOOLEAN :
          Edge(used, wait, pending)
    BY <1>1 DEF Next
  <2>2. ProgramTyped' /\ RegistersTyped'
    BY <1>1, <2>1, TypedStep
  <2>3. MasterInv'
    <3>1. Hardware(used, wait, pending)
      BY <1>1, <2>1, ProgramSteps
    <3>2. QED BY <1>1, <3>1, HardwareSteps
  <2>4. StoppedInv' /\ ConfiguredInv'
    BY <1>1, <2>1, StoppedStep, ConfiguredStep
  <2>5. RingInv' /\ PipelineInv'
    BY <1>1, <2>1, RingStays, PipelineStep
  <2>6. NumberInv' /\ KeptInv' /\ CurrentInv'
    BY <1>1, <2>1, NumberStep, KeptStep, CurrentStep
  <2>7. QED BY <2>2, <2>3, <2>4, <2>5, <2>6 DEF Inv
<1>2. ASSUME Inv, UNCHANGED vars PROVE Inv'
  <2> USE <1>2 DEF Inv, vars, masterVars
  <2>1. ProgramTyped'
    BY DEF ProgramTyped, BurstAddress, AddressSpace
  <2>2. RegistersTyped'
    BY DEF RegistersTyped, Slave!Zero, Slave!Word, Slave!Lane, Slave!Byte, All
  <2>3. MasterInv'
    BY DEF MasterInv, Master!MasterInit, Master!Cleared, Offsets, L, Value
  <2>4. StoppedInv' /\ ConfiguredInv'
    BY DEF StoppedInv, ConfiguredInv, Slave!Zero
  <2>5. RingInv'
    BY DEF RingInv, InOrder, Skewed, All
  <2>6. Run' = Run
    BY DEF Run, Started, InOrder, All
  <2>7. PipelineInv'
    BY <2>6 DEF PipelineInv, Slave!BufferStart, Slave!Zero, Slave!Plus
  <2>8. NumberInv' /\ CurrentInv'
    BY <2>6 DEF NumberInv, CurrentInv, Offsets, Base, L, Value, All
  <2>9. KeptInv'
    BY <2>6 DEF KeptInv, Holds, Offsets, Base, L, Value, All
  <2>10. QED BY <2>1, <2>2, <2>3, <2>4, <2>5, <2>7, <2>8, <2>9
<1>3. QED BY <1>1, <1>2

(* The invariant of main() and the hardware together: what main() has       *)
(* configured so far, a ring in order or at another buffer, and where the   *)
(* frames of the run are in the memory.                                     *)
THEOREM InvAlways == Spec => []Inv
<1>1. QED BY Initially, Inductive, PTL DEF Spec

(* main() comes to its stop and to the files (hello_world.c) only with the  *)
(* ring in order from the first buffer: a run that finds the ring elsewhere *)
(* never gets past the first of its three loops.                            *)
THEOREM ReadsAlignedCorrect == Spec => []ReadsAligned
<1>1. Inv => ReadsAligned
  <2> SUFFICES ASSUME Inv, pc \in {"halt", "read"} PROVE Aligned
    BY DEF ReadsAligned
  <2>1. iRegStatus = All /\ nextBuffer = 0
    BY DEF Inv, RingInv
  <2>2. iRegStatus = {k \in 0 .. 2 : k < 3} /\ nextBuffer = 3 % 3
    BY <2>1 DEF All
  <2>3. QED BY <2>2 DEF Aligned
<1>2. QED BY <1>1, InvAlways, PTL

(* A buffer in which all the bursts are from frame f reads as one.          *)
LEMMA ReadsWhole ==
  ASSUME NEW k \in All, NEW f \in 1 .. LastFrame - 1, Holds(k, f)
  PROVE  Whole(k) /\ Buffer(k)[0] = f
<1>1. ADDR_INCREMENT \in Nat /\ ADDR_INCREMENT >= 1 /\ L \in Nat /\ L >= 1
  BY Sizes
<1>2. PICK m \in Nat : m = L \div ADDR_INCREMENT
  BY <1>1
<1>3. m >= 1
  <2>1. L = m * ADDR_INCREMENT
    BY <1>1, <1>2, ApplicationAssumption DEF L
  <2>2. QED BY <1>1, <1>2, <2>1
<1>4. Buffer(k) = [n \in 0 .. m - 1 |-> memory[k * L + n * ADDR_INCREMENT]]
  BY <1>2 DEF Buffer, L
<1>5. ASSUME NEW n \in 0 .. m - 1 PROVE Buffer(k)[n] = f
  <2>1. n * ADDR_INCREMENT \in Offsets
    BY <1>2 DEF Offsets
  <2>2. k * L = Base(k)
    BY <1>1 DEF Base, All
  <2>3. QED BY <1>4, <2>1, <2>2 DEF Holds
<1>6. 0 \in 0 .. m - 1 /\ DOMAIN Buffer(k) = 0 .. m - 1
  BY <1>2, <1>3, <1>4
<1>7. QED BY <1>5, <1>6 DEF Whole

(* What main() reads from the second and the third buffer is one frame each, *)
(* the older one first: the interrupted runs, the frames given up and the   *)
(* frames that the camera goes on to deliver while main() stops it have     *)
(* left no burst there (hello_world.c, Avalon_slave.vhd, Avalon_master.vhd). *)
THEOREM LaterFramesKeptCorrect == Spec => []LaterFramesKept
<1>1. Inv => LaterFramesKept
  <2> SUFFICES ASSUME Inv, pc = "read"
               PROVE  Whole(1) /\ Whole(2) /\ Buffer(1)[0] < Buffer(2)[0]
    BY DEF LaterFramesKept
  <2>1. iRegStatus = All /\ nextBuffer = 0
    BY DEF Inv, RingInv
  <2>2. Run
    BY <2>1 DEF Run, Started, InOrder
  <2>3. PICK f, g \in 1 .. LastFrame - 1 : f < g /\ Holds(1, f) /\ Holds(2, g)
    BY <2>1, <2>2 DEF Inv, KeptInv
  <2>4. Whole(1) /\ Buffer(1)[0] = f
    BY <2>3, ReadsWhole DEF All
  <2>5. Whole(2) /\ Buffer(2)[0] = g
    BY <2>3, ReadsWhole DEF All
  <2>6. QED BY <2>3, <2>4, <2>5
<1>2. QED BY <1>1, InvAlways, PTL
=============================================================================
