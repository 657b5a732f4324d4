-------------------------- MODULE PixelBinningProofs --------------------------
(***************************************************************************)
(* What the green channel is for every sample width.                       *)
(***************************************************************************)
EXTENDS PixelBinning, TLAPS

(* A sum that needs the 13th bit loses exactly its weight, and no other sum *)
(* loses anything.                                                         *)
LEMMA AverageUpToCarry ==
  ASSUME NEW g1 \in Sample, NEW g2 \in Sample
  PROVE  /\ Average(g1, g2) \in Sample
         /\ Average(g1, g2) = (g1 + g2) \div 2
                              - (IF CarryLost(g1, g2) THEN Msb ELSE 0)
<1>1. /\ Msb \in Nat /\ Msb >= 1
      /\ g1 \in Nat /\ g2 \in Nat /\ g1 < 2 * Msb /\ g2 < 2 * Msb
  BY BinningAssumption DEF Sample
<1>2. CASE g1 >= Msb /\ g2 >= Msb
  <2>1. (g1 + g2) \div 2 \in 0 .. 2 * Msb - 1
    BY <1>1
  <2> QED
    BY <1>1, <1>2, <2>1 DEF Average, CarryLost, Sample
<1>3. CASE ~(g1 >= Msb /\ g2 >= Msb) /\ g1 + g2 < 2 * Msb
  <2>1. (g1 + g2) % (2 * Msb) = g1 + g2
    BY <1>1, <1>3
  <2>2. (g1 + g2) \div 2 \in 0 .. 2 * Msb - 1
    BY <1>1, <1>3
  <2> QED
    BY <1>1, <1>3, <2>1, <2>2 DEF Average, CarryLost, Sample
<1>4. CASE ~(g1 >= Msb /\ g2 >= Msb) /\ g1 + g2 >= 2 * Msb
  <2>1. (g1 + g2) % (2 * Msb) = g1 + g2 - 2 * Msb
    <3>1. g1 + g2 - 2 * Msb \in 0 .. 2 * Msb - 1
      BY <1>1, <1>4
    <3>2. \A m \in Nat \ {0} : \A x \in 0 .. m - 1 : (m + x) % m = x
      BY SMT
    <3>3. g1 + g2 = 2 * Msb + (g1 + g2 - 2 * Msb)
      BY <1>1
    <3> QED
      BY <1>1, <3>1, <3>2, <3>3
  <2>2. (g1 + g2 - 2 * Msb) \div 2 = (g1 + g2) \div 2 - Msb
    BY <1>1
  <2>3. (g1 + g2) \div 2 - Msb \in 0 .. 2 * Msb - 1
    BY <1>1, <1>4
  <2> QED
    BY <1>1, <1>4, <2>1, <2>2, <2>3 DEF Average, CarryLost, Sample
<1> QED
  BY <1>1, <1>2, <1>3, <1>4

(* Dropping the low bits of a sample leaves a level of the channel.         *)
LEMMA LevelOfSample ==
  ASSUME NEW x \in Sample, NEW step \in Nat, step >= 1
  PROVE  x \div step \in Level(step)
<1>1. x \in Nat /\ x < 2 * Msb
  BY BinningAssumption DEF Sample
<1>2. \A y \in Nat, d \in Nat : d >= 1 => y \div d \in Nat /\ (y \div d) * d <= y
  BY SMT
<1>3. x \div step \in Nat /\ (x \div step) * step <= x
  BY <1>1, <1>2
<1>4. (x \div step) * step \in Nat
  BY <1>3
<1>5. (x \div step) * step < 2 * Msb
  BY <1>1, <1>3, <1>4, BinningAssumption
<1> QED
  BY <1>3, <1>5 DEF Level

(* Samples and channels keep their types, for every width of the samples    *)
(* and of the channels.                                                     *)
THEOREM TypeCorrect == Spec => []TypeOK
<1>0. 0 \in Sample /\ 0 \in Level(RedBlueStep) /\ 0 \in Level(GreenStep)
  BY BinningAssumption DEF Sample, Level
<1>1. Init => TypeOK
  BY <1>0 DEF Init, TypeOK
<1>2. TypeOK /\ [Next]_vars => TypeOK'
  <2> SUFFICES ASSUME TypeOK, [Next]_vars PROVE TypeOK'
    OBVIOUS
  <2>2. ASSUME NEW sample \in Sample, EvenRow(sample) PROVE TypeOK'
    BY <1>0, <2>2 DEF EvenRow, TypeOK
  <2>3. ASSUME NEW sample \in Sample, Blue(sample) PROVE TypeOK'
    BY <2>3 DEF Blue, TypeOK
  <2>4. ASSUME NEW sample \in Sample, Green(sample) PROVE TypeOK'
    <3>1. green1 \in Sample /\ red \in Sample /\ iRegBlue \in Sample
      BY DEF TypeOK
    <3>2. /\ red \div RedBlueStep \in Level(RedBlueStep)
          /\ iRegBlue \div RedBlueStep \in Level(RedBlueStep)
      BY <3>1, LevelOfSample, BinningAssumption
    <3>3. Average(green1, sample) \div GreenStep \in Level(GreenStep)
      BY <3>1, AverageUpToCarry, LevelOfSample, BinningAssumption
    <3>4. /\ rgb'.red \in Level(RedBlueStep)
          /\ rgb'.green \in Level(GreenStep)
          /\ rgb'.blue \in Level(RedBlueStep)
      BY <2>4, <3>2, <3>3 DEF Green
    <3> QED
      BY <2>4, <3>1, <3>4 DEF Green, TypeOK
  <2>5. CASE NextCell
    BY <2>5 DEF NextCell, TypeOK
  <2>6. CASE UNCHANGED vars
    BY <2>6 DEF vars, TypeOK
  <2> QED
    BY <2>2, <2>3, <2>4, <2>5, <2>6 DEF Next
<1> QED
  BY <1>1, <1>2, PTL DEF Spec

(* For every width of the samples, the green channel is wrong by half the   *)
(* range exactly when the carry is lost, and right otherwise.               *)
THEOREM GreenUpToCarryCorrect == Spec => []GreenUpToCarry
<1>1. Init => GreenUpToCarry
  BY DEF Init, GreenUpToCarry
<1>2. TypeOK /\ GreenUpToCarry /\ [Next]_vars => GreenUpToCarry'
  <2> SUFFICES ASSUME TypeOK, GreenUpToCarry, [Next]_vars PROVE GreenUpToCarry'
    OBVIOUS
  <2>1. ASSUME NEW sample \in Sample, EvenRow(sample) PROVE GreenUpToCarry'
    BY <2>1 DEF EvenRow, GreenUpToCarry
  <2>2. ASSUME NEW sample \in Sample, Blue(sample) PROVE GreenUpToCarry'
    BY <2>2 DEF Blue, GreenUpToCarry
  <2>3. ASSUME NEW sample \in Sample, Green(sample) PROVE GreenUpToCarry'
    <3>1. green1 \in Sample
      BY DEF TypeOK
    <3>2. rgb'.green = Average(green1, sample) \div GreenStep
      BY <2>3 DEF Green
    <3>3. green1' = green1 /\ green2' = sample
      BY <2>3 DEF Green
    <3>4. Average(green1, sample)
            = (green1 + sample) \div 2 - (IF CarryLost(green1, sample) THEN Msb ELSE 0)
      BY <3>1, AverageUpToCarry
    <3> QED
      BY <3>2, <3>3, <3>4 DEF GreenUpToCarry, CarryLost
  <2>4. CASE NextCell
    BY <2>4 DEF NextCell, GreenUpToCarry
  <2>5. CASE UNCHANGED vars
    BY <2>5 DEF vars, GreenUpToCarry, CarryLost
  <2> QED
    BY <2>1, <2>2, <2>3, <2>4, <2>5 DEF Next
<1> QED
  BY <1>1, <1>2, TypeCorrect, PTL DEF Spec
=============================================================================
