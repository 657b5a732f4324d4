---------------------------- MODULE PixelBinning ----------------------------
(***************************************************************************)
(* The arithmetic of MainProcess (Camera_interface.vhd): one Bayer cell,   *)
(*     G1 R    of the even row                                             *)
(*     B  G2   of the odd row                                              *)
(* arrives sample by sample and becomes one RGB 5-6-5 pixel.               *)
(***************************************************************************)
EXTENDS Integers

CONSTANTS Msb,           \* weight of the top bit of a sample (2^11)
          RedBlueStep,   \* samples per red or blue level (2^7)
          GreenStep      \* samples per green level (2^6)

ASSUME BinningAssumption ==
  /\ Msb \in Nat /\ Msb >= 1
  /\ RedBlueStep \in Nat /\ RedBlueStep >= 1
  /\ GreenStep \in Nat /\ GreenStep >= 1

Sample == 0 .. 2 * Msb - 1

VARIABLES arrived,          \* samples of the cell that have arrived
          green1, red,      \* the cell in iRegMemory
          iRegBlue,
          rgb,              \* iRegRGB
          green2            \* history: the last sample, of which nothing is kept

vars == <<arrived, green1, red, iRegBlue, rgb, green2>>

Init ==
  /\ arrived = 0
  /\ green1 = 0 /\ red = 0 /\ iRegBlue = 0 /\ green2 = 0
  /\ rgb = [red |-> 0, green |-> 0, blue |-> 0]

(* Wrong: both branches add on 12 bits. *)
AverageOn12Bits(g1, g2) == ((g1 + g2) % (2 * Msb)) \div 2

(* The sum keeps its carry only when both samples have their top bit set;   *)
(* otherwise it is computed on the 12 bits of a sample.                     *)
Average(g1, g2) ==
  IF g1 >= Msb /\ g2 >= Msb
  THEN (g1 + g2) \div 2
  ELSE ((g1 + g2) % (2 * Msb)) \div 2

(* The even row: iRegRGB and iRegBlue are cleared at every sample. *)
EvenRow(sample) ==
  /\ arrived \in {0, 1}
  /\ arrived' = arrived + 1
  /\ green1' = IF arrived = 0 THEN sample ELSE green1
  /\ red' = IF arrived = 1 THEN sample ELSE red
  /\ iRegBlue' = 0
  /\ rgb' = [red |-> 0, green |-> 0, blue |-> 0]
  /\ UNCHANGED green2

Blue(sample) ==
  /\ arrived = 2
  /\ arrived' = 3
  /\ iRegBlue' = sample
  /\ UNCHANGED <<green1, red, rgb, green2>>

Green(sample) ==
  /\ arrived = 3
  /\ arrived' = 4
  /\ rgb' = [red   |-> red \div RedBlueStep,
             green |-> Average(green1, sample) \div GreenStep,
             blue  |-> iRegBlue \div RedBlueStep]
  /\ green2' = sample
  /\ UNCHANGED <<green1, red, iRegBlue>>

(* The pixel has been taken and the next cell begins. *)
NextCell ==
  /\ arrived = 4
  /\ arrived' = 0
  /\ UNCHANGED <<green1, red, iRegBlue, rgb, green2>>

Next ==
  \/ \E sample \in Sample : EvenRow(sample) \/ Blue(sample) \/ Green(sample)
  \/ NextCell

Spec == Init /\ [][Next]_vars

----------------------------------------------------------------------------
(* A level of a channel, which stands for samples from level * step on. *)
Level(step) == {n \in Nat : n * step < 2 * Msb}

(* Types of the cell registers; each channel fits into its 5 or 6 bits. *)
TypeOK ==
  /\ arrived \in 0 .. 4
  /\ {green1, red, iRegBlue, green2} \subseteq Sample
  /\ rgb.red \in Level(RedBlueStep)
  /\ rgb.green \in Level(GreenStep)
  /\ rgb.blue \in Level(RedBlueStep)

(* Exactly one sample has its top bit set and the sum needs a 13th bit. *)
CarryLost(g1, g2) == ~(g1 >= Msb /\ g2 >= Msb) /\ g1 + g2 >= 2 * Msb

(* The green of a pixel is the average of the two green samples of its      *)
(* cell, except when the carry is lost: then it is half the range too dark. *)
GreenUpToCarry ==
  arrived = 4 =>
    rgb.green = ((green1 + green2) \div 2
                 - (IF CarryLost(green1, green2) THEN Msb ELSE 0)) \div GreenStep

(* The comment of line 171: "compute the averaged green with the current    *)
(* cam data and the green G1 pixel stored in the memory".                   *)
GreenIsAverage ==
  arrived = 4 => rgb.green = ((green1 + green2) \div 2) \div GreenStep
=============================================================================
