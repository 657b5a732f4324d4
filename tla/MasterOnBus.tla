----------------------------- MODULE MasterOnBus -----------------------------
(***************************************************************************)
(* The Avalon master between the signals it reads and the bus it writes:   *)
(* the register file raises and drops Start at any time and changes Length *)
(* while Start is 0, words arrive in the FIFO one at a time, and the bus    *)
(* holds the master off with WaitRequest.  The bus and the FIFO are outside *)
(* Avalon_master.vhd; they are modelled from what it reads and drives.      *)
(***************************************************************************)
EXTENDS AvalonMaster

CONSTANTS Lengths,      \* values of the length register
          FifoWords     \* words that the FIFO holds

ASSUME BusAssumption ==
  /\ Lengths \subseteq Address
  /\ FifoWords \in Nat /\ FifoWords >= BURSTCOUNT_LENGTH

VARIABLES AM_AS_Start, AM_AS_Length, AM_FIFO_UsedWords, AM_AB_WaitRequest,
          owed,      \* words of the burst in progress the bus still expects
          cut,       \* history: Start fell while a burst was in progress
          bursts,    \* history: bursts completed since the last frame end
          frameDone  \* history: the last edge completed a frame

inputs == <<AM_AS_Start, AM_AS_Length, AM_FIFO_UsedWords, AM_AB_WaitRequest>>
history == <<owed, cut, bursts, frameDone>>
vars == <<masterVars, inputs, history>>

BusInit ==
  /\ MasterInit
  /\ AM_AS_Start = FALSE
  /\ AM_AS_Length \in Lengths
  /\ AM_FIFO_UsedWords = 0
  /\ AM_AB_WaitRequest = FALSE
  /\ owed = 0
  /\ cut = FALSE
  /\ bursts = 0
  /\ frameDone = FALSE

Running == AM_AS_Start /\ AM_AS_Start'

(* The bus counts the words it accepts; a burst begins when none is owed.   *)
BusAccept ==
  /\ owed' = IF ~ReadCheck(AM_AB_WaitRequest) THEN owed
             ELSE IF owed = 0 THEN BURSTCOUNT_LENGTH - 1
             ELSE owed - 1
  /\ cut' = (cut \/ (~AM_AS_Start' /\ owed' # 0))

(* A word leaves the FIFO when it is read and one may arrive; the FIFO is   *)
(* cleared while Start is 0.                                                *)
Fifo(arrival) ==
  LET left == AM_FIFO_UsedWords
              - (IF ReadCheck(AM_AB_WaitRequest) THEN 1 ELSE 0)
  IN  IF Running
      THEN /\ left + arrival <= FifoWords
           /\ AM_FIFO_UsedWords' = left + arrival
      ELSE AM_FIFO_UsedWords' = 0

(* The count saturates at AddressSpace, beyond any frame of the memory.     *)
CountBursts ==
  /\ frameDone' =
       (AM_AS_Start /\ AM_AS_Status(AM_AB_WaitRequest, AM_AS_Length))
  /\ bursts' = IF ~Running \/ frameDone' THEN 0
               ELSE IF BurstEnd(AM_AB_WaitRequest) /\ bursts < AddressSpace
               THEN bursts + 1
               ELSE bursts

Edge(start, arrival, wait) ==
  /\ AM_AS_Start' = start
  /\ MasterEdge(AM_AS_Start, start, AM_FIFO_UsedWords, AM_AB_WaitRequest,
                AM_AS_Length)
  /\ IF AM_AS_Start THEN AM_AS_Length' = AM_AS_Length
                    ELSE AM_AS_Length' \in Lengths
  /\ Fifo(arrival)
  /\ BusAccept
  /\ CountBursts
  /\ AM_AB_WaitRequest' = wait

BusNext ==
  \E start, wait \in BOOLEAN, arrival \in {0, 1} : Edge(start, arrival, wait)

BusSpec == BusInit /\ [][BusNext]_vars

(* The clock runs, and neither the camera nor the bus stops for ever: a     *)
(* word arrives again and again, and the bus accepts again and again.       *)
Fairness ==
  /\ WF_vars(BusNext)
  /\ SF_vars(\E start, wait \in BOOLEAN : Edge(start, 1, wait))
  /\ SF_vars(\E start \in BOOLEAN, arrival \in {0, 1} : Edge(start, arrival, FALSE))

FairSpec == BusSpec /\ Fairness

----------------------------------------------------------------------------
(* Types of the registers of Avalon_master and of the bus around it. *)
BusTypeOK ==
  /\ iRegStateSM \in State
  /\ iRegCounterAddress \in Address
  /\ iRegBurstCount \in 0 .. BURSTCOUNT_LENGTH - 1
  /\ AM_AS_Start \in BOOLEAN
  /\ AM_AS_Length \in Lengths
  /\ AM_FIFO_UsedWords \in Nat
  /\ AM_AB_WaitRequest \in BOOLEAN
  /\ owed \in 0 .. BURSTCOUNT_LENGTH - 1
  /\ cut \in BOOLEAN
  /\ bursts \in Nat
  /\ frameDone \in BOOLEAN

(* The words that the current burst still has to read. *)
Remaining == IF WriteAccess THEN BURSTCOUNT_LENGTH - iRegBurstCount ELSE 0

(* Avalon_master never asks the FIFO for a word it does not hold, although  *)
(* it looks at UsedWords only once, before the burst: every word of a burst *)
(* that has begun is in the FIFO, whatever the bus stalls and Start does.    *)
NoUnderflow == AM_FIFO_UsedWords >= Remaining

(* Until Start cuts a burst, the bus and the master agree word for word on  *)
(* where the burst is: the bus owes nothing when the master drives a new    *)
(* address, and both reach the last word together.                          *)
BusInStep ==
  ~cut => owed = IF iRegStateSM = "BURST"
                 THEN BURSTCOUNT_LENGTH - iRegBurstCount ELSE 0

(* A length of a whole number of bursts, at least one. *)
WholeBursts(n) == n >= 1 /\ AM_AS_Length = n * ADDR_INCREMENT

(* For a length of n bursts the frame occupies exactly its n * 64 bytes: no *)
(* burst starts at or beyond the length, the counter counts the completed   *)
(* bursts, and there is always one still to come.                           *)
CounterInFrame ==
  \A n \in 1 .. AddressSpace :
    WholeBursts(n) => /\ iRegCounterAddress = bursts * ADDR_INCREMENT
                      /\ bursts < n

(* The end of a frame is reported after the n-th burst of the frame and not *)
(* before, and then the next frame starts at the first address.             *)
DoneAfterWholeFrame ==
  [][frameDone' =>
       \A n \in 1 .. AddressSpace :
         WholeBursts(n) => bursts + 1 = n /\ iRegCounterAddress' = 0]_vars

(* If Start stays 1 and the length is a whole number of bursts, frames keep *)
(* being completed.                                                         *)
FramesComplete ==
  (<>[]AM_AS_Start /\ [](\E n \in 1 .. AddressSpace : WholeBursts(n)))
    => []<>frameDone
=============================================================================
