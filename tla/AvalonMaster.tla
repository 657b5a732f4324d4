---------------------------- MODULE AvalonMaster ----------------------------
(***************************************************************************)
(* The Avalon master of the camera controller (Avalon_master.vhd): the     *)
(* state machine that moves bursts of words from the FIFO to the memory    *)
(* and tells the register file when a frame is complete.  A step is one    *)
(* rising edge of AM_Clk; the inputs of the edge are parameters.           *)
(***************************************************************************)
EXTENDS Integers

CONSTANTS BURSTCOUNT_LENGTH,   \* words in a burst (X"10")
          ADDR_INCREMENT,      \* bytes in a burst (X"40")
          AddressSpace         \* number of addresses (2^32)

ASSUME MasterAssumption ==
  /\ BURSTCOUNT_LENGTH \in Nat /\ BURSTCOUNT_LENGTH >= 2
  /\ ADDR_INCREMENT \in Nat /\ ADDR_INCREMENT >= 1
  /\ AddressSpace \in Nat /\ AddressSpace >= ADDR_INCREMENT

State == {"WAITDATA", "BEGINTRANSFER", "BURST"}
Address == 0 .. AddressSpace - 1

VARIABLES iRegStateSM, iRegCounterAddress, iRegBurstCount

masterVars == <<iRegStateSM, iRegCounterAddress, iRegBurstCount>>

Cleared(state, counter, count) ==
  state = "WAITDATA" /\ counter = 0 /\ count = 0

MasterInit == Cleared(iRegStateSM, iRegCounterAddress, iRegBurstCount)

----------------------------------------------------------------------------
(* The combinational outputs.                                              *)

AlmostEmpty(used) == used < BURSTCOUNT_LENGTH
WriteAccess == iRegStateSM \in {"BEGINTRANSFER", "BURST"}
ReadCheck(wait) == WriteAccess /\ ~wait

MemoryAddress(start) ==
  IF iRegStateSM = "BEGINTRANSFER"
  THEN (start + iRegCounterAddress) % AddressSpace
  ELSE 0

(* The last word of a burst is accepted. *)
BurstEnd(wait) ==
  iRegStateSM = "BURST" /\ ~wait /\ iRegBurstCount = BURSTCOUNT_LENGTH - 1

(* Wrong: compares with the length instead of the address of the last burst. *)
LastBurstLate(length) == iRegCounterAddress = length

(* The burst is the one at the end of the frame. *)
LastBurst(length) ==
  iRegCounterAddress = (length - ADDR_INCREMENT) % AddressSpace

AM_AS_Status(wait, length) == BurstEnd(wait) /\ LastBurst(length)

----------------------------------------------------------------------------
(* The clock edge, by state of the machine.                                *)

StartBurst(used) ==
  /\ iRegStateSM = "WAITDATA"
  /\ ~AlmostEmpty(used)
  /\ iRegStateSM' = "BEGINTRANSFER"
  /\ UNCHANGED <<iRegCounterAddress, iRegBurstCount>>

(* Wrong: line 120 forgotten, the first word of the burst is not counted. *)
FirstWordUncounted(wait) ==
  /\ iRegStateSM = "BEGINTRANSFER" /\ ~wait
  /\ iRegStateSM' = "BURST"
  /\ UNCHANGED <<iRegCounterAddress, iRegBurstCount>>

FirstWord(wait) ==
  /\ iRegStateSM = "BEGINTRANSFER" /\ ~wait
  /\ iRegStateSM' = "BURST"
  /\ iRegBurstCount' = iRegBurstCount + 1
  /\ UNCHANGED iRegCounterAddress

NextWord(wait) ==
  /\ iRegStateSM = "BURST" /\ ~wait
  /\ ~BurstEnd(wait)
  /\ iRegBurstCount' = iRegBurstCount + 1
  /\ UNCHANGED <<iRegStateSM, iRegCounterAddress>>

(* Wrong: line 137 forgotten, the address never moves. *)
LastWordNoIncrement(wait, length) ==
  /\ BurstEnd(wait)
  /\ iRegStateSM' = "WAITDATA"
  /\ iRegBurstCount' = 0
  /\ iRegCounterAddress' = IF LastBurst(length) THEN 0 ELSE iRegCounterAddress

(* Wrong: the machine does not pass through WAITDATA.                       *)
LastWordDirect(wait, length) ==
  /\ BurstEnd(wait)
  /\ iRegStateSM' = "BEGINTRANSFER"
  /\ iRegBurstCount' = 0
  /\ iRegCounterAddress' = IF LastBurst(length) THEN 0
                           ELSE (iRegCounterAddress + ADDR_INCREMENT) % AddressSpace

LastWord(wait, length) ==
  /\ BurstEnd(wait)
  /\ iRegStateSM' = "WAITDATA"
  /\ iRegBurstCount' = 0
  /\ iRegCounterAddress' =
       IF LastBurst(length)
       THEN 0
       ELSE (iRegCounterAddress + ADDR_INCREMENT) % AddressSpace

Stay(used, wait) ==
  /\ \/ iRegStateSM = "WAITDATA" /\ AlmostEmpty(used)
     \/ WriteAccess /\ wait
  /\ UNCHANGED masterVars

ClockEdge(used, wait, length) ==
  \/ StartBurst(used)
  \/ FirstWord(wait)
  \/ NextWord(wait)
  \/ LastWord(wait, length)
  \/ Stay(used, wait)

(* Wrong: lines 75 and 77 without line 76, the address survives a stop.     *)
AbortKeepsAddress ==
  iRegStateSM' = "WAITDATA" /\ iRegBurstCount' = 0 /\ UNCHANGED iRegCounterAddress

(* The registers are cleared as long as AM_AS_Start is 0, even between two  *)
(* edges: a burst in progress is cut.                                       *)
Abort ==
  Cleared(iRegStateSM', iRegCounterAddress', iRegBurstCount')

(* One edge of AM_Clk: start is AM_AS_Start before the edge, and startNext *)
(* the value it takes at the edge.                                          *)
MasterEdge(start, startNext, used, wait, length) ==
  IF start /\ startNext THEN ClockEdge(used, wait, length) ELSE Abort
=============================================================================
