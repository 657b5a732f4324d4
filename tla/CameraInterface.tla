--------------------------- MODULE CameraInterface ---------------------------
(***************************************************************************)
(* The camera interface (Camera_interface.vhd): it follows the lines of    *)
(* the sensor, bins each 2x2 Bayer cell into one RGB pixel and writes the  *)
(* pixel to the FIFO.  Its processes run on three edges: the rising edge of *)
(* the main clock, and the rising and the falling edge of the pixel clock;  *)
(* each has an action.                                                     *)
(*                                                                         *)
(* A sample of the sensor is an arbitrary value, and a binned pixel is the *)
(* record of the samples its three channels are computed from; the channel  *)
(* arithmetic is in PixelBinning.                                          *)
(***************************************************************************)
EXTENDS Integers

CONSTANTS COLUMNS,         \* samples in a row (640)
          Threshold,       \* FIFO words beyond which the frame is given up (1008)
          NoSample         \* the value of a cleared sample

ASSUME InterfaceAssumption ==
  /\ COLUMNS \in Nat /\ COLUMNS >= 2 /\ COLUMNS % 2 = 0
  /\ Threshold \in Nat

Column == 0 .. COLUMNS - 1

Pixel(r, g1, g2, b) == [red |-> r, green1 |-> g1, green2 |-> g2, blue |-> b]
NoPixel == Pixel(NoSample, NoSample, NoSample, NoSample)
NoRow == [c \in Column |-> NoSample]

VARIABLES iRegStart, iRegPending, iRegNewFrame,              \* main clock
          iRegColumnCounter, iRegRow, iRegColumn,            \* pixel clock
          CI_FIFO_WriteEnable, CI_FIFO_WriteData, CI_AS_Pending,
          iRegMemory, iRegBlue, iRegRGB, iRegFIFOWrite       \* falling edge

mainVars == <<iRegStart, iRegPending, iRegNewFrame>>
riseVars == <<iRegColumnCounter, iRegRow, iRegColumn,
              CI_FIFO_WriteEnable, CI_FIFO_WriteData, CI_AS_Pending>>
fallVars == <<iRegMemory, iRegBlue, iRegRGB, iRegFIFOWrite>>
interfaceVars == <<mainVars, riseVars, fallVars>>

InterfaceInit ==
  /\ iRegStart = FALSE /\ iRegPending = FALSE /\ iRegNewFrame = FALSE
  /\ iRegColumnCounter = 0 /\ iRegRow = 0 /\ iRegColumn = 0
  /\ CI_FIFO_WriteEnable = FALSE /\ CI_FIFO_WriteData = NoPixel
  /\ CI_AS_Pending = FALSE
  /\ iRegMemory = NoRow /\ iRegBlue = NoSample /\ iRegRGB = NoPixel
  /\ iRegFIFOWrite = FALSE

(* The sample on the bus belongs to a frame that is being captured. *)
Capturing(frameValid, lineValid) ==
  frameValid /\ lineValid /\ iRegStart /\ ~iRegPending /\ iRegNewFrame

GivenUp == ~iRegStart \/ iRegPending

----------------------------------------------------------------------------
(* Rising edge of the main clock.                                          *)

(* Wrong: the flag comes one word late (>= for > on the next value).        *)
AcquisitionLate(start, usedWords) ==
  /\ iRegStart' = start
  /\ iRegPending' = (usedWords > Threshold + 1)

(* Wrong: the else branch of line 65 is missing, the flag is never cleared. *)
AcquisitionSticky(start, usedWords) ==
  /\ iRegStart' = start
  /\ iRegPending' = (iRegPending \/ usedWords > Threshold)

Acquisition(start, usedWords) ==
  /\ iRegStart' = start
  /\ iRegPending' = (usedWords > Threshold)

(* Wrong: capture begins at the next line, not at the next frame. *)
NewFrameAtLine(frameValid, lineValid) ==
  iRegNewFrame' = IF GivenUp THEN FALSE ELSE iRegNewFrame \/ ~lineValid

NewFrame(frameValid, lineValid) ==
  iRegNewFrame' = IF GivenUp THEN FALSE
                  ELSE iRegNewFrame \/ (~frameValid /\ ~lineValid)

MainEdge(start, usedWords, frameValid, lineValid) ==
  /\ Acquisition(start, usedWords)
  /\ NewFrame(frameValid, lineValid)
  /\ UNCHANGED <<riseVars, fallVars>>

----------------------------------------------------------------------------
(* Rising edge of the pixel clock.                                         *)

LastColumn == iRegColumnCounter = COLUMNS - 1

(* Wrong: the counter is not reset at the end of a row (lines 98, 110). *)
AdvanceColumnNoWrap == iRegColumnCounter' = iRegColumnCounter + 1

AdvanceColumn ==
  iRegColumnCounter' = IF LastColumn THEN 0 ELSE iRegColumnCounter + 1

(* Even rows count columns; odd rows also alternate between blue and green. *)
EvenRow ==
  /\ iRegRow = 0
  /\ AdvanceColumn
  /\ iRegRow' = IF LastColumn THEN 1 ELSE 0
  /\ UNCHANGED iRegColumn

OddRowBlue ==
  /\ iRegRow = 1 /\ iRegColumn = 0
  /\ iRegColumn' = 1
  /\ iRegColumnCounter' = iRegColumnCounter + 1
  /\ UNCHANGED iRegRow

OddRowGreen ==
  /\ iRegRow = 1 /\ iRegColumn = 1
  /\ iRegColumn' = 0
  /\ AdvanceColumn
  /\ iRegRow' = IF LastColumn THEN 0 ELSE 1

ResetColumns ==
  iRegColumnCounter' = 0 /\ iRegRow' = 0 /\ iRegColumn' = 0

(* Wrong: lines 117 to 120 are missing, the counters survive a stop.        *)
CountColumnsUnreset(frameValid, lineValid) ==
  IF Capturing(frameValid, lineValid) THEN EvenRow \/ OddRowBlue \/ OddRowGreen
  ELSE UNCHANGED <<iRegColumnCounter, iRegRow, iRegColumn>>

CountColumns(frameValid, lineValid) ==
  IF Capturing(frameValid, lineValid) THEN EvenRow \/ OddRowBlue \/ OddRowGreen
  ELSE IF GivenUp THEN ResetColumns
  ELSE UNCHANGED <<iRegColumnCounter, iRegRow, iRegColumn>>

TransferData ==
  /\ CI_AS_Pending' = iRegPending
  /\ CI_FIFO_WriteEnable' = (~iRegPending /\ iRegFIFOWrite)
  /\ CI_FIFO_WriteData' =
       IF ~iRegPending /\ iRegFIFOWrite THEN iRegRGB ELSE NoPixel

PixRise(frameValid, lineValid) ==
  /\ CountColumns(frameValid, lineValid)
  /\ TransferData
  /\ UNCHANGED <<mainVars, fallVars>>

----------------------------------------------------------------------------
(* Falling edge of the pixel clock: MainProcess.                           *)

StoreEvenRow(sample) ==
  /\ iRegRow = 0
  /\ iRegMemory' = [iRegMemory EXCEPT ![iRegColumnCounter] = sample]
  /\ iRegBlue' = NoSample
  /\ iRegRGB' = NoPixel
  /\ iRegFIFOWrite' = FALSE

StoreBlue(sample) ==
  /\ iRegRow = 1 /\ iRegColumn = 0
  /\ iRegBlue' = sample
  /\ iRegFIFOWrite' = FALSE
  /\ UNCHANGED <<iRegMemory, iRegRGB>>

ComputePixel(sample) ==
  /\ iRegRow = 1 /\ iRegColumn = 1
  /\ iRegRGB' = Pixel(iRegMemory[iRegColumnCounter],
                      iRegMemory[iRegColumnCounter - 1], sample, iRegBlue)
  /\ iRegFIFOWrite' = TRUE
  /\ iRegMemory' = IF LastColumn THEN NoRow ELSE iRegMemory
  /\ UNCHANGED iRegBlue

ClearPixels ==
  /\ iRegMemory' = NoRow /\ iRegBlue' = NoSample /\ iRegRGB' = NoPixel
  /\ iRegFIFOWrite' = FALSE

MainProcess(frameValid, lineValid, sample) ==
  IF Capturing(frameValid, lineValid)
  THEN StoreEvenRow(sample) \/ StoreBlue(sample) \/ ComputePixel(sample)
  ELSE IF GivenUp THEN ClearPixels
  ELSE iRegFIFOWrite' = FALSE /\ UNCHANGED <<iRegMemory, iRegBlue, iRegRGB>>

PixFall(frameValid, lineValid, sample) ==
  /\ MainProcess(frameValid, lineValid, sample)
  /\ UNCHANGED <<mainVars, riseVars>>
=============================================================================
