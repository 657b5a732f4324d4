---------------------------- MODULE CaptureChain ----------------------------
(***************************************************************************)
(* The sensor generator, the camera interface and what surrounds them:     *)
(* two clocks, the start output of the register file, and a FIFO that is    *)
(* seen only through its level (which may pass the threshold at any pixel   *)
(* clock) and its asynchronous clear.                                      *)
(*                                                                         *)
(* Clocks.  The main clock runs at 50 MHz and the pixel clock at 18.5 MHz,  *)
(* so a half period of the pixel clock holds one or two rising edges of the *)
(* main clock (MaxTicks bounds them).                                       *)
(*                                                                         *)
(* The program drops the start bit for at least MinStop main clocks, which  *)
(* outlast three half periods of the pixel clock; it leaves the generator   *)
(* running while the controller runs.                                       *)
(***************************************************************************)
EXTENDS CameraInterface

CONSTANTS ROWS,            \* rows of a frame (480)
          FrameFrame, FrameLine, LineLine, LineFrame,   \* blanks, in pixel clocks
          MaxTicks,        \* main edges in half a pixel clock
          MinStop          \* main edges for which a stop lasts

ASSUME ChainAssumption ==
  /\ ROWS \in Nat /\ ROWS >= 2 /\ ROWS % 2 = 0
  /\ {ROWS, COLUMNS, FrameFrame, FrameLine, LineLine, LineFrame} \subseteq 0 .. 1023
  /\ MaxTicks \in Nat /\ MaxTicks >= 1
  /\ MinStop \in Nat /\ MinStop >= 3 * MaxTicks

VARIABLES reg_state, width, height, blank,     \* the generator
          half, ticks,                         \* the two clocks
          startBit, stoppedFor,                \* iRegStart(0) of the register file
          AS_ALL_Start, usedWords,
          expected   \* history: index of the next pixel the FIFO should get

scanVars == <<reg_state, width, height, blank>>
chainVars == <<interfaceVars, scanVars, half, ticks, startBit, stoppedFor,
               AS_ALL_Start, usedWords, expected>>

FrameConfig ==
  [width |-> COLUMNS, height |-> ROWS, frame_frame |-> FrameFrame,
   frame_line |-> FrameLine, line_line |-> LineLine, line_frame |-> LineFrame]

(* The generator, configured and started, with no further command. *)
Sensor == INSTANCE CmosSensorGenerator
            WITH CounterSpace <- 1024, config <- FrameConfig,
                 reg_start <- TRUE, reg_stop <- FALSE

Sample == <<height - 1, width - 1>>

PixelsPerFrame == (COLUMNS \div 2) * (ROWS \div 2)

(* Pixel k of a frame, from the four samples of its Bayer cell. *)
Binned(k) ==
  LET row == 2 * (k \div (COLUMNS \div 2))
      col == 2 * (k % (COLUMNS \div 2))
  IN  Pixel(<<row, col + 1>>, <<row, col>>, <<row + 1, col + 1>>, <<row + 1, col>>)

Init ==
  /\ InterfaceInit
  /\ reg_state = "IDLE" /\ width = 0 /\ height = 0 /\ blank = 0
  /\ half = "high" /\ ticks = 0
  /\ startBit = FALSE /\ stoppedFor = MinStop
  /\ AS_ALL_Start = FALSE
  /\ usedWords = 0
  /\ expected = 0

(* Rising edge of the main clock. *)
MainTick(bit) ==
  /\ ticks < MaxTicks
  /\ ticks' = ticks + 1
  /\ ~startBit /\ bit => stoppedFor >= MinStop
  /\ startBit' = bit
  /\ stoppedFor' = IF startBit THEN 0
                   ELSE IF stoppedFor < MinStop THEN stoppedFor + 1
                   ELSE stoppedFor
  /\ AS_ALL_Start' = (startBit /\ ~CI_AS_Pending)
  /\ MainEdge(AS_ALL_Start, usedWords, Sensor!frame_valid, Sensor!line_valid)
  /\ IF AS_ALL_Start' THEN UNCHANGED <<usedWords, expected>>
                      ELSE usedWords' = 0 /\ expected' = 0
  /\ UNCHANGED <<scanVars, half>>

(* Rising edge of the pixel clock: the generator outputs its next sample    *)
(* and the FIFO takes the pixel.                                            *)
Rise(used) ==
  /\ half = "low" /\ ticks >= 1
  /\ half' = "high" /\ ticks' = 0
  /\ PixRise(Sensor!frame_valid, Sensor!line_valid)
  /\ Sensor!Scan
  /\ usedWords' = IF AS_ALL_Start THEN used ELSE 0
  /\ expected' = IF AS_ALL_Start /\ CI_FIFO_WriteEnable
                 THEN (expected + 1) % PixelsPerFrame
                 ELSE expected
  /\ UNCHANGED <<startBit, stoppedFor, AS_ALL_Start>>

(* Falling edge of the pixel clock. *)
Fall ==
  /\ half = "high" /\ ticks >= 1
  /\ half' = "low" /\ ticks' = 0
  /\ PixFall(Sensor!frame_valid, Sensor!line_valid, Sample)
  /\ UNCHANGED <<scanVars, startBit, stoppedFor, AS_ALL_Start, usedWords, expected>>

Next ==
  \/ \E bit \in BOOLEAN : MainTick(bit)
  \/ \E used \in {0, Threshold + 1} : Rise(used)
  \/ Fall

Spec == Init /\ [][Next]_chainVars

(* The two clocks run: neither stops for ever, because MaxTicks bounds the  *)
(* main edges between two pixel edges.                                      *)
FairSpec == Spec /\ WF_chainVars(Next)

----------------------------------------------------------------------------
Samples == {NoSample} \cup ((0 .. ROWS - 1) \X Column)
Pixels == [red : Samples, green1 : Samples, green2 : Samples, blue : Samples]

(* Types of the registers of Camera_Interface. *)
TypeOK ==
  /\ {iRegStart, iRegPending, iRegNewFrame, CI_FIFO_WriteEnable,
      CI_AS_Pending, iRegFIFOWrite} \subseteq BOOLEAN
  /\ iRegColumnCounter \in Column
  /\ iRegRow \in 0 .. 1 /\ iRegColumn \in 0 .. 1
  /\ iRegMemory \in [Column -> Samples]
  /\ iRegBlue \in Samples
  /\ iRegRGB \in Pixels /\ CI_FIFO_WriteData \in Pixels

(* From each clear of the FIFO on, the FIFO gets the pixels of whole frames *)
(* in order, beginning with pixel 0, each computed from its own Bayer cell: *)
(* no pixel is lost, repeated, shifted or mixed with another frame's,       *)
(* wherever in a frame Start rises and whenever the FIFO level makes the    *)
(* interface give a frame up and start over.                                *)
StreamInOrder ==
  AS_ALL_Start /\ CI_FIFO_WriteEnable => CI_FIFO_WriteData = Binned(expected)

(* The three copies of the position in the frame agree: while a sample is   *)
(* captured, the row parity and column counter of the interface, maintained *)
(* one edge behind on another clock edge, point to the sample on the bus.    *)
CountersFollowSensor ==
  half = "high" /\ Capturing(Sensor!frame_valid, Sensor!line_valid) =>
    /\ iRegColumnCounter = width - 1
    /\ iRegRow = (height - 1) % 2
    /\ iRegRow = 1 => iRegColumn = (width - 1) % 2

(* After any history of stops and frames given up, once the program leaves  *)
(* the start bit at 1 and the FIFO is drained, whole frames come through    *)
(* again and again: the loop Pending -> Start -> FIFO clear -> level ->     *)
(* Pending, which crosses both clock domains, never locks up.               *)
CaptureResumes ==
  <>[](startBit /\ usedWords = 0) =>
    []<>(AS_ALL_Start /\ CI_FIFO_WriteEnable /\ expected = PixelsPerFrame - 1)
=============================================================================
