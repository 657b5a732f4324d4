------------------------ MODULE CameraControllerProofs ------------------------
(***************************************************************************)
(* The controller from the sensor to the memory, in two parts.             *)
(*                                                                         *)
(* The chain from the sensor to the FIFO, for every size of the frame, of   *)
(* the blanks and of the FIFO, and every ratio of the two clocks: the       *)
(* position counters of the interface follow the sensor, and the FIFO gets  *)
(* whole frames in order, provided that a stop lasts for three half periods *)
(* of the pixel clock.  This is about any level of the FIFO.                *)
(*                                                                         *)
(* The whole controller, where the level is that of a real queue, for every *)
(* size of the bursts as well: the FIFO never fills, a burst has its words  *)
(* and keeps its address, and a finished frame is in its buffer pixel by    *)
(* pixel.                                                                  *)
(***************************************************************************)
EXTENDS CameraController, SequenceTheorems, TLAPS

----------------------------------------------------------------------------
(* The invariant of the chain.                                             *)

(* Cells in a row of cells, and rows of them.                               *)
CellColumns == COLUMNS \div 2
CellRows == ROWS \div 2

Typed ==
  /\ startBit \in BOOLEAN /\ AS_ALL_Start \in BOOLEAN
  /\ half \in {"high", "low"} /\ ticks \in 0 .. MaxTicks
  /\ stoppedFor \in 0 .. MinStop
  /\ usedWords \in Nat
  /\ expected \in 0 .. PixelsPerFrame - 1
  /\ TypeOK

(* The generator has left IDLE for good once it has started, and outside of *)
(* the leading blanks its counters are the position in the frame.           *)
SensorInv ==
  /\ reg_state \in {"IDLE", "FRAME_FRAME_BLANK", "FRAME_LINE_BLANK", "VALID",
                    "LINE_LINE_BLANK", "LINE_FRAME_BLANK"}
  /\ blank \in 0 .. 1023
  /\ reg_state = "VALID" => width \in 1 .. COLUMNS /\ height \in 1 .. ROWS
  /\ reg_state = "LINE_LINE_BLANK" => height \in 1 .. ROWS - 1

(* The counters of the interface before the next sample of the sensor.      *)
Fresh == iRegColumnCounter = 0 /\ iRegRow = 0 /\ iRegColumn = 0

Aligned ==
  IF reg_state = "VALID"
  THEN /\ iRegColumnCounter = width - 1
       /\ iRegRow = (height - 1) % 2
       /\ iRegColumn = IF iRegRow = 1 THEN (width - 1) % 2 ELSE 0
  ELSE /\ iRegColumnCounter = 0 /\ iRegColumn = 0
       /\ iRegRow = IF reg_state = "LINE_LINE_BLANK" THEN height % 2 ELSE 0

(* A frame is being captured, line or blank.                                *)
InFrame == iRegStart /\ ~iRegPending /\ iRegNewFrame

CountersInv ==
  /\ InFrame => Aligned
  /\ iRegStart /\ ~iRegPending /\ ~iRegNewFrame => Fresh
  /\ ~iRegStart /\ AS_ALL_Start => Fresh
  /\ ~iRegStart /\ startBit /\ ~CI_AS_Pending => Fresh

(* The level asks for a restart: Pending stays until a pixel clock has seen *)
(* it, and then Start falls.                                                *)
PendingInv ==
  /\ iRegStart /\ iRegPending /\ AS_ALL_Start => usedWords > Threshold \/ CI_AS_Pending
  /\ iRegStart /\ CI_AS_Pending => Fresh
  /\ CI_AS_Pending => ~CI_FIFO_WriteEnable
  /\ CI_AS_Pending /\ half = "high" => ~InFrame /\ (ticks = 0 => iRegPending)
  /\ CI_AS_Pending /\ half = "low" => ~iRegFIFOWrite
  /\ CI_AS_Pending /\ AS_ALL_Start => half = "high" /\ ticks = 0
  /\ iRegStart /\ ~AS_ALL_Start /\ startBit =>
       CI_AS_Pending /\ (half = "high" \/ ticks = 0)

(* Main clocks since the last rising, or falling, edge of the pixel clock,  *)
(* at most.                                                                 *)
SinceRise == IF half = "high" THEN ticks ELSE MaxTicks + ticks
SinceFall == IF half = "low" THEN ticks ELSE MaxTicks + ticks

(* A stop: what is left of the old frame has been there since before it.    *)
StopInv ==
  ~startBit =>
    /\ AS_ALL_Start => stoppedFor = 0
    /\ iRegStart => stoppedFor <= 1
    /\ ~iRegStart =>
         /\ ~Fresh => stoppedFor <= SinceRise + 1
         /\ iRegFIFOWrite => stoppedFor <= SinceFall + 1
         /\ CI_FIFO_WriteEnable =>
              stoppedFor <= MaxTicks + SinceRise + 1

(* Nothing of the old frame reaches the FIFO once Start is 1 again.         *)
QuietInv ==
  /\ ~AS_ALL_Start => expected = 0 /\ usedWords = 0
  /\ AS_ALL_Start /\ (~iRegStart \/ (~iRegPending /\ ~iRegNewFrame)) =>
       /\ expected = 0 /\ ~CI_FIFO_WriteEnable
       /\ half = "low" => ~iRegFIFOWrite
  /\ ~AS_ALL_Start /\ ~iRegStart /\ startBit /\ ~CI_AS_Pending =>
       /\ half = "low" => ~iRegFIFOWrite
       /\ CI_FIFO_WriteEnable => half = "low" /\ ticks = MaxTicks

(* The cell that the sensor is at, or that comes next.                      *)
CellRow ==
  IF reg_state = "VALID" THEN (height - 1) \div 2
  ELSE IF reg_state = "LINE_LINE_BLANK" THEN height \div 2
  ELSE 0
CellColumn == IF reg_state = "VALID" /\ iRegRow = 1 THEN (width - 1) \div 2 ELSE 0
Cell == CellRow * CellColumns + CellColumn

(* The sample that completes a cell is on the bus.                          *)
CellEnds == reg_state = "VALID" /\ iRegRow = 1 /\ iRegColumn = 1

(* What is stored of the cells that are not complete yet.                   *)
StoreInv ==
  InFrame =>
    /\ reg_state = "VALID" /\ iRegRow = 0 =>
         \A c \in Column : c < iRegColumnCounter \/ (c = iRegColumnCounter /\ half = "low") =>
                             iRegMemory[c] = <<height - 1, c>>
    /\ reg_state = "LINE_LINE_BLANK" /\ iRegRow = 1 =>
         \A c \in Column : iRegMemory[c] = <<height - 1, c>>
    /\ reg_state = "VALID" /\ iRegRow = 1 /\ (half = "high" \/ ~LastColumn) =>
         \A c \in Column : iRegMemory[c] = <<height - 2, c>>
    /\ CellEnds => iRegBlue = <<height - 1, width - 2>>
    /\ reg_state = "VALID" /\ iRegRow = 1 /\ iRegColumn = 0 /\ half = "low" =>
         iRegBlue = <<height - 1, width - 1>>

(* The pixel of a cell is on its way to the FIFO, and the FIFO has, or gets *)
(* at this edge, all before it; no two pixels come at adjacent edges.        *)
StreamInv ==
  /\ AS_ALL_Start /\ InFrame =>
       /\ Cell = IF CI_FIFO_WriteEnable THEN (expected + 1) % PixelsPerFrame ELSE expected
       /\ CI_FIFO_WriteEnable => ~CellEnds
       /\ half = "low" => (iRegFIFOWrite <=> CellEnds)
       /\ half = "low" /\ CellEnds => iRegRGB = Binned(Cell)
  /\ StreamInOrder

Inv == Typed /\ SensorInv /\ CountersInv /\ PendingInv /\ StopInv /\ QuietInv
       /\ StoreInv /\ StreamInv

----------------------------------------------------------------------------
(* The arithmetic of a frame.                                              *)

LEMMA Sizes ==
  /\ COLUMNS \in Nat /\ CellColumns \in Nat /\ CellColumns >= 1 /\ COLUMNS = 2 * CellColumns
  /\ ROWS \in Nat /\ CellRows \in Nat /\ CellRows >= 1 /\ ROWS = 2 * CellRows
  /\ COLUMNS <= 1023 /\ ROWS <= 1023
  /\ MaxTicks \in Nat /\ MaxTicks >= 1 /\ MinStop \in Nat /\ MinStop >= 3 * MaxTicks
  /\ Threshold \in Nat
BY InterfaceAssumption, ChainAssumption DEF CellColumns, CellRows

LEMMA Product ==
  ASSUME NEW h \in Nat, NEW a \in Nat, NEW b \in Nat, a < b
  PROVE  a * h + h <= b * h
OBVIOUS

(* A number is divided in one way only.                                     *)
LEMMA DivMod ==
  ASSUME NEW h \in Nat \ {0}, NEW q \in Nat, NEW r \in 0 .. h - 1
  PROVE  (q * h + r) \div h = q /\ (q * h + r) % h = r
<1>1. PICK x \in Nat : x = q * h + r
  OBVIOUS
<1>2. PICK d \in Nat : d = x \div h
  OBVIOUS
<1>3. PICK m \in 0 .. h - 1 : m = x % h
  OBVIOUS
<1>4. x = d * h + m
  BY <1>2, <1>3
<1>5. ~(d < q)
  BY <1>1, <1>4, Product
<1>6. ~(q < d)
  BY <1>1, <1>4, Product
<1>7. QED BY <1>1, <1>2, <1>3, <1>4, <1>5, <1>6

(* The cell in row q and column r of the cells.                             *)
LEMMA BinnedCell ==
  ASSUME NEW q \in Nat, NEW r \in 0 .. CellColumns - 1
  PROVE  Binned(q * CellColumns + r)
           = Pixel(<<2 * q, 2 * r + 1>>, <<2 * q, 2 * r>>,
                   <<2 * q + 1, 2 * r + 1>>, <<2 * q + 1, 2 * r>>)
<1>1. (q * CellColumns + r) \div CellColumns = q /\ (q * CellColumns + r) % CellColumns = r
  BY Sizes, DivMod
<1>2. QED BY <1>1 DEF Binned, CellColumns

(* The number of a cell in its frame, and of the next.                      *)
LEMMA NextCell ==
  ASSUME NEW q \in 0 .. CellRows - 1, NEW r \in 0 .. CellColumns - 1
  PROVE  /\ PixelsPerFrame \in Nat /\ q * CellColumns + r \in 0 .. PixelsPerFrame - 1
         /\ (q * CellColumns + r + 1) % PixelsPerFrame
              = IF r < CellColumns - 1 THEN q * CellColumns + (r + 1)
                ELSE IF q < CellRows - 1 THEN (q + 1) * CellColumns + 0 ELSE 0
<1>1. PixelsPerFrame = CellRows * CellColumns
  BY Sizes DEF PixelsPerFrame, CellRows, CellColumns
<1>2. PICK n \in Nat : n = q * CellColumns
  BY Sizes
<1>3. PICK p \in Nat : p = PixelsPerFrame
  BY <1>1, Sizes
<1>4. n + CellColumns <= p
  BY <1>1, <1>2, <1>3, Sizes, Product
<1>5. (q + 1) * CellColumns = n + CellColumns
  BY <1>2, Sizes
<1>6. q < CellRows - 1 => n + CellColumns + CellColumns <= p
  <2>1. SUFFICES ASSUME q < CellRows - 1 PROVE n + CellColumns + CellColumns <= p
    OBVIOUS
  <2>2. (q + 1) * CellColumns + CellColumns <= CellRows * CellColumns
    BY <2>1, Sizes, Product
  <2>3. QED BY <1>1, <1>3, <1>5, <2>2, Sizes
<1>7. q = CellRows - 1 => n + CellColumns = p
  BY <1>1, <1>3, <1>5, Sizes
<1>8. n + r + 1 <= p /\ (n + r + 1 = p <=> (r = CellColumns - 1 /\ q = CellRows - 1))
  BY <1>4, <1>6, <1>7, Sizes
<1>9. (n + r + 1) % p = IF n + r + 1 = p THEN 0 ELSE n + r + 1
  BY <1>8, Sizes
<1>10. QED BY <1>2, <1>3, <1>5, <1>8, <1>9, Sizes

LEMMA FirstCell == PixelsPerFrame \in Nat /\ 0 \in 0 .. PixelsPerFrame - 1
<1>1. 0 \in 0 .. CellRows - 1 /\ 0 \in 0 .. CellColumns - 1
  BY Sizes
<1>2. 0 * CellColumns + 0 = 0
  BY Sizes
<1>3. PixelsPerFrame \in Nat /\ 0 * CellColumns + 0 \in 0 .. PixelsPerFrame - 1
  BY <1>1, NextCell
<1>4. QED BY <1>2, <1>3

----------------------------------------------------------------------------
(* The sensor.                                                             *)

(* Inside a frame a line is under way or a blank between lines.             *)
InLines == reg_state \in {"VALID", "LINE_LINE_BLANK"}

(* The steps that the interface sees: from pixel to pixel, over the blanks, *)
(* and between frames.                                                      *)
Scanned ==
  \/ ~InLines /\ ~InLines'
  \/ ~InLines /\ reg_state' = "VALID" /\ width' = 1 /\ height' = 1
  \/ /\ reg_state = "VALID" /\ width < COLUMNS
     /\ reg_state' = "VALID" /\ width' = width + 1 /\ height' = height
  \/ /\ reg_state = "VALID" /\ width = COLUMNS /\ height < ROWS
     /\ reg_state' = "LINE_LINE_BLANK" /\ height' = height
  \/ reg_state = "VALID" /\ width = COLUMNS /\ height = ROWS /\ ~InLines'
  \/ /\ reg_state = "LINE_LINE_BLANK"
     /\ reg_state' = "LINE_LINE_BLANK" /\ height' = height
  \/ /\ reg_state = "LINE_LINE_BLANK"
     /\ reg_state' = "VALID" /\ width' = 1 /\ height' = height + 1

LEMMA ScanSteps ==
  ASSUME SensorInv, Sensor!Scan
  PROVE  SensorInv' /\ Scanned
<1> USE DEF InLines, Scanned
<1>1. blank \in 0 .. 1023 /\ Sensor!Plus1(blank) \in 0 .. 1023 /\ 0 \in 0 .. 1023 /\ 1 \in 0 .. 1023
  BY DEF SensorInv, Sensor!Plus1
<1>2. CASE Sensor!Idle
  BY <1>1, <1>2, Sizes
     DEF Sensor!Idle, Sensor!BeginFrame, Sensor!EnterBlank, Sensor!FirstPixel, SensorInv
<1>3. CASE Sensor!Stopped
  BY <1>3 DEF Sensor!Stopped
<1>4. CASE Sensor!Blank("FRAME_FRAME_BLANK", FrameConfig.frame_frame, Sensor!BeginFrame)
  BY <1>1, <1>4, Sizes
     DEF Sensor!Blank, Sensor!BeginFrame, Sensor!EnterBlank, Sensor!FirstPixel, SensorInv
<1>5. CASE Sensor!Blank("FRAME_LINE_BLANK", FrameConfig.frame_line, Sensor!FirstPixel)
  BY <1>1, <1>5, Sizes DEF Sensor!Blank, Sensor!FirstPixel, SensorInv
<1>6. CASE Sensor!Valid
  <2>1. FrameConfig.width = COLUMNS /\ FrameConfig.height = ROWS
    BY DEF FrameConfig
  <2>2. width \in 1 .. COLUMNS /\ height \in 1 .. ROWS /\ reg_state = "VALID"
    BY <1>6 DEF Sensor!Valid, SensorInv
  <2>3. width < COLUMNS => width' = width + 1
    BY <1>6, <2>2, Sizes DEF Sensor!Valid, Sensor!Plus1
  <2>4. CASE width < COLUMNS
    BY <1>1, <1>6, <2>1, <2>2, <2>3, <2>4, Sizes
       DEF Sensor!Valid, Sensor!AfterPixel, SensorInv
  <2>5. CASE width = COLUMNS /\ height < ROWS
    BY <1>1, <1>6, <2>1, <2>2, <2>5, Sizes
       DEF Sensor!Valid, Sensor!AfterPixel, Sensor!EnterBlank, SensorInv
  <2>6. CASE width = COLUMNS /\ height = ROWS
    BY <1>1, <1>6, <2>1, <2>2, <2>6, Sizes
       DEF Sensor!Valid, Sensor!AfterPixel, Sensor!EndOfFrame, Sensor!EnterBlank, SensorInv
  <2>7. QED BY <2>2, <2>4, <2>5, <2>6, Sizes
<1>7. CASE Sensor!Blank("LINE_LINE_BLANK", FrameConfig.line_line, Sensor!NextLine)
  <2>1. reg_state = "LINE_LINE_BLANK" => height + 1 \in 1 .. ROWS /\ Sensor!Plus1(height) = height + 1
    BY Sizes DEF SensorInv, Sensor!Plus1
  <2>2. QED BY <1>1, <1>7, <2>1, Sizes DEF Sensor!Blank, Sensor!NextLine, SensorInv
<1>8. CASE Sensor!Blank("LINE_FRAME_BLANK", FrameConfig.line_frame, Sensor!LeaveFrame)
  BY <1>1, <1>8 DEF Sensor!Blank, Sensor!LeaveFrame, Sensor!EnterBlank, SensorInv
<1>9. QED BY <1>2, <1>3, <1>4, <1>5, <1>6, <1>7, <1>8 DEF Sensor!Scan

----------------------------------------------------------------------------
(* The initial states and the main clock.                                  *)

LEMMA InitInv == Init => Inv
<1> SUFFICES ASSUME Init PROVE Inv
  OBVIOUS
<1>1. Typed
  <2>1. NoSample \in Samples /\ NoPixel \in Pixels
    BY DEF Samples, Pixels, NoPixel, Pixel
  <2>2. NoRow \in [Column -> Samples]
    BY <2>1 DEF NoRow
  <2>3. 0 \in Column
    BY Sizes DEF Column
  <2>4. /\ iRegStart \in BOOLEAN /\ iRegPending \in BOOLEAN /\ iRegNewFrame \in BOOLEAN
        /\ CI_FIFO_WriteEnable \in BOOLEAN /\ CI_AS_Pending \in BOOLEAN
        /\ iRegFIFOWrite \in BOOLEAN /\ startBit \in BOOLEAN /\ AS_ALL_Start \in BOOLEAN
    BY DEF Init, InterfaceInit
  <2>5. /\ iRegColumnCounter \in Column /\ iRegRow \in 0 .. 1 /\ iRegColumn \in 0 .. 1
        /\ iRegMemory \in [Column -> Samples] /\ iRegBlue \in Samples
        /\ iRegRGB \in Pixels /\ CI_FIFO_WriteData \in Pixels
    BY <2>1, <2>2, <2>3 DEF Init, InterfaceInit
  <2>6. TypeOK
    BY <2>4, <2>5 DEF TypeOK
  <2>7. /\ half \in {"high", "low"} /\ ticks \in 0 .. MaxTicks
        /\ stoppedFor \in 0 .. MinStop /\ usedWords \in Nat
        /\ expected \in 0 .. PixelsPerFrame - 1
    BY FirstCell, Sizes DEF Init
  <2>8. QED BY <2>4, <2>6, <2>7 DEF Typed
<1>2. SensorInv
  BY DEF Init, SensorInv
<1>3. CountersInv /\ PendingInv /\ StopInv /\ QuietInv
  BY DEF Init, InterfaceInit, CountersInv, InFrame, Fresh, PendingInv, StopInv, QuietInv
<1>4. StoreInv /\ StreamInv
  BY DEF Init, InterfaceInit, StoreInv, StreamInv, InFrame, StreamInOrder
<1>5. QED BY <1>1, <1>2, <1>3, <1>4 DEF Inv

LEMMA TickInv ==
  ASSUME Inv, NEW bit \in BOOLEAN, MainTick(bit)
  PROVE  Inv'
<1> USE DEF InFrame
<1>1. /\ ticks < MaxTicks /\ ticks' = ticks + 1 /\ half' = half
      /\ ~startBit /\ bit => stoppedFor >= MinStop
      /\ startBit' = bit
      /\ stoppedFor' = IF startBit THEN 0
                       ELSE IF stoppedFor < MinStop THEN stoppedFor + 1
                       ELSE stoppedFor
      /\ AS_ALL_Start' = (startBit /\ ~CI_AS_Pending)
      /\ iRegStart' = AS_ALL_Start /\ iRegPending' = (usedWords > Threshold)
      /\ iRegNewFrame' = IF ~iRegStart \/ iRegPending THEN FALSE
                         ELSE iRegNewFrame \/ (~Sensor!frame_valid /\ ~Sensor!line_valid)
      /\ IF AS_ALL_Start' THEN UNCHANGED <<usedWords, expected>>
                          ELSE usedWords' = 0 /\ expected' = 0
  BY DEF MainTick, MainEdge, Acquisition, NewFrame, GivenUp
<1>2. UNCHANGED <<reg_state, width, height, blank, iRegColumnCounter, iRegRow, iRegColumn,
                  CI_FIFO_WriteEnable, CI_FIFO_WriteData, CI_AS_Pending,
                  iRegMemory, iRegBlue, iRegRGB, iRegFIFOWrite>>
  BY DEF MainTick, MainEdge, scanVars, riseVars, fallVars
<1>3. ~Sensor!frame_valid => reg_state \in {"IDLE", "FRAME_FRAME_BLANK"}
  BY DEF Sensor!frame_valid
<1>4. Typed'
  <2>1. 0 \in 0 .. PixelsPerFrame - 1
    BY FirstCell
  <2>2. {iRegStart', iRegPending', iRegNewFrame'} \subseteq BOOLEAN
    <3>1. iRegStart' \in BOOLEAN
      BY <1>1 DEF Inv, Typed
    <3>2. iRegPending' \in BOOLEAN
      BY <1>1
    <3>3. iRegNewFrame' \in BOOLEAN
      <4>1. iRegNewFrame \in BOOLEAN
        BY DEF Inv, Typed, TypeOK
      <4>2. QED BY <1>1, <4>1
    <3>4. QED BY <3>1, <3>2, <3>3
  <2>3. TypeOK'
    BY <1>2, <2>2 DEF Inv, Typed, TypeOK
  <2>4. startBit' \in BOOLEAN /\ AS_ALL_Start' \in BOOLEAN /\ half' \in {"high", "low"}
    BY <1>1 DEF Inv, Typed
  <2>5. ticks' \in 0 .. MaxTicks /\ stoppedFor' \in 0 .. MinStop
    BY <1>1, Sizes DEF Inv, Typed
  <2>6. usedWords' \in Nat /\ expected' \in 0 .. PixelsPerFrame - 1
    BY <1>1, <2>1 DEF Inv, Typed
  <2>7. QED BY <2>3, <2>4, <2>5, <2>6 DEF Typed
<1>5. SensorInv'
  BY <1>2 DEF Inv, SensorInv
<1>6. /\ startBit \in BOOLEAN /\ AS_ALL_Start \in BOOLEAN /\ iRegStart \in BOOLEAN
      /\ iRegPending \in BOOLEAN /\ iRegNewFrame \in BOOLEAN /\ CI_AS_Pending \in BOOLEAN
      /\ CI_FIFO_WriteEnable \in BOOLEAN /\ iRegFIFOWrite \in BOOLEAN
      /\ ticks \in Nat /\ stoppedFor \in Nat /\ usedWords \in Nat
  BY Sizes DEF Inv, Typed, TypeOK
<1>7. CountersInv'
  <2>1. Fresh' = Fresh /\ Aligned' = Aligned
    BY <1>2 DEF Fresh, Aligned
  <2>2. Fresh /\ reg_state \in {"IDLE", "FRAME_FRAME_BLANK"} => Aligned
    BY DEF Fresh, Aligned
  <2>3. stoppedFor >= MinStop /\ ~startBit => Fresh /\ ~iRegStart /\ ~AS_ALL_Start
    BY <1>1, <1>6, Sizes DEF Inv, Typed, StopInv, SinceRise
  <2>4. QED BY <1>1, <1>2, <1>3, <1>6, <2>1, <2>2, <2>3
            DEF Inv, CountersInv, PendingInv, StopInv
<1>8. PendingInv'
  <2>1. Fresh' = Fresh
    BY <1>2 DEF Fresh
  <2>2. QED BY <1>1, <1>2, <1>6, <2>1, Sizes DEF Inv, PendingInv, CountersInv, StopInv
<1>9. StopInv'
  BY <1>1, <1>2, <1>6, Sizes DEF Inv, Typed, StopInv, SinceRise, SinceFall, Fresh
<1>10. QuietInv'
  BY <1>1, <1>2, <1>6, Sizes
     DEF Inv, Typed, QuietInv, PendingInv, StopInv, SinceRise, SinceFall
<1>11. StoreInv'
  <2>1. InFrame' => InFrame \/ reg_state \in {"IDLE", "FRAME_FRAME_BLANK"}
    BY <1>1, <1>3, <1>6
  <2>2. QED BY <1>1, <1>2, <2>1 DEF Inv, StoreInv, CellEnds, LastColumn
<1>12. StreamInv'
  <2>1. UNCHANGED <<Cell, CellEnds>>
    BY <1>2 DEF Cell, CellEnds, CellRow, CellColumn
  <2>2. AS_ALL_Start' /\ ~AS_ALL_Start => ~CI_FIFO_WriteEnable /\ ~iRegStart'
    BY <1>1, <1>6, Sizes DEF Inv, Typed, QuietInv, PendingInv
  <2>3. StreamInOrder'
    BY <1>1, <1>2, <2>2 DEF Inv, StreamInv, StreamInOrder
  <2>4. CASE InFrame
    BY <1>1, <1>2, <2>1, <2>2, <2>3, <2>4 DEF Inv, StreamInv
  <2>5. CASE ~InFrame
    <3>1. SUFFICES ASSUME AS_ALL_Start', InFrame'
                   PROVE  /\ Cell = 0 /\ ~CellEnds /\ expected' = 0 /\ ~CI_FIFO_WriteEnable
                          /\ half = "low" => ~iRegFIFOWrite
      BY <1>1, <1>2, <2>1, <2>3, Sizes DEF StreamInv
    <3>2. /\ reg_state \in {"IDLE", "FRAME_FRAME_BLANK"}
          /\ AS_ALL_Start /\ iRegStart /\ ~iRegPending /\ ~iRegNewFrame
      BY <1>1, <1>3, <1>6, <2>5, <3>1
    <3>3. QED BY <1>1, <3>1, <3>2, Sizes
              DEF Inv, QuietInv, Cell, CellRow, CellColumn, CellEnds
  <2>6. QED BY <2>4, <2>5
<1>13. QED BY <1>4, <1>5, <1>7, <1>8, <1>9, <1>10, <1>11, <1>12 DEF Inv

----------------------------------------------------------------------------
(* The falling edge of the pixel clock.                                    *)

(* The sample that the interface takes.                                     *)
Taken == InFrame /\ reg_state = "VALID"

LEMMA TakenCapturing ==
  Capturing(Sensor!frame_valid, Sensor!line_valid) <=> Taken
BY DEF Capturing, Taken, InFrame, Sensor!frame_valid, Sensor!line_valid

(* The sensor and the counters while a sample is taken: in an odd row, the  *)
(* blue sample of a cell comes first.                                       *)
LEMMA TakenSample ==
  ASSUME Inv, Taken
  PROVE  /\ Aligned /\ width \in 1 .. COLUMNS /\ height \in 1 .. ROWS
         /\ iRegColumnCounter = width - 1 /\ iRegColumnCounter \in Column
         /\ Sample \in Samples
         /\ \/ iRegRow = 0 /\ iRegColumn = 0 /\ height = 2 * ((height - 1) \div 2) + 1
            \/ /\ iRegRow = 1 /\ height = 2 * ((height - 1) \div 2) + 2
               /\ \/ iRegColumn = 0 /\ width = 2 * ((width - 1) \div 2) + 1
                  \/ iRegColumn = 1 /\ width = 2 * ((width - 1) \div 2) + 2
<1>1. Aligned /\ width \in 1 .. COLUMNS /\ height \in 1 .. ROWS /\ reg_state = "VALID"
  BY DEF Inv, SensorInv, CountersInv, Taken
<1>2. iRegColumnCounter = width - 1 /\ iRegColumnCounter \in Column
  BY <1>1, Sizes DEF Aligned, Column
<1>3. Sample \in Samples
  BY <1>1, Sizes DEF Sample, Samples, Column
<1>4. \/ iRegRow = 0 /\ iRegColumn = 0 /\ height = 2 * ((height - 1) \div 2) + 1
      \/ /\ iRegRow = 1 /\ height = 2 * ((height - 1) \div 2) + 2
         /\ \/ iRegColumn = 0 /\ width = 2 * ((width - 1) \div 2) + 1
            \/ iRegColumn = 1 /\ width = 2 * ((width - 1) \div 2) + 2
  BY <1>1, Sizes DEF Aligned
<1>5. QED BY <1>1, <1>2, <1>3, <1>4

(* The number of the cell of a sample in an odd row.                        *)
LEMMA TakenCell ==
  ASSUME Inv, Taken, iRegRow = 1, NEW q, q = (height - 1) \div 2, NEW r, r = (width - 1) \div 2
  PROVE  /\ q \in 0 .. CellRows - 1 /\ r \in 0 .. CellColumns - 1
         /\ Cell = q * CellColumns + r /\ height = 2 * q + 2
         /\ width = IF iRegColumn = 1 THEN 2 * r + 2 ELSE 2 * r + 1
<1>1. /\ width \in 1 .. COLUMNS /\ height \in 1 .. ROWS /\ height = 2 * q + 2
      /\ width = IF iRegColumn = 1 THEN 2 * r + 2 ELSE 2 * r + 1
  BY TakenSample
<1>2. q \in 0 .. CellRows - 1 /\ r \in 0 .. CellColumns - 1
  BY <1>1, Sizes
<1>3. Cell = q * CellColumns + r
  BY DEF Cell, CellRow, CellColumn, Taken
<1>4. QED BY <1>1, <1>2, <1>3

(* What MainProcess does to the registers.                                  *)
LEMMA FallSteps ==
  ASSUME Inv, Fall
  PROVE  /\ half = "high" /\ half' = "low" /\ ticks \in Nat /\ ticks >= 1 /\ ticks' = 0
         /\ UNCHANGED <<mainVars, riseVars, scanVars, startBit, stoppedFor, AS_ALL_Start,
                        usedWords, expected>>
         /\ iRegFIFOWrite' = (InFrame /\ CellEnds)
         /\ Taken => StoreEvenRow(Sample) \/ StoreBlue(Sample) \/ ComputePixel(Sample)
         /\ ~Taken /\ InFrame => UNCHANGED <<iRegMemory, iRegBlue, iRegRGB>>
         /\ ~Taken => \/ UNCHANGED <<iRegMemory, iRegBlue, iRegRGB>>
                      \/ iRegMemory' = NoRow /\ iRegBlue' = NoSample /\ iRegRGB' = NoPixel
<1>1. /\ half = "high" /\ half' = "low" /\ ticks \in Nat /\ ticks >= 1 /\ ticks' = 0
      /\ UNCHANGED <<mainVars, riseVars, scanVars, startBit, stoppedFor, AS_ALL_Start,
                     usedWords, expected>>
      /\ MainProcess(Sensor!frame_valid, Sensor!line_valid, Sample)
  BY DEF Fall, PixFall, Inv, Typed
<1>2. CASE Taken
  <2>1. StoreEvenRow(Sample) \/ StoreBlue(Sample) \/ ComputePixel(Sample)
    BY <1>1, <1>2, TakenCapturing DEF MainProcess
  <2>2. iRegFIFOWrite' = (InFrame /\ CellEnds)
    <3>1. CASE StoreEvenRow(Sample) \/ StoreBlue(Sample)
      <4>1. ~CellEnds
        BY <3>1 DEF CellEnds, StoreEvenRow, StoreBlue
      <4>2. iRegFIFOWrite' = FALSE
        BY <3>1 DEF StoreEvenRow, StoreBlue
      <4>3. QED BY <4>1, <4>2
    <3>2. CASE ComputePixel(Sample)
      <4>1. InFrame /\ CellEnds
        BY <1>2, <3>2 DEF Taken, CellEnds, ComputePixel
      <4>2. iRegFIFOWrite' = TRUE
        BY <3>2 DEF ComputePixel
      <4>3. QED BY <4>1, <4>2
    <3>3. QED BY <2>1, <3>1, <3>2
  <2>3. QED BY <1>1, <1>2, <2>1, <2>2
<1>3. CASE ~Taken
  <2>1. IF GivenUp THEN ClearPixels
        ELSE iRegFIFOWrite' = FALSE /\ UNCHANGED <<iRegMemory, iRegBlue, iRegRGB>>
    BY <1>1, <1>3, TakenCapturing DEF MainProcess
  <2>2. iRegFIFOWrite' = (InFrame /\ CellEnds)
    BY <1>3, <2>1 DEF Taken, CellEnds, ClearPixels
  <2>3. InFrame => ~GivenUp
    BY DEF InFrame, GivenUp
  <2>4. QED BY <1>1, <1>3, <2>1, <2>2, <2>3 DEF ClearPixels
<1>4. QED BY <1>2, <1>3

LEMMA FallTyped == ASSUME Inv, Fall PROVE Typed'
<1>1. /\ half' = "low" /\ ticks' = 0
      /\ UNCHANGED <<iRegStart, iRegPending, iRegNewFrame, iRegColumnCounter, iRegRow, iRegColumn,
                     CI_FIFO_WriteEnable, CI_FIFO_WriteData, CI_AS_Pending,
                     startBit, stoppedFor, AS_ALL_Start, usedWords, expected>>
      /\ iRegFIFOWrite' \in BOOLEAN
  BY FallSteps DEF mainVars, riseVars
<1>2. NoSample \in Samples /\ NoPixel \in Pixels /\ NoRow \in [Column -> Samples]
  BY DEF Samples, Pixels, NoPixel, Pixel, NoRow
<1>3. /\ iRegMemory \in [Column -> Samples] /\ iRegBlue \in Samples /\ iRegRGB \in Pixels
  BY DEF Inv, Typed, TypeOK
<1>4. iRegMemory' \in [Column -> Samples] /\ iRegBlue' \in Samples /\ iRegRGB' \in Pixels
  <2>1. CASE Taken
    <3>1. Sample \in Samples /\ iRegColumnCounter \in Column
      BY <2>1, TakenSample
    <3>2. CASE StoreEvenRow(Sample)
      BY <1>2, <1>3, <3>1, <3>2 DEF StoreEvenRow
    <3>3. CASE StoreBlue(Sample)
      BY <1>3, <3>1, <3>3 DEF StoreBlue
    <3>4. CASE ComputePixel(Sample)
      <4>1. iRegColumnCounter - 1 \in Column
        BY <2>1, <3>4, TakenSample, Sizes DEF ComputePixel, Column
      <4>2. QED BY <1>2, <1>3, <3>1, <3>4, <4>1 DEF ComputePixel, Pixel, Pixels
    <3>5. QED BY <2>1, <3>2, <3>3, <3>4, FallSteps
  <2>2. CASE ~Taken
    BY <1>2, <1>3, <2>2, FallSteps
  <2>3. QED BY <2>1, <2>2
<1>5. TypeOK'
  <2>1. {iRegStart, iRegPending, iRegNewFrame, CI_FIFO_WriteEnable, CI_AS_Pending}
          \subseteq BOOLEAN
    BY DEF Inv, Typed, TypeOK
  <2>2. {iRegStart', iRegPending', iRegNewFrame', CI_FIFO_WriteEnable', CI_AS_Pending',
         iRegFIFOWrite'} \subseteq BOOLEAN
    BY <1>1, <2>1
  <2>3. QED BY <1>1, <1>4, <2>2 DEF Inv, Typed, TypeOK
<1>6. QED BY <1>1, <1>5, Sizes DEF Inv, Typed

LEMMA FallInv == ASSUME Inv, Fall PROVE Inv'
<1>1. /\ half = "high" /\ half' = "low" /\ ticks \in Nat /\ ticks >= 1 /\ ticks' = 0
      /\ UNCHANGED <<iRegStart, iRegPending, iRegNewFrame, iRegColumnCounter, iRegRow, iRegColumn,
                     CI_FIFO_WriteEnable, CI_FIFO_WriteData, CI_AS_Pending,
                     reg_state, width, height, blank,
                     startBit, stoppedFor, AS_ALL_Start, usedWords, expected>>
      /\ iRegFIFOWrite' = (InFrame /\ CellEnds)
  BY FallSteps DEF mainVars, riseVars, scanVars
<1>2. /\ startBit \in BOOLEAN /\ AS_ALL_Start \in BOOLEAN /\ iRegStart \in BOOLEAN
      /\ iRegPending \in BOOLEAN /\ iRegNewFrame \in BOOLEAN /\ CI_AS_Pending \in BOOLEAN
      /\ CI_FIFO_WriteEnable \in BOOLEAN /\ iRegFIFOWrite \in BOOLEAN
      /\ ticks <= MaxTicks /\ stoppedFor \in Nat /\ usedWords \in Nat
  BY Sizes DEF Inv, Typed, TypeOK
<1>3. UNCHANGED <<InFrame, Fresh, Aligned, Cell, CellEnds, LastColumn>>
  BY <1>1 DEF InFrame, Fresh, Aligned, Cell, CellRow, CellColumn, CellEnds, LastColumn
<1>4. SensorInv' /\ CountersInv'
  BY <1>1, <1>3 DEF Inv, SensorInv, CountersInv
<1>5. PendingInv'
  BY <1>1, <1>2, <1>3 DEF Inv, PendingInv
<1>6. StopInv'
  BY <1>1, <1>2, <1>3, Sizes DEF Inv, StopInv, InFrame, SinceRise, SinceFall
<1>7. QuietInv'
  BY <1>1, <1>2, <1>3 DEF Inv, QuietInv, InFrame
<1>8. StoreInv'
  <2>1. SUFFICES ASSUME InFrame
                 PROVE  /\ reg_state = "VALID" /\ iRegRow = 0 =>
                             \A c \in Column : c <= iRegColumnCounter =>
                                                 iRegMemory'[c] = <<height - 1, c>>
                        /\ reg_state = "LINE_LINE_BLANK" /\ iRegRow = 1 =>
                             \A c \in Column : iRegMemory'[c] = <<height - 1, c>>
                        /\ reg_state = "VALID" /\ iRegRow = 1 /\ ~LastColumn =>
                             \A c \in Column : iRegMemory'[c] = <<height - 2, c>>
                        /\ CellEnds => iRegBlue' = <<height - 1, width - 2>>
                        /\ reg_state = "VALID" /\ iRegRow = 1 /\ iRegColumn = 0 =>
                             iRegBlue' = <<height - 1, width - 1>>
    <3>1. iRegColumnCounter \in Int /\ \A c \in Column : c \in Int
      BY Sizes DEF Inv, Typed, TypeOK, Column
    <3>2. ASSUME NEW c \in Column, c < iRegColumnCounter \/ c = iRegColumnCounter
          PROVE  c <= iRegColumnCounter
      BY <3>1, <3>2
    <3>3. QED BY <1>1, <1>3, <2>1, <3>2 DEF StoreInv
  <2>2. CASE ~Taken
    BY <1>1, <2>1, <2>2, FallSteps DEF Inv, StoreInv, Taken, CellEnds
  <2>3. CASE Taken /\ StoreEvenRow(Sample)
    <3>1. /\ iRegMemory \in [Column -> Samples] /\ iRegColumnCounter \in Column
          /\ iRegColumnCounter = width - 1 /\ Sample = <<height - 1, width - 1>>
      BY <2>3, TakenSample DEF Inv, Typed, TypeOK, Sample
    <3>2. /\ iRegRow = 0 /\ reg_state = "VALID"
          /\ iRegMemory' = [iRegMemory EXCEPT ![iRegColumnCounter] = Sample]
      BY <2>3 DEF StoreEvenRow, Taken
    <3>3. \A c \in Column : c < iRegColumnCounter => iRegMemory[c] = <<height - 1, c>>
      BY <2>1, <3>2 DEF Inv, StoreInv
    <3>4. ASSUME NEW c \in Column, c <= iRegColumnCounter
          PROVE  iRegMemory'[c] = <<height - 1, c>>
      <4>1. CASE c = iRegColumnCounter
        BY <3>1, <3>2, <4>1
      <4>2. CASE c # iRegColumnCounter
        <5>1. c < iRegColumnCounter
          BY <3>1, <3>4, <4>2, Sizes DEF Column
        <5>2. QED BY <3>1, <3>2, <3>3, <4>2, <5>1
      <4>3. QED BY <4>1, <4>2
    <3>5. QED BY <3>2, <3>4 DEF CellEnds
  <2>4. CASE Taken /\ StoreBlue(Sample)
    BY <1>1, <2>1, <2>4 DEF StoreBlue, Taken, CellEnds, Inv, StoreInv, Sample
  <2>5. CASE Taken /\ ComputePixel(Sample)
    BY <1>1, <2>1, <2>5 DEF ComputePixel, Taken, CellEnds, Inv, StoreInv
  <2>6. QED BY <2>2, <2>3, <2>4, <2>5, FallSteps
<1>9. StreamInv'
  <2>1. StreamInOrder'
    BY <1>1 DEF Inv, StreamInv, StreamInOrder
  <2>2. ASSUME InFrame, CellEnds PROVE iRegRGB' = Binned(Cell)
    <3>1. Taken /\ iRegRow = 1 /\ iRegColumn = 1
      BY <2>2 DEF Taken, CellEnds
    <3> DEFINE q == (height - 1) \div 2
               r == (width - 1) \div 2
    <3>2. /\ q \in 0 .. CellRows - 1 /\ r \in 0 .. CellColumns - 1
          /\ Cell = q * CellColumns + r /\ height = 2 * q + 2 /\ width = 2 * r + 2
      BY <3>1, TakenCell
    <3> HIDE DEF q, r
    <3>3. /\ iRegColumnCounter = 2 * r + 1 /\ iRegColumnCounter - 1 = 2 * r
          /\ iRegColumnCounter \in Column /\ iRegColumnCounter - 1 \in Column
      BY <3>1, <3>2, TakenSample, Sizes DEF Column
    <3>4. iRegRGB' = Pixel(iRegMemory[iRegColumnCounter], iRegMemory[iRegColumnCounter - 1],
                           Sample, iRegBlue)
      BY <3>1, FallSteps DEF StoreEvenRow, StoreBlue, ComputePixel
    <3>5. /\ iRegBlue = <<height - 1, width - 2>>
          /\ \A c \in Column : iRegMemory[c] = <<height - 2, c>>
      BY <1>1, <2>2, <3>1 DEF Inv, StoreInv, Taken
    <3>6. /\ iRegMemory[iRegColumnCounter] = <<2 * q, 2 * r + 1>>
          /\ iRegMemory[iRegColumnCounter - 1] = <<2 * q, 2 * r>>
          /\ Sample = <<2 * q + 1, 2 * r + 1>> /\ iRegBlue = <<2 * q + 1, 2 * r>>
      <4>1. /\ height - 2 = 2 * q /\ height - 1 = 2 * q + 1
            /\ width - 1 = 2 * r + 1 /\ width - 2 = 2 * r
        BY <3>2, Sizes
      <4>2. QED BY <3>3, <3>5, <4>1 DEF Sample
    <3>7. q \in Nat
      BY <3>2, Sizes
    <3>8. QED BY <3>2, <3>4, <3>6, <3>7, BinnedCell
  <2>3. QED BY <1>1, <1>3, <2>1, <2>2 DEF Inv, StreamInv
<1>10. QED BY <1>4, <1>5, <1>6, <1>7, <1>8, <1>9, FallTyped DEF Inv

----------------------------------------------------------------------------
(* The rising edge of the pixel clock.                                     *)

(* What the processes on the pixel clock, the generator and the FIFO do.    *)
LEMMA RiseSteps ==
  ASSUME Inv, NEW used \in Nat, Rise(used)
  PROVE  /\ half = "low" /\ half' = "high" /\ ticks \in Nat /\ ticks >= 1 /\ ticks' = 0
         /\ UNCHANGED <<mainVars, fallVars, startBit, stoppedFor, AS_ALL_Start, InFrame>>
         /\ SensorInv' /\ Scanned
         /\ Taken => EvenRow \/ OddRowBlue \/ OddRowGreen
         /\ ~iRegStart \/ iRegPending => ResetColumns
         /\ iRegStart /\ ~iRegPending /\ ~Taken =>
              UNCHANGED <<iRegColumnCounter, iRegRow, iRegColumn>>
         /\ TransferData
         /\ usedWords' = IF AS_ALL_Start THEN used ELSE 0
         /\ expected' = IF AS_ALL_Start /\ CI_FIFO_WriteEnable
                        THEN (expected + 1) % PixelsPerFrame
                        ELSE expected
<1>1. /\ half = "low" /\ half' = "high" /\ ticks \in Nat /\ ticks >= 1 /\ ticks' = 0
      /\ UNCHANGED <<mainVars, fallVars, startBit, stoppedFor, AS_ALL_Start>>
      /\ CountColumns(Sensor!frame_valid, Sensor!line_valid) /\ TransferData
      /\ Sensor!Scan
      /\ usedWords' = IF AS_ALL_Start THEN used ELSE 0
      /\ expected' = IF AS_ALL_Start /\ CI_FIFO_WriteEnable
                     THEN (expected + 1) % PixelsPerFrame
                     ELSE expected
  BY DEF Rise, PixRise, Inv, Typed
<1>2. InFrame' = InFrame
  BY <1>1 DEF mainVars, InFrame
<1>3. SensorInv' /\ Scanned
  BY <1>1, ScanSteps DEF Inv
<1>4. /\ Taken => EvenRow \/ OddRowBlue \/ OddRowGreen
      /\ ~Taken => IF GivenUp THEN ResetColumns
                   ELSE UNCHANGED <<iRegColumnCounter, iRegRow, iRegColumn>>
  BY <1>1, TakenCapturing DEF CountColumns
<1>5. /\ ~iRegStart \/ iRegPending => ResetColumns
      /\ iRegStart /\ ~iRegPending /\ ~Taken =>
           UNCHANGED <<iRegColumnCounter, iRegRow, iRegColumn>>
  BY <1>4 DEF GivenUp, Taken, InFrame
<1>6. QED BY <1>1, <1>2, <1>3, <1>4, <1>5

(* The counters of the interface are ready for the next sample.             *)
LEMMA RiseCounters ==
  ASSUME Inv, NEW used \in Nat, Rise(used)
  PROVE  InFrame => Aligned'
<1>1. SUFFICES ASSUME InFrame PROVE Aligned'
  OBVIOUS
<1>2. Aligned /\ Scanned
  BY <1>1, RiseSteps DEF Inv, CountersInv
<1>3. CASE reg_state # "VALID"
  <2>1. UNCHANGED <<iRegColumnCounter, iRegRow, iRegColumn>>
    BY <1>1, <1>3, RiseSteps DEF Taken, InFrame
  <2>2. reg_state = "LINE_LINE_BLANK" => height \in 1 .. ROWS - 1
    BY DEF Inv, SensorInv
  <2>3. QED BY <1>2, <1>3, <2>1, <2>2, Sizes DEF Aligned, Scanned, InLines
<1>4. CASE reg_state = "VALID"
  <2>1. Taken
    BY <1>1, <1>4 DEF Taken
  <2>2. EvenRow \/ OddRowBlue \/ OddRowGreen
    BY <2>1, RiseSteps
  <2>3. /\ width \in 1 .. COLUMNS /\ height \in 1 .. ROWS /\ iRegColumnCounter = width - 1
        /\ LastColumn <=> width = COLUMNS
    <3>1. width \in 1 .. COLUMNS /\ height \in 1 .. ROWS /\ iRegColumnCounter = width - 1
      BY <2>1, TakenSample
    <3>2. QED BY <3>1, Sizes DEF LastColumn
  <2>4. CASE EvenRow
    BY <1>2, <1>4, <2>3, <2>4, Sizes DEF EvenRow, AdvanceColumn, Aligned, Scanned, InLines
  <2>5. CASE OddRowBlue
    BY <1>2, <1>4, <2>3, <2>5, Sizes DEF OddRowBlue, Aligned, Scanned, InLines
  <2>6. CASE OddRowGreen
    BY <1>2, <1>4, <2>3, <2>6, Sizes DEF OddRowGreen, AdvanceColumn, Aligned, Scanned, InLines
  <2>7. QED BY <2>2, <2>4, <2>5, <2>6
<1>5. QED BY <1>3, <1>4

(* The next cell comes after the last sample of a cell, and only then.      *)
LEMMA CellStep ==
  ASSUME Inv, NEW used \in Nat, Rise(used), InFrame
  PROVE  Cell' = IF CellEnds THEN (Cell + 1) % PixelsPerFrame ELSE Cell
<1>1. Aligned /\ Aligned' /\ Scanned
  BY RiseSteps, RiseCounters DEF Inv, CountersInv
<1>2. CASE reg_state # "VALID"
  <2>1. ~CellEnds /\ UNCHANGED <<CellRow, CellColumn>>
    <3>1. reg_state = "LINE_LINE_BLANK" => height \in 1 .. ROWS - 1
      BY DEF Inv, SensorInv
    <3>2. QED BY <1>1, <1>2, <3>1, Sizes
              DEF CellEnds, CellRow, CellColumn, Scanned, InLines
  <2>2. QED BY <2>1 DEF Cell
<1>3. CASE reg_state = "VALID" /\ iRegRow = 0
  <2>1. /\ width \in 1 .. COLUMNS /\ height \in 1 .. ROWS
        /\ height = 2 * ((height - 1) \div 2) + 1
    BY <1>3, TakenSample DEF Taken
  <2>2. height < ROWS /\ height \div 2 = (height - 1) \div 2
    BY <2>1, Sizes
  <2>3. ~CellEnds /\ UNCHANGED <<CellRow, CellColumn>>
    BY <1>1, <1>3, <2>1, <2>2, Sizes
       DEF CellEnds, CellRow, CellColumn, Scanned, InLines, Aligned
  <2>4. QED BY <2>3 DEF Cell
<1>4. CASE reg_state = "VALID" /\ iRegRow = 1
  <2> DEFINE q == (height - 1) \div 2
             r == (width - 1) \div 2
  <2>1. Taken
    BY <1>4 DEF Taken
  <2>2. /\ q \in 0 .. CellRows - 1 /\ r \in 0 .. CellColumns - 1
        /\ Cell = q * CellColumns + r /\ height = 2 * q + 2
        /\ width = IF iRegColumn = 1 THEN 2 * r + 2 ELSE 2 * r + 1
    BY <1>4, <2>1, TakenCell
  <2>3. iRegColumn \in {0, 1} /\ (CellEnds <=> iRegColumn = 1)
    BY <1>4, <2>1, TakenSample DEF CellEnds
  <2>4. CellRow = q /\ CellColumn = r
    BY <1>4 DEF CellRow, CellColumn
  <2> HIDE DEF q, r
  <2>5. CASE width < COLUMNS
    <3>1. reg_state' = "VALID" /\ width' = width + 1 /\ height' = height
      BY <1>1, <1>4, <2>2, <2>5 DEF Scanned, InLines
    <3>2. iRegRow' = 1
      BY <1>1, <2>2, <3>1, Sizes DEF Aligned
    <3>3. CellRow' = q /\ CellColumn' = IF iRegColumn = 1 THEN r + 1 ELSE r
      BY <2>2, <2>3, <3>1, <3>2, Sizes DEF CellRow, CellColumn
    <3>4. iRegColumn = 1 => r < CellColumns - 1
      BY <2>2, <2>5, Sizes
    <3>5. CASE iRegColumn = 1
      <4>1. (q * CellColumns + r + 1) % PixelsPerFrame = q * CellColumns + (r + 1)
        BY <2>2, <3>4, <3>5, NextCell
      <4>2. QED BY <2>2, <2>3, <3>3, <3>5, <4>1 DEF Cell
    <3>6. CASE iRegColumn = 0
      BY <2>2, <2>3, <3>3, <3>6 DEF Cell
    <3>7. QED BY <2>3, <3>5, <3>6
  <2>6. CASE width = COLUMNS
    <3>1. r = CellColumns - 1 /\ CellEnds
      BY <2>2, <2>3, <2>6, Sizes
    <3>2. CASE height < ROWS
      <4>1. reg_state' = "LINE_LINE_BLANK" /\ height' = height
        BY <1>1, <1>4, <2>6, <3>2, Sizes DEF Scanned, InLines
      <4>2. CellRow' = q + 1 /\ CellColumn' = 0 /\ q < CellRows - 1
        BY <2>2, <3>2, <4>1, Sizes DEF CellRow, CellColumn
      <4>3. (q * CellColumns + r + 1) % PixelsPerFrame = (q + 1) * CellColumns + 0
        BY <2>2, <3>1, <4>2, NextCell
      <4>4. QED BY <2>2, <3>1, <4>2, <4>3 DEF Cell
    <3>3. CASE height = ROWS
      <4>1. ~InLines'
        BY <1>1, <1>4, <2>6, <3>3, Sizes DEF Scanned, InLines
      <4>2. CellRow' = 0 /\ CellColumn' = 0 /\ q = CellRows - 1
        BY <2>2, <3>3, <4>1, Sizes DEF CellRow, CellColumn, InLines
      <4>3. Cell' = 0
        BY <4>2, Sizes DEF Cell
      <4>4. (q * CellColumns + r + 1) % PixelsPerFrame = 0
        BY <2>2, <3>1, <4>2, NextCell
      <4>5. CellEnds /\ Cell = q * CellColumns + r
        BY <2>2, <3>1
      <4>6. QED BY <4>3, <4>4, <4>5
    <3>4. QED BY <2>2, <3>2, <3>3, Sizes
  <2>7. width < COLUMNS \/ width = COLUMNS
    <3>1. width \in 1 .. COLUMNS
      BY <2>1, TakenSample
    <3>2. QED BY <3>1, Sizes
  <2>8. QED BY <2>5, <2>6, <2>7, Zenon
<1>5. QED
  <2>1. reg_state = "VALID" => iRegRow \in {0, 1}
    BY TakenSample DEF Taken
  <2>2. QED BY <1>2, <1>3, <1>4, <2>1

LEMMA RiseTyped ==
  ASSUME Inv, NEW used \in Nat, Rise(used)
  PROVE  Typed'
<1>1. /\ UNCHANGED <<iRegStart, iRegPending, iRegNewFrame, iRegMemory, iRegBlue, iRegRGB,
                     iRegFIFOWrite, startBit, stoppedFor, AS_ALL_Start>>
      /\ half' = "high" /\ ticks' = 0
  BY RiseSteps DEF mainVars, fallVars
<1>2. /\ iRegStart \in BOOLEAN /\ iRegPending \in BOOLEAN /\ iRegNewFrame \in BOOLEAN
      /\ iRegFIFOWrite \in BOOLEAN
  BY DEF Inv, Typed, TypeOK
<1>3. CI_AS_Pending' \in BOOLEAN /\ CI_FIFO_WriteEnable' \in BOOLEAN
  BY <1>2, RiseSteps DEF TransferData
<1>4. CI_FIFO_WriteData' \in Pixels
  <2>1. NoPixel \in Pixels /\ iRegRGB \in Pixels
    BY DEF Inv, Typed, TypeOK, NoPixel, Pixel, Pixels, Samples
  <2>2. QED BY <2>1, RiseSteps DEF TransferData
<1>5. iRegColumnCounter' \in Column /\ iRegRow' \in 0 .. 1 /\ iRegColumn' \in 0 .. 1
  <2>1. /\ iRegColumnCounter \in Column /\ iRegRow \in 0 .. 1 /\ iRegColumn \in 0 .. 1
        /\ 0 \in Column
    BY Sizes DEF Inv, Typed, TypeOK, Column
  <2>2. CASE Taken
    <3>1. /\ width \in 1 .. COLUMNS /\ iRegColumnCounter = width - 1
          /\ iRegRow = 1 /\ iRegColumn = 0 => width = 2 * ((width - 1) \div 2) + 1
      BY <2>2, TakenSample
    <3>2. EvenRow \/ OddRowBlue \/ OddRowGreen
      BY <2>2, RiseSteps
    <3>3. QED BY <2>1, <3>1, <3>2, Sizes
              DEF EvenRow, OddRowBlue, OddRowGreen, AdvanceColumn, LastColumn, Column
  <2>3. CASE ~Taken
    BY <2>1, <2>3, <1>2, RiseSteps DEF ResetColumns
  <2>4. QED BY <2>2, <2>3
<1>6. usedWords' \in Nat /\ expected' \in 0 .. PixelsPerFrame - 1
  <2>1. expected \in 0 .. PixelsPerFrame - 1 /\ PixelsPerFrame \in Nat
    BY FirstCell DEF Inv, Typed
  <2>2. QED BY <2>1, RiseSteps
<1>7. TypeOK'
  <2>1. {iRegStart', iRegPending', iRegNewFrame', CI_FIFO_WriteEnable', CI_AS_Pending',
         iRegFIFOWrite'} \subseteq BOOLEAN
    BY <1>1, <1>2, <1>3
  <2>2. QED BY <1>1, <1>4, <1>5, <2>1 DEF Inv, Typed, TypeOK
<1>8. QED BY <1>1, <1>6, <1>7, Sizes DEF Inv, Typed

LEMMA RiseStore ==
  ASSUME Inv, NEW used \in Nat, Rise(used)
  PROVE  StoreInv'
<1>1. SUFFICES ASSUME InFrame
               PROVE  /\ (reg_state = "VALID" /\ iRegRow = 0)' =>
                           \A c \in Column : c < iRegColumnCounter' =>
                                               iRegMemory[c] = <<height' - 1, c>>
                      /\ (reg_state = "LINE_LINE_BLANK" /\ iRegRow = 1)' =>
                           \A c \in Column : iRegMemory[c] = <<height' - 1, c>>
                      /\ (reg_state = "VALID" /\ iRegRow = 1)' =>
                           \A c \in Column : iRegMemory[c] = <<height' - 2, c>>
                      /\ CellEnds' => iRegBlue = <<height' - 1, width' - 2>>
  BY RiseSteps DEF StoreInv, fallVars
<1>2. Aligned /\ Aligned' /\ Scanned /\ half = "low"
  BY <1>1, RiseSteps, RiseCounters DEF Inv, CountersInv
<1>3. iRegColumnCounter \in Int /\ \A c \in Column : c \in 0 .. COLUMNS - 1
  BY Sizes DEF Inv, Typed, TypeOK, Column
<1>4. CASE reg_state # "VALID"
  <2>1. UNCHANGED <<iRegColumnCounter, iRegRow, iRegColumn>>
    BY <1>1, <1>4, RiseSteps DEF Taken, InFrame
  <2>2. iRegColumnCounter = 0 /\ iRegColumn = 0
    BY <1>2, <1>4 DEF Aligned
  <2>3. reg_state = "LINE_LINE_BLANK" => height \in 1 .. ROWS - 1
    BY DEF Inv, SensorInv
  <2>4. CASE reg_state = "LINE_LINE_BLANK"
    <3>1. iRegRow = 1 => \A c \in Column : iRegMemory[c] = <<height - 1, c>>
      BY <1>1, <2>4 DEF Inv, StoreInv
    <3>2. /\ reg_state' = "LINE_LINE_BLANK" => height' = height
          /\ reg_state' = "VALID" => height' - 2 = height - 1
      BY <1>2, <2>3, <2>4, Sizes DEF Scanned, InLines
    <3>3. QED BY <1>3, <2>1, <2>2, <3>1, <3>2 DEF CellEnds
  <2>5. CASE reg_state # "LINE_LINE_BLANK"
    <3>1. reg_state' # "LINE_LINE_BLANK" /\ iRegRow' = 0
      BY <1>2, <1>4, <2>1, <2>5 DEF Scanned, InLines, Aligned
    <3>2. QED BY <1>3, <2>1, <2>2, <3>1 DEF CellEnds
  <2>6. QED BY <2>4, <2>5
<1>5. CASE reg_state = "VALID" /\ iRegRow = 0
  <2>1. Taken /\ EvenRow
    <3>1. Taken
      BY <1>1, <1>5 DEF Taken
    <3>2. EvenRow \/ OddRowBlue \/ OddRowGreen
      BY <3>1, RiseSteps
    <3>3. QED BY <1>5, <3>1, <3>2 DEF OddRowBlue, OddRowGreen
  <2>2. /\ width \in 1 .. COLUMNS /\ height \in 1 .. ROWS /\ iRegColumnCounter = width - 1
        /\ height = 2 * ((height - 1) \div 2) + 1 /\ iRegColumn = 0
    BY <1>5, <2>1, TakenSample
  <2>3. height < ROWS
    BY <2>2, Sizes
  <2>4. \A c \in Column : c <= iRegColumnCounter => iRegMemory[c] = <<height - 1, c>>
    <3>1. ASSUME NEW c \in Column, c <= iRegColumnCounter
          PROVE  c < iRegColumnCounter \/ c = iRegColumnCounter
      BY <1>3, <3>1
    <3>2. QED BY <1>1, <1>2, <1>5, <3>1 DEF Inv, StoreInv
  <2>5. CASE width < COLUMNS
    <3>1. /\ reg_state' = "VALID" /\ height' = height
          /\ iRegRow' = 0 /\ iRegColumnCounter' = iRegColumnCounter + 1
      BY <1>2, <1>5, <2>1, <2>2, <2>5, Sizes
         DEF Scanned, InLines, EvenRow, AdvanceColumn, LastColumn
    <3>2. ASSUME NEW c \in Column, c < iRegColumnCounter' PROVE c <= iRegColumnCounter
      BY <1>3, <3>1, <3>2
    <3>3. QED BY <2>4, <3>1, <3>2 DEF CellEnds
  <2>6. CASE width = COLUMNS
    <3>1. reg_state' = "LINE_LINE_BLANK" /\ height' = height
      BY <1>2, <1>5, <2>2, <2>3, <2>6, Sizes DEF Scanned, InLines
    <3>2. ASSUME NEW c \in Column PROVE c <= iRegColumnCounter
      BY <1>3, <2>2, <2>6, <3>2, Sizes
    <3>3. QED BY <2>4, <3>1, <3>2 DEF CellEnds
  <2>7. QED BY <2>2, <2>5, <2>6, Sizes
<1>6. CASE reg_state = "VALID" /\ iRegRow = 1
  <2>1. Taken /\ (OddRowBlue \/ OddRowGreen)
    <3>1. Taken
      BY <1>1, <1>6 DEF Taken
    <3>2. EvenRow \/ OddRowBlue \/ OddRowGreen
      BY <3>1, RiseSteps
    <3>3. QED BY <1>6, <3>1, <3>2 DEF EvenRow
  <2>2. /\ width \in 1 .. COLUMNS /\ height \in 1 .. ROWS /\ iRegColumnCounter = width - 1
        /\ iRegColumn = 0 => width = 2 * ((width - 1) \div 2) + 1
    BY <1>6, <2>1, TakenSample
  <2>3. CASE width < COLUMNS
    <3>1. ~LastColumn
      BY <2>2, <2>3, Sizes DEF LastColumn
    <3>2. \A c \in Column : iRegMemory[c] = <<height - 2, c>>
      BY <1>1, <1>6, <3>1 DEF Inv, StoreInv
    <3>3. /\ reg_state' = "VALID" /\ height' = height /\ width' = width + 1
          /\ iRegRow' = 1
      BY <1>2, <1>6, <2>1, <2>2, <2>3, <3>1, Sizes
         DEF Scanned, InLines, OddRowBlue, OddRowGreen
    <3>4. CellEnds' => iRegBlue = <<height - 1, width - 1>> /\ width' - 2 = width - 1
      <4>1. SUFFICES ASSUME CellEnds' PROVE iRegColumn = 0
        BY <1>1, <1>2, <1>6, <2>2, <3>3, Sizes DEF Inv, StoreInv
      <4>2. QED BY <2>1, <4>1 DEF CellEnds, OddRowBlue, OddRowGreen
    <3>5. QED BY <3>2, <3>3, <3>4
  <2>4. CASE width = COLUMNS
    <3>1. OddRowGreen /\ LastColumn
      BY <2>1, <2>2, <2>4, Sizes DEF OddRowBlue, LastColumn
    <3>2. iRegRow' = 0 /\ reg_state' # "VALID"
      BY <1>2, <1>6, <2>2, <2>4, <3>1, Sizes DEF OddRowGreen, Scanned, InLines
    <3>3. QED BY <3>2 DEF CellEnds
  <2>5. QED BY <2>2, <2>3, <2>4, Sizes
<1>7. QED
  <2>1. reg_state = "VALID" => iRegRow \in {0, 1}
    BY <1>1, TakenSample DEF Taken
  <2>2. QED BY <1>4, <1>5, <1>6, <2>1

LEMMA RiseInv ==
  ASSUME Inv, NEW used \in Nat, Rise(used)
  PROVE  Inv'
<1>1. /\ half = "low" /\ half' = "high" /\ ticks \in Nat /\ ticks >= 1 /\ ticks' = 0
      /\ UNCHANGED <<iRegStart, iRegPending, iRegNewFrame, iRegFIFOWrite, iRegRGB, startBit,
                     stoppedFor, AS_ALL_Start, InFrame>>
      /\ CI_AS_Pending' = iRegPending
      /\ CI_FIFO_WriteEnable' = (~iRegPending /\ iRegFIFOWrite)
      /\ usedWords' = IF AS_ALL_Start THEN used ELSE 0
      /\ expected' = IF AS_ALL_Start /\ CI_FIFO_WriteEnable
                     THEN (expected + 1) % PixelsPerFrame
                     ELSE expected
  BY RiseSteps DEF mainVars, fallVars, TransferData
<1>2. /\ startBit \in BOOLEAN /\ AS_ALL_Start \in BOOLEAN /\ iRegStart \in BOOLEAN
      /\ iRegPending \in BOOLEAN /\ iRegNewFrame \in BOOLEAN /\ CI_AS_Pending \in BOOLEAN
      /\ CI_FIFO_WriteEnable \in BOOLEAN /\ iRegFIFOWrite \in BOOLEAN
      /\ ticks <= MaxTicks /\ stoppedFor \in Nat /\ usedWords \in Nat
  BY Sizes DEF Inv, Typed, TypeOK
<1>3. /\ ~iRegStart \/ iRegPending => Fresh'
      /\ iRegStart /\ ~iRegPending /\ ~iRegNewFrame => Fresh' = Fresh
  BY RiseSteps DEF ResetColumns, Fresh, Taken, InFrame
<1>4. CountersInv'
  BY <1>1, <1>2, <1>3, RiseCounters DEF Inv, CountersInv, InFrame
<1>5. PendingInv'
  BY <1>1, <1>2, <1>3 DEF Inv, PendingInv, InFrame
<1>6. StopInv'
  BY <1>1, <1>2, <1>3, Sizes DEF Inv, StopInv, SinceRise, SinceFall
<1>7. QuietInv'
  BY <1>1, <1>2 DEF Inv, QuietInv, PendingInv
<1>8. StreamInv'
  <2>1. AS_ALL_Start /\ InFrame =>
          /\ expected' = Cell
          /\ CI_FIFO_WriteEnable' <=> CellEnds
          /\ CellEnds => iRegRGB = Binned(Cell)
    BY <1>1, <1>2 DEF Inv, StreamInv, InFrame
  <2>2. AS_ALL_Start /\ InFrame =>
          Cell' = IF CI_FIFO_WriteEnable' THEN (expected' + 1) % PixelsPerFrame ELSE expected'
    BY <2>1, CellStep
  <2>3. AS_ALL_Start /\ CI_FIFO_WriteEnable' => InFrame
    BY <1>1, <1>2 DEF Inv, QuietInv, InFrame
  <2>4. AS_ALL_Start /\ CI_FIFO_WriteEnable' => CI_FIFO_WriteData' = Binned(expected')
    <3>1. CI_FIFO_WriteEnable' => CI_FIFO_WriteData' = iRegRGB
      BY RiseSteps DEF TransferData
    <3>2. QED BY <2>1, <2>3, <3>1
  <2>5. StreamInOrder'
    BY <1>1, <2>4 DEF StreamInOrder, Binned
  <2>6. AS_ALL_Start /\ InFrame /\ CI_FIFO_WriteEnable' => ~CellEnds'
    <3>1. SUFFICES ASSUME InFrame, CellEnds PROVE ~CellEnds'
      BY <2>1
    <3>2. Taken
      BY <3>1 DEF Taken, CellEnds
    <3>3. EvenRow \/ OddRowBlue \/ OddRowGreen
      BY <3>2, RiseSteps
    <3>4. QED BY <3>1, <3>3 DEF CellEnds, EvenRow, OddRowBlue, OddRowGreen
  <2>7. QED BY <1>1, <2>2, <2>5, <2>6 DEF StreamInv
<1>9. QED BY <1>4, <1>5, <1>6, <1>7, <1>8, RiseSteps, RiseTyped, RiseStore DEF Inv

----------------------------------------------------------------------------
(* The theorems about the chain.                                           *)

LEMMA NextInv == Inv /\ [Next]_chainVars => Inv'
<1> SUFFICES ASSUME Inv, [Next]_chainVars PROVE Inv'
  OBVIOUS
<1>1. CASE UNCHANGED chainVars
  BY <1>1
     DEF chainVars, interfaceVars, mainVars, riseVars, fallVars, scanVars, Inv, Typed, TypeOK,
         SensorInv, CountersInv, PendingInv, StopInv, QuietInv, StoreInv, StreamInv,
         InFrame, Fresh, Aligned, SinceRise, SinceFall, Cell, CellRow, CellColumn, CellEnds,
         LastColumn, StreamInOrder
<1>2. ASSUME NEW used \in {0, Threshold + 1}, Rise(used) PROVE Inv'
  BY <1>2, RiseInv, Sizes
<1>3. QED BY <1>1, <1>2, TickInv, FallInv DEF Next

LEMMA InvAlways == Spec => []Inv
BY InitInv, NextInv, PTL DEF Spec

(* The registers of Camera_Interface hold what their declarations say; the  *)
(* column counter and its predecessor index the row memory.                 *)
THEOREM TypeCorrect == Spec => []TypeOK
<1>1. Inv => TypeOK
  BY DEF Inv, Typed
<1>2. QED BY <1>1, InvAlways, PTL

(* Counters of the interface, one edge behind the generator's on a clock    *)
(* edge of their own, point to the sample on the bus whenever one is taken. *)
THEOREM CountersFollowSensorCorrect == Spec => []CountersFollowSensor
<1>1. Inv => CountersFollowSensor
  <2>1. ASSUME Inv, Taken
        PROVE  /\ iRegColumnCounter = width - 1 /\ iRegRow = (height - 1) % 2
               /\ iRegRow = 1 => iRegColumn = (width - 1) % 2
    BY <2>1, TakenSample DEF Aligned, Taken
  <2>2. QED BY <2>1, TakenCapturing DEF CountersFollowSensor
<1>2. QED BY <1>1, InvAlways, PTL

(* Whatever the sizes of the frame and of the blanks, wherever in a frame   *)
(* Start rises, and whenever the level of the FIFO makes the interface give *)
(* a frame up: from each clear of the FIFO on it gets whole frames, pixel   *)
(* after pixel, each computed from its own Bayer cell.                      *)
THEOREM StreamInOrderCorrect == Spec => []StreamInOrder
<1>1. Inv => StreamInOrder
  BY DEF Inv, StreamInv
<1>2. QED BY <1>1, InvAlways, PTL


----------------------------------------------------------------------------
(* The invariant of the controller.                                        *)

Length == Value(FrameLength)

(* The values that iRegCounterAddress may take. *)
Bursts == {b * ADDR_INCREMENT : b \in 0 .. Length \div ADDR_INCREMENT - 1}

(* Pixels of the frame that the memory has. *)
Stored == iRegCounterAddress \div PixelBytes + 2 * iRegBurstCount

MasterInv ==
  /\ iRegStateSM \in {"WAITDATA", "BEGINTRANSFER", "BURST"}
  /\ iRegStateSM = "BURST" => iRegBurstCount \in 1 .. BURSTCOUNT_LENGTH - 1
  /\ iRegStateSM # "BURST" => iRegBurstCount = 0
  /\ iRegCounterAddress \in Bursts
  /\ ~AS_ALL_Start => Master!MasterInit

FifoInv ==
  /\ queue \in Seq(Pixels)
  /\ unseenReads \in Nat
  /\ unseenWrites \in 0 .. Len(queue)
  /\ usedWords = Fifo!FIFO_CI_UsedWords
  /\ ~AS_ALL_Start => Fifo!FifoInit

(* A change of buffer is on its way to the master only before a frame, and  *)
(* the edge detector is armed again before the next frame can end.          *)
RegistersInv ==
  /\ iRegStartAddress = StartAddress
  /\ iRegLength = FrameLength /\ AS_AM_Length = FrameLength
  /\ nextBuffer \in 0 .. 2 /\ prevStatus \in BOOLEAN
  /\ iRegBufferAddress = Slave!BufferStart(StartAddress, nextBuffer)
  /\ AS_AM_StartAddress = iRegBufferAddress
       \/ (iRegStateSM = "WAITDATA" /\ iRegCounterAddress = 0)
  /\ prevStatus => iRegStateSM = "WAITDATA" \/ (iRegStateSM = "BEGINTRANSFER" /\ wrote)

(* One pixel at most comes after the level has passed the threshold.        *)
RoomInv ==
  /\ Fifo!WriteSideFill <= Threshold + 1
  /\ Fifo!WriteSideFill > Threshold =>
       /\ ~CI_FIFO_WriteEnable
       /\ iRegPending \/ (half = "high" /\ ticks = 0)

(* The words that a burst still needs are in the FIFO. *)
BurstInv ==
  iRegStateSM # "WAITDATA" => Fifo!ReadSideWords >= BURSTCOUNT_LENGTH - iRegBurstCount

(* The FIFO holds the pixels that follow the stored ones. *)
QueueInv ==
  /\ expected = (Stored + Len(queue)) % PixelsPerFrame
  /\ \A i \in 1 .. Len(queue) : queue[i] = Binned((Stored + i - 1) % PixelsPerFrame)

(* The first n pixels of a frame in buffer k, and nothing else. *)
FirstPixels(k, n) ==
  [a \in {BufferBase(k) + PixelBytes * i : i \in 0 .. n - 1} |->
     Binned((a - BufferBase(k)) \div PixelBytes)]

PassInv ==
  /\ Stored > 0 => pass = FirstPixels(nextBuffer, Stored)
  /\ iRegStateSM = "BURST" => burstAddress = BufferBase(nextBuffer) + iRegCounterAddress

ControllerInv ==
  /\ Inv
  /\ MasterInv /\ FifoInv /\ RegistersInv /\ RoomInv /\ BurstInv /\ QueueInv /\ PassInv

----------------------------------------------------------------------------
(* The numbers of the configuration.                                       *)

LEMMA Numbers ==
  /\ Capacity \in Nat /\ Capacity % 2 = 0
  /\ Threshold \in Nat /\ Threshold + 1 < Capacity
  /\ BURSTCOUNT_LENGTH \in Nat /\ BURSTCOUNT_LENGTH >= 2
  /\ ADDR_INCREMENT = 4 * BURSTCOUNT_LENGTH
  /\ PixelsPerFrame \in Nat /\ PixelsPerFrame >= 1
  /\ Length = 2 * PixelsPerFrame
<1>1. PixelsPerFrame \in Nat /\ PixelsPerFrame >= 1
  BY FirstCell
<1>2. Length = 2 * PixelsPerFrame
  BY BufferAssumption DEF Length, PixelBytes
<1>3. QED BY <1>1, <1>2, ControllerAssumption, InterfaceAssumption

LEMMA Buffers ==
  /\ AddressSpace \in Int /\ Length <= AddressSpace
  /\ \A k \in 0 .. 2 : BufferBase(k) \in Nat /\ BufferBase(k) + Length <= AddressSpace
<1>1. AddressSpace \in Int
  <2>1. PICK n \in Nat : n = ByteBase * ByteBase
    BY ControllerAssumption
  <2>2. PICK m \in Nat : m = n * ByteBase
    BY ControllerAssumption
  <2>3. m * ByteBase \in Int
    BY <2>2, ControllerAssumption
  <2>4. QED BY <2>1, <2>2, <2>3 DEF AddressSpace
<1>2. Length \in Nat
  BY Numbers
<1>3. \A k \in 0 .. 2 : BufferBase(k) \in 0 .. AddressSpace - Length
  BY BufferAssumption DEF Length
<1>4. \A k \in 0 .. 2 : BufferBase(k) \in Nat /\ BufferBase(k) + Length <= AddressSpace
  BY <1>1, <1>2, <1>3
<1>5. QED BY <1>1, <1>2, <1>4

(* A burst ends inside the frame, and the next one, too, unless it was the  *)
(* last.                                                                   *)
LEMMA BurstSteps ==
  /\ 0 \in Bursts
  /\ \A c \in Bursts :
       /\ \E n \in Nat : c = 4 * n
       /\ c + ADDR_INCREMENT <= Length
       /\ c + ADDR_INCREMENT < Length => c + ADDR_INCREMENT \in Bursts
<1>1. ADDR_INCREMENT \in Nat /\ ADDR_INCREMENT >= 8 /\ Length \in Nat /\ Length >= 1
  BY Numbers
<1>2. PICK n \in Nat : n = Length \div ADDR_INCREMENT
  BY <1>1
<1>3. Length = n * ADDR_INCREMENT
  BY <1>1, <1>2, BufferAssumption DEF Length
<1>4. n >= 1
  BY <1>1, <1>3
<1>5. 0 \in Bursts
  <2>1. 0 = 0 * ADDR_INCREMENT /\ 0 \in 0 .. n - 1
    BY <1>1, <1>4
  <2>2. QED BY <1>2, <2>1 DEF Bursts
<1>6. ASSUME NEW c \in Bursts
      PROVE  /\ \E m \in Nat : c = 4 * m
             /\ c + ADDR_INCREMENT <= Length
             /\ c + ADDR_INCREMENT < Length => c + ADDR_INCREMENT \in Bursts
  <2>1. PICK b \in 0 .. n - 1 : c = b * ADDR_INCREMENT
    BY <1>2 DEF Bursts
  <2>2. PICK m \in Nat : m = b * BURSTCOUNT_LENGTH
    BY Numbers
  <2>3. c = 4 * m
    BY <2>1, <2>2, Numbers
  <2>4. c + ADDR_INCREMENT <= Length
    BY <1>1, <1>3, <2>1, Product
  <2>5. c + ADDR_INCREMENT = (b + 1) * ADDR_INCREMENT
    BY <1>1, <2>1
  <2>6. b + 1 = n => c + ADDR_INCREMENT = Length
    BY <1>3, <2>5
  <2>7. ASSUME c + ADDR_INCREMENT < Length PROVE c + ADDR_INCREMENT \in Bursts
    <3>1. b + 1 \in 0 .. n - 1
      BY <2>3, <2>6, <2>7, <1>1
    <3>2. QED BY <1>2, <2>5, <3>1 DEF Bursts
  <2>8. QED BY <2>3, <2>4, <2>7
<1>7. QED BY <1>5, <1>6

(* Counting modulo p. *)
LEMMA Modulo ==
  ASSUME NEW p \in Nat \ {0}, NEW n \in Nat
  PROVE  /\ (p + n) % p = n % p
         /\ ((n % p) + 1) % p = (n + 1) % p
         /\ n < p => n % p = n
         /\ n % p <= n
<1>1. PICK d \in Nat : d = n \div p
  OBVIOUS
<1>2. PICK m \in 0 .. p - 1 : m = n % p
  OBVIOUS
<1>3. n = d * p + m
  BY <1>1, <1>2
<1>4. (d + 1) * p = d * p + p
  OBVIOUS
<1>5. (p + n) % p = m
  <2>1. p + n = (d + 1) * p + m
    BY <1>3, <1>4
  <2>2. ((d + 1) * p + m) % p = m
    <3>1. d + 1 \in Nat
      OBVIOUS
    <3>2. QED BY <3>1, DivMod
  <2>3. QED BY <2>1, <2>2
<1>6. (m + 1) % p = (n + 1) % p
  <2>1. CASE m + 1 < p
    <3>1. n + 1 = d * p + (m + 1)
      BY <1>3
    <3>2. (d * p + (m + 1)) % p = m + 1
      BY <2>1, DivMod
    <3>3. (0 * p + (m + 1)) % p = m + 1
      BY <2>1, DivMod
    <3>4. QED BY <3>1, <3>2, <3>3
  <2>2. CASE m + 1 = p
    <3>1. n + 1 = (d + 1) * p + 0 /\ m + 1 = 1 * p + 0
      BY <1>3, <1>4, <2>2
    <3>2. ((d + 1) * p + 0) % p = 0 /\ (1 * p + 0) % p = 0
      BY DivMod
    <3>3. QED BY <3>1, <3>2
  <2>3. QED BY <2>1, <2>2
<1>7. n < p => n % p = n
  <2>1. 0 * p + n = n
    OBVIOUS
  <2>2. QED BY <2>1, DivMod
<1>8. m <= n
  BY <1>2, <1>7
<1>9. QED BY <1>2, <1>5, <1>6, <1>7, <1>8

----------------------------------------------------------------------------
(* The master: what a rising edge of the main clock does to it.             *)

Running == AS_ALL_Start /\ AS_ALL_Start'
LastOfFrame == iRegCounterAddress + ADDR_INCREMENT = Length

(* One edge, by what the memory got. *)
NoWord ==
  /\ iRegCounterAddress' = iRegCounterAddress /\ iRegBurstCount' = iRegBurstCount
  /\ \/ iRegStateSM' = iRegStateSM
     \/ /\ iRegStateSM = "WAITDATA" /\ iRegStateSM' = "BEGINTRANSFER"
        /\ Fifo!ReadSideWords >= BURSTCOUNT_LENGTH
OneWord ==
  /\ iRegStateSM \in {"BEGINTRANSFER", "BURST"}
  /\ iRegBurstCount < BURSTCOUNT_LENGTH - 1
  /\ iRegStateSM' = "BURST"
  /\ iRegCounterAddress' = iRegCounterAddress /\ iRegBurstCount' = iRegBurstCount + 1
EndOfBurst ==
  /\ iRegStateSM = "BURST" /\ iRegBurstCount = BURSTCOUNT_LENGTH - 1
  /\ iRegStateSM' = "WAITDATA" /\ iRegBurstCount' = 0
  /\ iRegCounterAddress' = IF LastOfFrame THEN 0 ELSE iRegCounterAddress + ADDR_INCREMENT

LEMMA FrameLengthFacts ==
  ASSUME MasterInv, RegistersInv, NEW wait \in BOOLEAN
  PROVE  /\ Master!LastBurst(Value(AS_AM_Length)) <=> LastOfFrame
         /\ ~LastOfFrame =>
              (iRegCounterAddress + ADDR_INCREMENT) % AddressSpace
                = iRegCounterAddress + ADDR_INCREMENT
<1>1. Value(AS_AM_Length) = Length
  BY DEF RegistersInv, Length
<1>2. PICK n \in Nat : iRegCounterAddress = 4 * n
  BY BurstSteps DEF MasterInv
<1>3. iRegCounterAddress + ADDR_INCREMENT <= Length
  BY BurstSteps DEF MasterInv
<1>4. ADDR_INCREMENT \in Nat /\ ADDR_INCREMENT >= 8 /\ Length \in Nat
  BY Numbers
<1>5. AddressSpace \in Nat \ {0} /\ Length <= AddressSpace
  BY <1>2, <1>3, <1>4, Buffers
<1>6. (Length - ADDR_INCREMENT) % AddressSpace = Length - ADDR_INCREMENT
  <2>1. Length - ADDR_INCREMENT \in Nat /\ Length - ADDR_INCREMENT < AddressSpace
    BY <1>2, <1>3, <1>4, <1>5
  <2>2. QED BY <1>5, <2>1, Modulo
<1>7. Master!LastBurst(Value(AS_AM_Length)) <=> LastOfFrame
  BY <1>1, <1>2, <1>4, <1>6 DEF Master!LastBurst, LastOfFrame
<1>8. ASSUME ~LastOfFrame
      PROVE (iRegCounterAddress + ADDR_INCREMENT) % AddressSpace
                = iRegCounterAddress + ADDR_INCREMENT
  <2>1. /\ iRegCounterAddress + ADDR_INCREMENT \in Nat
        /\ iRegCounterAddress + ADDR_INCREMENT < AddressSpace
    BY <1>2, <1>3, <1>4, <1>5, <1>8 DEF LastOfFrame
  <2>2. QED BY <1>5, <2>1, Modulo
<1>9. QED BY <1>7, <1>8

LEMMA MasterSteps ==
  ASSUME MasterInv, FifoInv, RegistersInv, NEW wait \in BOOLEAN, ControllerTick(wait)
  PROVE  /\ Running =>
              IF Sig_ReadCheck(wait) THEN OneWord \/ EndOfBurst ELSE NoWord
         /\ ~Running => /\ iRegStateSM' = "WAITDATA"
                        /\ iRegCounterAddress' = 0 /\ iRegBurstCount' = 0
         /\ Sig_ReadCheck(wait) <=> iRegStateSM \in {"BEGINTRANSFER", "BURST"} /\ ~wait
         /\ Sig_Status(wait) <=> /\ iRegStateSM = "BURST" /\ ~wait
                                 /\ iRegBurstCount = BURSTCOUNT_LENGTH - 1
                                 /\ LastOfFrame
<1>1. Master!MasterEdge(AS_ALL_Start, AS_ALL_Start', Fifo!FIFO_AM_UsedWords, wait,
                        Value(AS_AM_Length))
  BY DEF ControllerTick
<1>2. /\ Master!LastBurst(Value(AS_AM_Length)) <=> LastOfFrame
      /\ ~LastOfFrame =>
           (iRegCounterAddress + ADDR_INCREMENT) % AddressSpace
             = iRegCounterAddress + ADDR_INCREMENT
  BY FrameLengthFacts
<1>3. Sig_ReadCheck(wait) <=> iRegStateSM \in {"BEGINTRANSFER", "BURST"} /\ ~wait
  BY DEF Sig_ReadCheck, Master!ReadCheck, Master!WriteAccess
<1>4. Master!BurstEnd(wait) <=> iRegStateSM = "BURST" /\ ~wait
                                /\ iRegBurstCount = BURSTCOUNT_LENGTH - 1
  BY DEF Master!BurstEnd
<1>5. Sig_Status(wait) <=> /\ iRegStateSM = "BURST" /\ ~wait
                           /\ iRegBurstCount = BURSTCOUNT_LENGTH - 1
                           /\ LastOfFrame
  BY <1>2, <1>4 DEF Sig_Status, Master!AM_AS_Status
<1>6. ASSUME ~Running
      PROVE  iRegStateSM' = "WAITDATA" /\ iRegCounterAddress' = 0 /\ iRegBurstCount' = 0
  BY <1>1, <1>6 DEF Running, Master!MasterEdge, Master!Abort, Master!Cleared
<1>7. ASSUME Running
      PROVE  IF Sig_ReadCheck(wait) THEN OneWord \/ EndOfBurst ELSE NoWord
  <2>1. Master!ClockEdge(Fifo!FIFO_AM_UsedWords, wait, Value(AS_AM_Length))
    BY <1>1, <1>7 DEF Running, Master!MasterEdge
  <2>2. CASE Master!StartBurst(Fifo!FIFO_AM_UsedWords)
    <3>1. /\ iRegStateSM = "WAITDATA" /\ iRegStateSM' = "BEGINTRANSFER"
          /\ iRegCounterAddress' = iRegCounterAddress /\ iRegBurstCount' = iRegBurstCount
          /\ ~(Fifo!FIFO_AM_UsedWords < BURSTCOUNT_LENGTH)
      BY <2>2 DEF Master!StartBurst, Master!AlmostEmpty
    <3>2. Fifo!ReadSideWords >= BURSTCOUNT_LENGTH
      <4>1. PICK k \in Nat : k = Len(queue) - unseenWrites
        BY DEF FifoInv
      <4>2. Fifo!ReadSideWords = k \div 2 /\ k \div 2 \in Nat
        BY <4>1 DEF Fifo!ReadSideWords
      <4>3. PICK h \in Nat \ {0} : h = Capacity \div 2
        BY Numbers
      <4>4. (k \div 2) % h <= k \div 2
        BY <4>2, <4>3, Modulo
      <4>5. (k \div 2) % h >= BURSTCOUNT_LENGTH
        BY <3>1, <4>2, <4>3, Numbers DEF Fifo!FIFO_AM_UsedWords
      <4>6. QED BY <4>2, <4>3, <4>4, <4>5, Numbers
    <3>3. QED BY <1>3, <3>1, <3>2 DEF NoWord
  <2>3. CASE Master!FirstWord(wait)
    <3>1. iRegBurstCount = 0
      BY <2>3 DEF MasterInv, Master!FirstWord
    <3>2. QED BY <1>3, <2>3, <3>1, Numbers DEF Master!FirstWord, OneWord
  <2>4. CASE Master!NextWord(wait)
    <3>1. iRegBurstCount \in 1 .. BURSTCOUNT_LENGTH - 1
      BY <2>4 DEF MasterInv, Master!NextWord
    <3>2. QED BY <1>3, <1>4, <2>4, <3>1, Numbers DEF Master!NextWord, OneWord
  <2>5. CASE Master!LastWord(wait, Value(AS_AM_Length))
    BY <1>2, <1>3, <1>4, <2>5 DEF Master!LastWord, EndOfBurst
  <2>6. CASE Master!Stay(Fifo!FIFO_AM_UsedWords, wait)
    BY <1>3, <2>6 DEF Master!Stay, Master!masterVars, Master!WriteAccess, NoWord
  <2>7. QED BY <2>1, <2>2, <2>3, <2>4, <2>5, <2>6 DEF Master!ClockEdge
<1>8. QED BY <1>3, <1>5, <1>6, <1>7

LEMMA MasterTick ==
  ASSUME MasterInv, FifoInv, RegistersInv, NEW wait \in BOOLEAN, ControllerTick(wait)
  PROVE  MasterInv'
<1>1. CASE ~Running
  BY <1>1, MasterSteps, BurstSteps DEF MasterInv, Master!MasterInit, Master!Cleared, Bursts,
     Length
<1>2. CASE Running /\ NoWord
  BY <1>2 DEF Running, NoWord, MasterInv, Bursts, Length, Value
<1>3. CASE Running /\ OneWord
  <2>1. iRegBurstCount \in 0 .. BURSTCOUNT_LENGTH - 2
    BY <1>3, Numbers DEF MasterInv, OneWord
  <2>2. iRegBurstCount' \in 1 .. BURSTCOUNT_LENGTH - 1
    BY <1>3, <2>1, Numbers DEF OneWord
  <2>3. QED BY <1>3, <2>2 DEF Running, OneWord, MasterInv, Bursts, Length, Value
<1>4. CASE Running /\ EndOfBurst
  <2>1. iRegCounterAddress' \in Bursts
    <3>1. ~LastOfFrame => iRegCounterAddress + ADDR_INCREMENT < Length
      <4>1. PICK n \in Nat : iRegCounterAddress = 4 * n
        BY BurstSteps DEF MasterInv
      <4>2. iRegCounterAddress + ADDR_INCREMENT <= Length
        BY BurstSteps DEF MasterInv
      <4>3. QED BY <4>1, <4>2, Numbers DEF LastOfFrame
    <3>2. QED BY <1>4, <3>1, BurstSteps DEF EndOfBurst, MasterInv
  <2>2. QED BY <1>4, <2>1 DEF Running, EndOfBurst, MasterInv, Bursts, Length, Value
<1>5. QED BY <1>1, <1>2, <1>3, <1>4, MasterSteps

(* The pixels in the memory: two more with each word, until the frame ends. *)
LEMMA StoredRange ==
  ASSUME MasterInv
  PROVE  /\ Stored \in Nat /\ Stored + 2 <= PixelsPerFrame
         /\ Stored = 0 => iRegCounterAddress = 0 /\ iRegBurstCount = 0
         /\ ~AS_ALL_Start => Stored = 0
         /\ PixelBytes * Stored = iRegCounterAddress + WordBytes * iRegBurstCount
<1>1. PICK n \in Nat : iRegCounterAddress = 4 * n
  BY BurstSteps DEF MasterInv
<1>2. iRegCounterAddress + ADDR_INCREMENT <= Length
  BY BurstSteps DEF MasterInv
<1>3. iRegBurstCount \in 0 .. BURSTCOUNT_LENGTH - 1
  BY Numbers DEF MasterInv
<1>4. Stored = 2 * n + 2 * iRegBurstCount
  BY <1>1, <1>3 DEF Stored, PixelBytes
<1>5. ~AS_ALL_Start => iRegCounterAddress = 0 /\ iRegBurstCount = 0
  BY DEF MasterInv, Master!MasterInit, Master!Cleared
<1>6. QED BY <1>1, <1>2, <1>3, <1>4, <1>5, Numbers DEF PixelBytes, WordBytes

LEMMA StoredSteps ==
  ASSUME MasterInv, FifoInv, RegistersInv, NEW wait \in BOOLEAN, ControllerTick(wait)
  PROVE  /\ ~Running => Stored' = 0
         /\ Running /\ ~Sig_ReadCheck(wait) => Stored' = Stored
         /\ Running /\ Sig_ReadCheck(wait) =>
              Stored' = IF Stored + 2 = PixelsPerFrame THEN 0 ELSE Stored + 2
         /\ Sig_Status(wait) => Stored + 2 = PixelsPerFrame
<1>1. PICK n \in Nat : iRegCounterAddress = 4 * n
  BY BurstSteps DEF MasterInv
<1>2. iRegCounterAddress + ADDR_INCREMENT <= Length
  BY BurstSteps DEF MasterInv
<1>3. iRegBurstCount \in 0 .. BURSTCOUNT_LENGTH - 1
  BY Numbers DEF MasterInv
<1>4. Stored = 2 * n + 2 * iRegBurstCount
  BY <1>1, <1>3 DEF Stored, PixelBytes
<1>5. /\ 4 * n + 4 * BURSTCOUNT_LENGTH <= 2 * PixelsPerFrame
      /\ LastOfFrame <=> 4 * n + 4 * BURSTCOUNT_LENGTH = 2 * PixelsPerFrame
  BY <1>1, <1>2, Numbers DEF LastOfFrame
<1>6. CASE ~Running
  <2>1. iRegCounterAddress' = 0 /\ iRegBurstCount' = 0
    BY <1>6, MasterSteps
  <2>2. Stored' = 0
    BY <2>1 DEF Stored, PixelBytes
  <2>3. Sig_Status(wait) => Stored + 2 = PixelsPerFrame
    BY <1>3, <1>4, <1>5, Numbers, MasterSteps
  <2>4. QED BY <1>6, <2>2, <2>3
<1>7. CASE Running
  <2>1. NoWord => Stored' = Stored
    BY DEF NoWord, Stored
  <2>2. OneWord => Stored' = Stored + 2 /\ Stored + 2 < PixelsPerFrame
    <3>1. SUFFICES ASSUME OneWord PROVE Stored' = Stored + 2 /\ Stored + 2 < PixelsPerFrame
      OBVIOUS
    <3>2. iRegCounterAddress' = 4 * n /\ iRegBurstCount' = iRegBurstCount + 1
      BY <1>1, <3>1 DEF OneWord
    <3>3. Stored' = 2 * n + 2 * (iRegBurstCount + 1)
      BY <1>3, <3>2 DEF Stored, PixelBytes
    <3>4. iRegBurstCount < BURSTCOUNT_LENGTH - 1
      BY <3>1 DEF OneWord
    <3>5. QED BY <1>3, <1>4, <1>5, <3>3, <3>4, Numbers
  <2>3. EndOfBurst => Stored' = IF Stored + 2 = PixelsPerFrame THEN 0 ELSE Stored + 2
    <3>1. SUFFICES ASSUME EndOfBurst
                   PROVE  Stored' = IF Stored + 2 = PixelsPerFrame THEN 0 ELSE Stored + 2
      OBVIOUS
    <3>2. iRegBurstCount = BURSTCOUNT_LENGTH - 1 /\ iRegBurstCount' = 0
      BY <3>1 DEF EndOfBurst
    <3>3. Stored + 2 = 2 * n + 2 * BURSTCOUNT_LENGTH
      BY <1>4, <3>2, Numbers
    <3>4. Stored + 2 = PixelsPerFrame <=> LastOfFrame
      BY <1>5, <3>3, Numbers
    <3>5. CASE LastOfFrame
      <4>1. iRegCounterAddress' = 0
        BY <3>1, <3>5 DEF EndOfBurst
      <4>2. QED BY <3>2, <3>4, <3>5, <4>1 DEF Stored, PixelBytes
    <3>6. CASE ~LastOfFrame
      <4>1. iRegCounterAddress' = 4 * (n + BURSTCOUNT_LENGTH)
        BY <1>1, <3>1, <3>6, Numbers DEF EndOfBurst
      <4>2. Stored' = 2 * (n + BURSTCOUNT_LENGTH)
        BY <3>2, <4>1, Numbers DEF Stored, PixelBytes
      <4>3. QED BY <3>3, <3>4, <3>6, <4>2, Numbers
    <3>7. QED BY <3>5, <3>6
  <2>4. Sig_Status(wait) => Stored + 2 = PixelsPerFrame
    BY <1>3, <1>4, <1>5, Numbers, MasterSteps
  <2>5. Stored + 2 < PixelsPerFrame => Stored + 2 # PixelsPerFrame
    BY <1>4, <1>3, Numbers
  <2>6. QED BY <1>7, <2>1, <2>2, <2>3, <2>4, <2>5, MasterSteps
<1>8. QED BY <1>6, <1>7

----------------------------------------------------------------------------
(* The register file.                                                      *)

LEMMA RegisterSteps ==
  ASSUME RegistersInv, MasterInv, FifoInv, NEW wait \in BOOLEAN, ControllerTick(wait)
  PROVE  /\ iRegStartAddress' = iRegStartAddress /\ iRegLength' = iRegLength
         /\ AS_AM_StartAddress' = iRegBufferAddress /\ AS_AM_Length' = iRegLength
         /\ \/ /\ ~wrote /\ wrote' = TRUE
               /\ UNCHANGED <<iRegBufferAddress, prevStatus, nextBuffer>>
            \/ /\ wrote' = FALSE
               /\ \/ /\ Sig_Status(wait) /\ ~prevStatus /\ prevStatus' = TRUE
                     /\ nextBuffer \notin iRegStatus
                     /\ iRegStatus' = iRegStatus \cup {nextBuffer}
                     /\ nextBuffer' = (nextBuffer + 1) % 3
                     /\ iRegBufferAddress' = Slave!BufferStart(StartAddress, nextBuffer')
                  \/ /\ Sig_Status(wait) /\ ~prevStatus /\ prevStatus' = TRUE
                     /\ nextBuffer \in iRegStatus
                     /\ UNCHANGED <<iRegBufferAddress, nextBuffer>>
                  \/ /\ ~Sig_Status(wait) /\ prevStatus' = FALSE
                     /\ UNCHANGED <<iRegBufferAddress, nextBuffer>>
                  \/ /\ Sig_Status(wait) /\ prevStatus
                     /\ UNCHANGED <<iRegBufferAddress, nextBuffer, prevStatus>>
<1>1. /\ Slave!UpdateOutput(CI_AS_Pending)
      /\ \/ ProgramWrite /\ wrote' = TRUE
         \/ Slave!RingStep(Sig_Status(wait)) /\ wrote' = FALSE
  BY DEF ControllerTick, RegisterFile
<1>2. AS_AM_StartAddress' = iRegBufferAddress /\ AS_AM_Length' = iRegLength
  BY <1>1 DEF Slave!UpdateOutput
<1>3. iRegStartAddress = StartAddress /\ prevStatus \in BOOLEAN
  BY DEF RegistersInv
<1>4. CASE ProgramWrite /\ wrote' = TRUE
  <2>1. /\ ~wrote
        /\ UNCHANGED <<iRegStartAddress, iRegBufferAddress, iRegLength, prevStatus, nextBuffer>>
    BY <1>4 DEF ProgramWrite, Slave!WriteStart, Slave!WriteStatus
  <2>2. QED BY <1>2, <1>4, <2>1
<1>5. CASE Slave!RingStep(Sig_Status(wait)) /\ wrote' = FALSE
  <2>1. CASE Sig_Status(wait) /\ Slave!RecordFrame
    BY <1>2, <1>3, <1>5, <2>1 DEF Slave!RecordFrame, Slave!Advance
  <2>2. CASE Sig_Status(wait) /\ Slave!DropFrame
    BY <1>2, <1>5, <2>2 DEF Slave!DropFrame
  <2>3. CASE Slave!Rearm(Sig_Status(wait))
    BY <1>2, <1>5, <2>3 DEF Slave!Rearm
  <2>4. CASE Slave!Hold(Sig_Status(wait))
    <3>1. /\ Sig_Status(wait) = prevStatus
          /\ UNCHANGED <<iRegStartAddress, iRegBufferAddress, iRegLength, prevStatus,
                         nextBuffer>>
      BY <2>4 DEF Slave!Hold
    <3>2. QED BY <1>2, <1>3, <1>5, <3>1
  <2>5. QED BY <1>5, <2>1, <2>2, <2>3, <2>4 DEF Slave!RingStep, Slave!FrameEnd
<1>6. QED BY <1>1, <1>4, <1>5

LEMMA RegistersTick ==
  ASSUME RegistersInv, MasterInv, FifoInv, NEW wait \in BOOLEAN, ControllerTick(wait)
  PROVE  RegistersInv'
<1>1. /\ iRegStartAddress' = StartAddress
      /\ iRegLength' = FrameLength /\ AS_AM_Length' = FrameLength
  BY RegisterSteps DEF RegistersInv
<1>2. /\ nextBuffer' \in 0 .. 2 /\ prevStatus' \in BOOLEAN
      /\ iRegBufferAddress' = Slave!BufferStart(StartAddress, nextBuffer')
  <2>1. (nextBuffer + 1) % 3 \in 0 .. 2 /\ nextBuffer \in 0 .. 2 /\ prevStatus \in BOOLEAN
        /\ iRegBufferAddress = Slave!BufferStart(StartAddress, nextBuffer)
    BY DEF RegistersInv
  <2>2. UNCHANGED nextBuffer =>
          Slave!BufferStart(StartAddress, nextBuffer') = Slave!BufferStart(StartAddress, nextBuffer)
    OBVIOUS
  <2>3. QED BY <2>1, <2>2, RegisterSteps
<1>3. Sig_Status(wait) => iRegStateSM' = "WAITDATA" /\ iRegCounterAddress' = 0
  <2>1. ASSUME Sig_Status(wait), Running PROVE EndOfBurst /\ LastOfFrame
    <3>1. Sig_ReadCheck(wait) /\ LastOfFrame /\ iRegBurstCount = BURSTCOUNT_LENGTH - 1
      BY <2>1, MasterSteps
    <3>2. ~OneWord
      BY <3>1, Numbers DEF OneWord
    <3>3. QED BY <2>1, <3>1, <3>2, MasterSteps
  <2>2. QED BY <2>1, MasterSteps DEF EndOfBurst
<1>4. AS_AM_StartAddress' = iRegBufferAddress'
        \/ (iRegStateSM' = "WAITDATA" /\ iRegCounterAddress' = 0)
  BY <1>3, RegisterSteps
<1>5. prevStatus' => iRegStateSM' = "WAITDATA" \/ (iRegStateSM' = "BEGINTRANSFER" /\ wrote')
  <2>1. prevStatus => iRegStateSM = "WAITDATA" \/ (iRegStateSM = "BEGINTRANSFER" /\ wrote)
    BY DEF RegistersInv
  <2>2. iRegStateSM = "WAITDATA" => iRegStateSM' \in {"WAITDATA", "BEGINTRANSFER"}
    BY MasterSteps DEF NoWord, OneWord, EndOfBurst
  <2>3. Sig_Status(wait) => iRegStateSM = "BURST"
    BY MasterSteps
  <2>4. QED BY <1>3, <2>1, <2>2, <2>3, RegisterSteps
<1>6. QED BY <1>1, <1>2, <1>4, <1>5 DEF RegistersInv

----------------------------------------------------------------------------
(* The FIFO.                                                               *)

LEMMA Level ==
  ASSUME FifoInv, RoomInv
  PROVE  /\ Len(queue) \in Nat /\ Fifo!WriteSideFill \in Nat
         /\ usedWords = Fifo!WriteSideFill
         /\ Fifo!WriteSideFill < Capacity
<1>1. Len(queue) \in Nat /\ Fifo!WriteSideFill \in Nat
  BY DEF FifoInv, Fifo!WriteSideFill
<1>2. Fifo!WriteSideFill < Capacity
  BY <1>1, Numbers DEF RoomInv
<1>3. Fifo!WriteSideFill % Capacity = Fifo!WriteSideFill
  <2>1. Capacity \in Nat \ {0}
    BY Numbers
  <2>2. QED BY <1>1, <1>2, <2>1, Modulo
<1>4. QED BY <1>1, <1>2, <1>3 DEF FifoInv, Fifo!FIFO_CI_UsedWords

LEMMA DropTwo ==
  ASSUME NEW S, NEW s \in Seq(S), Len(s) >= 2
  PROVE  /\ SubSeq(s, 3, Len(s)) \in Seq(S)
         /\ Len(SubSeq(s, 3, Len(s))) = Len(s) - 2
         /\ \A i \in 1 .. Len(s) - 2 : SubSeq(s, 3, Len(s))[i] = s[i + 2]
<1>1. PICK n \in Nat : n = Len(s)
  BY LenProperties
<1>2. \A i \in 3 .. n : s[i] \in S
  BY <1>1, ElementOfSeq
<1>3. /\ SubSeq(s, 3, n) \in Seq(S)
      /\ Len(SubSeq(s, 3, n)) = IF 3 <= n THEN n - 3 + 1 ELSE 0
      /\ \A i \in 1 .. n - 3 + 1 : SubSeq(s, 3, n)[i] = s[3 + i - 1]
  BY <1>2, SubSeqProperties
<1>4. (3 <= n => n - 3 + 1 = n - 2) /\ (~(3 <= n) => 0 = n - 2)
  BY <1>1
<1>5. Len(SubSeq(s, 3, n)) = n - 2
  BY <1>3, <1>4, Zenon
<1>6. ASSUME NEW i \in 1 .. n - 2 PROVE SubSeq(s, 3, n)[i] = s[i + 2]
  <2>1. i \in 1 .. n - 3 + 1 /\ 3 + i - 1 = i + 2
    OBVIOUS
  <2>2. QED BY <1>3, <2>1
<1>7. QED BY <1>1, <1>3, <1>5, <1>6

(* A burst that has begun finds a word on the read side of the FIFO. *)
LEMMA WordReady ==
  ASSUME MasterInv, FifoInv, BurstInv, iRegStateSM # "WAITDATA"
  PROVE  Fifo!ReadSideWords > 0 /\ Len(queue) - unseenWrites >= 2
<1>1. queue \in Seq(Pixels) /\ Len(queue) \in Nat /\ unseenWrites \in 0 .. Len(queue)
  BY DEF FifoInv
<1>2. iRegBurstCount \in 0 .. BURSTCOUNT_LENGTH - 1
  BY Numbers DEF MasterInv
<1>3. PICK w \in Nat : w = Fifo!ReadSideWords
  BY <1>1 DEF Fifo!ReadSideWords
<1>4. w >= 1
  BY <1>2, <1>3, Numbers DEF BurstInv
<1>5. (Len(queue) - unseenWrites) \div 2 >= 1
  BY <1>3, <1>4 DEF Fifo!ReadSideWords
<1>6. QED BY <1>1, <1>3, <1>4, <1>5

LEMMA FifoSteps ==
  ASSUME MasterInv, FifoInv, RegistersInv, BurstInv,
         NEW wait \in BOOLEAN, ControllerTick(wait)
  PROVE  /\ ~Running => queue' = <<>> /\ unseenReads' = 0 /\ unseenWrites' = 0
         /\ Running => unseenWrites' \in 0 .. unseenWrites
         /\ Running /\ ~Sig_ReadCheck(wait) => queue' = queue /\ unseenReads' = unseenReads
         /\ Running /\ Sig_ReadCheck(wait) =>
              /\ Len(queue) - unseenWrites >= 2
              /\ Fifo!ReadSideWords > 0
              /\ unseenReads' = unseenReads + 2
              /\ queue' \in Seq(Pixels) /\ Len(queue') = Len(queue) - 2
              /\ \A i \in 1 .. Len(queue) - 2 : queue'[i] = queue[i + 2]
<1>1. FifoRead(wait)
  BY DEF ControllerTick
<1>2. queue \in Seq(Pixels) /\ Len(queue) \in Nat /\ unseenWrites \in 0 .. Len(queue)
  BY DEF FifoInv
<1>3. Running => \E late \in 0 .. unseenWrites : Fifo!ReadClk(Sig_ReadCheck(wait), late)
  BY <1>1 DEF FifoRead, Running
<1>4. ~Running => queue' = <<>> /\ unseenReads' = 0 /\ unseenWrites' = 0
  BY <1>1 DEF FifoRead, Running, Fifo!Clear
<1>5. Sig_ReadCheck(wait) => Fifo!ReadSideWords > 0 /\ Len(queue) - unseenWrites >= 2
  <2>1. Sig_ReadCheck(wait) => iRegStateSM # "WAITDATA"
    BY MasterSteps
  <2>2. QED BY <2>1, WordReady
<1>6. ASSUME Running
      PROVE  /\ unseenWrites' \in 0 .. unseenWrites
             /\ ~Sig_ReadCheck(wait) => queue' = queue /\ unseenReads' = unseenReads
             /\ Sig_ReadCheck(wait) => /\ queue' = SubSeq(queue, 3, Len(queue))
                                       /\ unseenReads' = unseenReads + 2
  BY <1>3, <1>5, <1>6 DEF Fifo!ReadClk
<1>7. ASSUME Len(queue) >= 2
      PROVE  /\ SubSeq(queue, 3, Len(queue)) \in Seq(Pixels)
             /\ Len(SubSeq(queue, 3, Len(queue))) = Len(queue) - 2
             /\ \A i \in 1 .. Len(queue) - 2 : SubSeq(queue, 3, Len(queue))[i] = queue[i + 2]
  BY <1>2, <1>7, DropTwo
<1>8. Len(queue) - unseenWrites >= 2 => Len(queue) >= 2
  BY <1>2
<1>9. QED BY <1>4, <1>5, <1>6, <1>7, <1>8

LEMMA FifoTick ==
  ASSUME Inv, MasterInv, FifoInv, RegistersInv, RoomInv, BurstInv,
         NEW wait \in BOOLEAN, ControllerTick(wait)
  PROVE  FifoInv' /\ (Running => Fifo!WriteSideFill' = Fifo!WriteSideFill)
<1>1. PICK bit \in BOOLEAN : MainTick(bit)
  BY DEF ControllerTick
<1>2. /\ AS_ALL_Start' => UNCHANGED usedWords
      /\ ~AS_ALL_Start' => usedWords' = 0
      /\ ~AS_ALL_Start => usedWords = 0
  BY <1>1 DEF MainTick, Inv, QuietInv
<1>3. queue \in Seq(Pixels) /\ Len(queue) \in Nat /\ unseenWrites \in 0 .. Len(queue)
      /\ unseenReads \in Nat
  BY DEF FifoInv
<1>4. CASE ~Running
  <2>1. queue' = <<>> /\ unseenReads' = 0 /\ unseenWrites' = 0
    BY <1>4, FifoSteps
  <2>2. usedWords' = 0
    BY <1>2, <1>4 DEF Running
  <2>3. Fifo!FIFO_CI_UsedWords' = 0
    BY <2>1, Numbers DEF Fifo!FIFO_CI_UsedWords, Fifo!WriteSideFill
  <2>4. QED BY <1>4, <2>1, <2>2, <2>3 DEF FifoInv, Fifo!FifoInit, Pixels
<1>5. CASE Running
  <2>1. unseenWrites' \in 0 .. unseenWrites
    BY <1>5, FifoSteps
  <2>2. /\ queue' \in Seq(Pixels) /\ unseenReads' \in Nat
        /\ unseenWrites' \in 0 .. Len(queue')
        /\ Len(queue') + unseenReads' = Len(queue) + unseenReads
    <3>1. CASE Sig_ReadCheck(wait)
      <4>1. /\ Len(queue) - unseenWrites >= 2 /\ unseenReads' = unseenReads + 2
            /\ queue' \in Seq(Pixels) /\ Len(queue') = Len(queue) - 2
        BY <1>5, <3>1, FifoSteps
      <4>2. QED BY <1>3, <2>1, <4>1
    <3>2. CASE ~Sig_ReadCheck(wait)
      BY <1>3, <1>5, <2>1, <3>2, FifoSteps
    <3>3. QED BY <3>1, <3>2
  <2>3. Fifo!WriteSideFill' = Fifo!WriteSideFill
    BY <2>2 DEF Fifo!WriteSideFill
  <2>4. usedWords' = Fifo!FIFO_CI_UsedWords'
    <3>1. usedWords' = usedWords /\ usedWords = Fifo!WriteSideFill % Capacity
      BY <1>2, <1>5 DEF Running, FifoInv, Fifo!FIFO_CI_UsedWords
    <3>2. QED BY <2>3, <3>1 DEF Fifo!FIFO_CI_UsedWords
  <2>5. QED BY <1>5, <2>2, <2>3, <2>4 DEF FifoInv, Running, Pixels, Samples, Column
<1>6. QED BY <1>4, <1>5

LEMMA RoomTick ==
  ASSUME Inv, MasterInv, FifoInv, RegistersInv, RoomInv, BurstInv,
         NEW wait \in BOOLEAN, ControllerTick(wait)
  PROVE  RoomInv'
<1>1. CASE ~Running
  <2>1. Fifo!WriteSideFill' = 0
    BY <1>1, FifoSteps DEF Fifo!WriteSideFill
  <2>2. QED BY <2>1, Numbers DEF RoomInv
<1>2. CASE Running
  <2>1. Fifo!WriteSideFill' = Fifo!WriteSideFill
    BY <1>2, FifoTick
  <2>2. CI_FIFO_WriteEnable' = CI_FIFO_WriteEnable /\ iRegPending' = (usedWords > Threshold)
    BY DEF ControllerTick, MainTick, MainEdge, Acquisition, riseVars
  <2>3. Fifo!WriteSideFill > Threshold => iRegPending'
    BY <2>2, Level
  <2>4. QED BY <2>1, <2>2, <2>3 DEF RoomInv
<1>3. QED BY <1>1, <1>2

LEMMA BurstTick ==
  ASSUME MasterInv, FifoInv, RegistersInv, BurstInv,
         NEW wait \in BOOLEAN, ControllerTick(wait)
  PROVE  BurstInv'
<1>1. queue \in Seq(Pixels) /\ Len(queue) \in Nat /\ unseenWrites \in 0 .. Len(queue)
  BY DEF FifoInv
<1>2. iRegBurstCount \in 0 .. BURSTCOUNT_LENGTH - 1
  BY Numbers DEF MasterInv
<1>3. CASE ~Running
  BY <1>3, MasterSteps DEF BurstInv
<1>4. CASE Running /\ ~Sig_ReadCheck(wait)
  <2>1. NoWord /\ queue' = queue /\ unseenWrites' \in 0 .. unseenWrites
    BY <1>4, MasterSteps, FifoSteps
  <2>2. Fifo!ReadSideWords' >= Fifo!ReadSideWords /\ Fifo!ReadSideWords \in Nat
    BY <1>1, <2>1 DEF Fifo!ReadSideWords
  <2>3. iRegStateSM' # "WAITDATA" =>
          Fifo!ReadSideWords >= BURSTCOUNT_LENGTH - iRegBurstCount
    BY <1>2, <2>1, <2>2, Numbers DEF NoWord, BurstInv
  <2>4. Fifo!ReadSideWords' \in Nat /\ iRegBurstCount' = iRegBurstCount
    BY <1>1, <2>1 DEF Fifo!ReadSideWords, NoWord
  <2>5. QED BY <1>2, <2>2, <2>3, <2>4, Numbers DEF BurstInv
<1>5. CASE Running /\ Sig_ReadCheck(wait)
  <2>1. OneWord \/ EndOfBurst
    BY <1>5, MasterSteps
  <2>2. /\ unseenWrites' \in 0 .. unseenWrites /\ Len(queue') = Len(queue) - 2
        /\ Len(queue) - unseenWrites >= 2
    BY <1>5, FifoSteps
  <2>3. Fifo!ReadSideWords' >= Fifo!ReadSideWords - 1 /\ Fifo!ReadSideWords \in Nat
        /\ Fifo!ReadSideWords' \in Nat
    BY <1>1, <2>2 DEF Fifo!ReadSideWords
  <2>4. OneWord => Fifo!ReadSideWords >= BURSTCOUNT_LENGTH - iRegBurstCount
    BY DEF BurstInv, OneWord
  <2>5. OneWord => Fifo!ReadSideWords' >= BURSTCOUNT_LENGTH - iRegBurstCount'
    BY <1>2, <2>3, <2>4, Numbers DEF OneWord
  <2>6. EndOfBurst => BurstInv'
    BY DEF EndOfBurst, BurstInv
  <2>7. QED BY <2>1, <2>5, <2>6 DEF BurstInv
<1>6. QED BY <1>3, <1>4, <1>5

----------------------------------------------------------------------------
(* The pixels on their way, and those in the memory.                       *)

LEMMA QueueTick ==
  ASSUME Inv, MasterInv, FifoInv, RegistersInv, BurstInv, QueueInv,
         NEW wait \in BOOLEAN, ControllerTick(wait)
  PROVE  QueueInv'
<1>1. PICK bit \in BOOLEAN : MainTick(bit)
  BY DEF ControllerTick
<1>2. /\ AS_ALL_Start' => UNCHANGED expected
      /\ ~AS_ALL_Start' => expected' = 0
      /\ ~AS_ALL_Start => expected = 0
  BY <1>1 DEF MainTick, Inv, QuietInv
<1>3. queue \in Seq(Pixels) /\ Len(queue) \in Nat
  BY DEF FifoInv
<1>4. PixelsPerFrame \in Nat \ {0} /\ Stored \in Nat
  BY Numbers, StoredRange
<1>5. CASE ~Running
  <2>1. queue' = <<>> /\ Stored' = 0 /\ expected' = 0
    BY <1>2, <1>5, FifoSteps, StoredSteps DEF Running
  <2>2. (0 + 0) % PixelsPerFrame = 0
    BY <1>4, Modulo
  <2>3. QED BY <2>1, <2>2 DEF QueueInv, PixelsPerFrame
<1>6. CASE Running /\ ~Sig_ReadCheck(wait)
  <2>1. queue' = queue /\ Stored' = Stored /\ expected' = expected
    BY <1>2, <1>6, FifoSteps, StoredSteps DEF Running
  <2>2. QED BY <2>1 DEF QueueInv, PixelsPerFrame, Binned
<1>7. CASE Running /\ Sig_ReadCheck(wait)
  <2>1. /\ Len(queue) >= 2 /\ Len(queue') = Len(queue) - 2
        /\ \A i \in 1 .. Len(queue) - 2 : queue'[i] = queue[i + 2]
        /\ expected' = expected
    <3>1. /\ Len(queue) - unseenWrites >= 2 /\ Len(queue') = Len(queue) - 2
          /\ \A i \in 1 .. Len(queue) - 2 : queue'[i] = queue[i + 2]
      BY <1>7, FifoSteps
    <3>2. unseenWrites \in Nat
      BY DEF FifoInv
    <3>3. QED BY <1>2, <1>3, <1>7, <3>1, <3>2 DEF Running
  <2>2. \A k \in Nat : (Stored' + k) % PixelsPerFrame = (Stored + 2 + k) % PixelsPerFrame
    <3>1. Stored' = IF Stored + 2 = PixelsPerFrame THEN 0 ELSE Stored + 2
      BY <1>7, StoredSteps
    <3>2. ASSUME NEW k \in Nat
          PROVE  (Stored' + k) % PixelsPerFrame = (Stored + 2 + k) % PixelsPerFrame
      <4>1. CASE Stored + 2 = PixelsPerFrame
        <5>1. Stored' + k = k /\ Stored + 2 + k = PixelsPerFrame + k
          BY <3>1, <4>1, <1>4
        <5>2. QED BY <1>4, <5>1, Modulo
      <4>2. CASE Stored + 2 # PixelsPerFrame
        BY <3>1, <4>2
      <4>3. QED BY <4>1, <4>2
    <3>3. QED BY <3>2
  <2>3. expected' = (Stored' + Len(queue')) % PixelsPerFrame
    <3>1. Stored + Len(queue) = Stored + 2 + Len(queue') /\ Len(queue') \in Nat
      BY <1>3, <1>4, <2>1
    <3>2. QED BY <2>1, <2>2, <3>1 DEF QueueInv
  <2>4. ASSUME NEW i \in 1 .. Len(queue')
        PROVE  queue'[i] = Binned((Stored' + i - 1) % PixelsPerFrame)
    <3>1. i \in 1 .. Len(queue) - 2 /\ i + 2 \in 1 .. Len(queue) /\ i - 1 \in Nat
      BY <1>3, <2>1, <2>4
    <3>2. queue'[i] = queue[i + 2]
      BY <2>1, <3>1
    <3>3. queue[i + 2] = Binned((Stored + (i + 2) - 1) % PixelsPerFrame)
      BY <3>1 DEF QueueInv
    <3>4. (Stored' + (i - 1)) % PixelsPerFrame = (Stored + 2 + (i - 1)) % PixelsPerFrame
      BY <2>2, <3>1
    <3>5. /\ Stored + (i + 2) - 1 = Stored + 2 + (i - 1)
          /\ Stored' + i - 1 = Stored' + (i - 1)
      <4>1. Stored' \in Nat
        BY <1>4, <1>7, StoredSteps
      <4>2. QED BY <1>4, <3>1, <4>1
    <3>6. QED BY <3>2, <3>3, <3>4, <3>5
  <2>5. QED BY <2>3, <2>4 DEF QueueInv, PixelsPerFrame, Binned
<1>8. QED BY <1>5, <1>6, <1>7

(* The word at the head holds the next two pixels of the frame.            *)
LEMMA HeadWord ==
  ASSUME MasterInv, FifoInv, BurstInv, QueueInv, iRegStateSM # "WAITDATA"
  PROVE  /\ Fifo!FIFO_AM_ReadData[1] = Binned(Stored)
         /\ Fifo!FIFO_AM_ReadData[2] = Binned(Stored + 1)
<1>1. Len(queue) - unseenWrites >= 2 /\ Fifo!ReadSideWords > 0
  BY WordReady
<1>2. queue \in Seq(Pixels) /\ Len(queue) \in Nat /\ unseenWrites \in Nat
  BY DEF FifoInv
<1>3. 1 \in 1 .. Len(queue) /\ 2 \in 1 .. Len(queue)
  BY <1>1, <1>2
<1>4. Stored \in Nat /\ Stored + 2 <= PixelsPerFrame /\ PixelsPerFrame \in Nat \ {0}
  BY Numbers, StoredRange
<1>5. queue[1] = Binned(Stored) /\ queue[2] = Binned(Stored + 1)
  <2>1. /\ queue[1] = Binned((Stored + 1 - 1) % PixelsPerFrame)
        /\ queue[2] = Binned((Stored + 2 - 1) % PixelsPerFrame)
    BY <1>3 DEF QueueInv
  <2>2. Stored + 1 - 1 = Stored /\ Stored + 2 - 1 = Stored + 1
    BY <1>4
  <2>3. Stored % PixelsPerFrame = Stored /\ (Stored + 1) % PixelsPerFrame = Stored + 1
    <3>1. Stored < PixelsPerFrame /\ Stored + 1 < PixelsPerFrame /\ Stored + 1 \in Nat
      BY <1>4
    <3>2. QED BY <1>4, <3>1, Modulo
  <2>4. QED BY <2>1, <2>2, <2>3
<1>6. SubSeq(queue, 1, 2)[1] = queue[1] /\ SubSeq(queue, 1, 2)[2] = queue[2]
  <2>1. \A i \in 1 .. 2 : queue[i] \in Pixels
    BY <1>2, <1>3
  <2>2. \A i \in 1 .. 2 - 1 + 1 : SubSeq(queue, 1, 2)[i] = queue[1 + i - 1]
    BY <2>1, SubSeqProperties
  <2>3. 1 \in 1 .. 2 - 1 + 1 /\ 2 \in 1 .. 2 - 1 + 1 /\ 1 + 1 - 1 = 1 /\ 1 + 2 - 1 = 2
    OBVIOUS
  <2>4. QED BY <2>2, <2>3
<1>7. QED BY <1>1, <1>5, <1>6 DEF Fifo!FIFO_AM_ReadData

(* Function f holds the first n pixels of buffer k; g holds two values more, *)
(* at address a and at the next.                                           *)
HoldsFirst(f, k, n) ==
  /\ DOMAIN f = DOMAIN FirstPixels(k, n)
  /\ \A c \in DOMAIN f : f[c] = FirstPixels(k, n)[c]
Adds(g, f, a, v, w) ==
  g = [c \in DOMAIN f \cup {a, a + PixelBytes} |->
         IF c = a THEN v ELSE IF c = a + PixelBytes THEN w ELSE f[c]]

LEMMA TwoMore ==
  ASSUME NEW k \in 0 .. 2, NEW n \in Nat, NEW f, NEW g, HoldsFirst(f, k, n),
         NEW a, a = BufferBase(k) + PixelBytes * n,
         Adds(g, f, a, Binned(n), Binned(n + 1))
  PROVE  g = FirstPixels(k, n + 2)
<1>0. /\ DOMAIN f = DOMAIN FirstPixels(k, n)
      /\ \A c \in DOMAIN f : f[c] = FirstPixels(k, n)[c]
      /\ g = [c \in DOMAIN f \cup {a, a + PixelBytes} |->
                IF c = a THEN Binned(n)
                ELSE IF c = a + PixelBytes THEN Binned(n + 1) ELSE f[c]]
  BY DEF HoldsFirst, Adds
<1>1. PICK b \in Nat : b = BufferBase(k)
  BY Buffers
<1>2. a = b + 2 * n /\ PixelBytes = 2
  BY <1>1 DEF PixelBytes
<1> DEFINE D(m) == {b + 2 * i : i \in 0 .. m - 1}
<1>3. \A m \in Nat : FirstPixels(k, m) = [c \in D(m) |-> Binned((c - b) \div 2)]
  BY <1>1, <1>2 DEF FirstPixels
<1>4. DOMAIN f = D(n) /\ \A c \in D(n) : f[c] = Binned((c - b) \div 2)
  <2>1. FirstPixels(k, n) = [c \in D(n) |-> Binned((c - b) \div 2)]
    BY <1>3
  <2> HIDE DEF D
  <2>2. QED BY <1>0, <2>1
<1>5. D(n) \cup {a, a + 2} = D(n + 2)
  <2>1. ASSUME NEW c \in D(n) \cup {a, a + 2} PROVE c \in D(n + 2)
    <3>1. CASE c \in D(n)
      BY <3>1
    <3>2. CASE c = a
      <4>1. n \in 0 .. (n + 2) - 1
        OBVIOUS
      <4>2. QED BY <1>2, <3>2, <4>1
    <3>3. CASE c = a + 2
      <4>1. n + 1 \in 0 .. (n + 2) - 1 /\ a + 2 = b + 2 * (n + 1)
        BY <1>1, <1>2
      <4>2. QED BY <3>3, <4>1
    <3>4. QED BY <2>1, <3>1, <3>2, <3>3
  <2>2. ASSUME NEW c \in D(n + 2) PROVE c \in D(n) \cup {a, a + 2}
    <3>1. PICK i \in 0 .. (n + 2) - 1 : c = b + 2 * i
      BY <2>2
    <3>2. CASE i \in 0 .. n - 1
      BY <3>1, <3>2
    <3>3. CASE i = n
      BY <1>2, <3>1, <3>3
    <3>4. CASE i = n + 1
      BY <1>1, <1>2, <3>1, <3>4
    <3>5. i \in 0 .. n - 1 \/ i = n \/ i = n + 1
      BY <3>1
    <3>6. QED BY <3>2, <3>3, <3>4, <3>5, Zenon
  <2>3. QED BY <2>1, <2>2
<1>6. ASSUME NEW c \in D(n + 2)
      PROVE  (IF c = a THEN Binned(n) ELSE IF c = a + 2 THEN Binned(n + 1) ELSE f[c])
               = Binned((c - b) \div 2)
  <2>1. c = a => (c - b) \div 2 = n
    BY <1>1, <1>2
  <2>2. c = a + 2 => (c - b) \div 2 = n + 1
    BY <1>1, <1>2
  <2>3. c # a /\ c # a + 2 => c \in D(n)
    BY <1>5
  <2> HIDE DEF D
  <2>4. CASE c = a
    BY <2>1, <2>4
  <2>5. CASE c # a /\ c = a + 2
    BY <2>2, <2>5
  <2>6. CASE c # a /\ c # a + 2
    BY <1>4, <2>3, <2>6
  <2>7. QED BY <2>4, <2>5, <2>6
<1> HIDE DEF D
<1>7. FirstPixels(k, n + 2) = [c \in D(n + 2) |-> Binned((c - b) \div 2)]
  <2>1. n + 2 \in Nat
    OBVIOUS
  <2>2. QED BY <1>3, <2>1
<1>8. g = [c \in D(n + 2) |-> IF c = a THEN Binned(n)
                             ELSE IF c = a + 2 THEN Binned(n + 1) ELSE f[c]]
  BY <1>0, <1>2, <1>4, <1>5
<1>9. QED BY <1>6, <1>7, <1>8

(* A word goes to the places of the next two pixels of the frame.          *)
LEMMA WordStored ==
  ASSUME MasterInv, FifoInv, RegistersInv, BurstInv, QueueInv, PassInv,
         NEW wait \in BOOLEAN, ControllerTick(wait), Sig_ReadCheck(wait)
  PROVE  /\ pass' = FirstPixels(nextBuffer, Stored + 2)
         /\ ~Master!BurstEnd(wait) =>
              burstAddress' = BufferBase(nextBuffer) + iRegCounterAddress
<1> DEFINE first == iRegStateSM = "BEGINTRANSFER"
           a == IF first THEN Master!MemoryAddress(Value(AS_AM_StartAddress))
                         ELSE burstAddress + WordBytes * iRegBurstCount
           word == Fifo!FIFO_AM_ReadData
           kept == IF first /\ iRegCounterAddress = 0 THEN Nothing ELSE pass
<1>1. iRegStateSM \in {"BEGINTRANSFER", "BURST"} /\ AS_ALL_Start
  BY MasterSteps DEF MasterInv, Master!MasterInit, Master!Cleared
<1>2. /\ burstAddress' = IF first THEN a
                         ELSE IF Master!BurstEnd(wait) THEN 0 ELSE burstAddress
      /\ pass' = [c \in DOMAIN kept \cup {a, a + PixelBytes} |->
                    IF c = a THEN word[1]
                    ELSE IF c = a + PixelBytes THEN word[2] ELSE kept[c]]
  BY <1>1 DEF ControllerTick, Memory
<1>3. nextBuffer \in 0 .. 2
  BY DEF RegistersInv
<1>4. PICK b \in Nat : b = BufferBase(nextBuffer) /\ b + Length <= AddressSpace
  BY <1>3, Buffers
<1>5. PICK n \in Nat : iRegCounterAddress = 4 * n
  BY BurstSteps DEF MasterInv
<1>6. /\ Stored \in Nat /\ iRegCounterAddress + ADDR_INCREMENT <= Length
      /\ PixelBytes * Stored = iRegCounterAddress + WordBytes * iRegBurstCount
      /\ Stored = 0 => iRegCounterAddress = 0 /\ iRegBurstCount = 0
  BY StoredRange, BurstSteps DEF MasterInv
<1>7. first => a = b + iRegCounterAddress /\ iRegBurstCount = 0
  <2>1. SUFFICES ASSUME first PROVE a = b + iRegCounterAddress /\ iRegBurstCount = 0
    OBVIOUS
  <2>2. iRegBurstCount = 0
    BY <2>1 DEF MasterInv
  <2>3. AS_AM_StartAddress = Slave!BufferStart(StartAddress, nextBuffer)
    BY <2>1 DEF RegistersInv
  <2>4. Value(AS_AM_StartAddress) = b
    BY <1>4, <2>3 DEF BufferBase
  <2>5. (b + iRegCounterAddress) % AddressSpace = b + iRegCounterAddress
    <3>1. /\ b + iRegCounterAddress \in Nat /\ b + iRegCounterAddress < AddressSpace
          /\ AddressSpace \in Nat \ {0}
      BY <1>4, <1>5, <1>6, Numbers, Buffers
    <3>2. QED BY <3>1, Modulo
  <2>6. QED BY <2>1, <2>2, <2>4, <2>5 DEF Master!MemoryAddress
<1>8. ~first => burstAddress = b + iRegCounterAddress /\ iRegStateSM = "BURST"
  BY <1>1, <1>4 DEF PassInv
<1>9. a = b + PixelBytes * Stored
  <2>1. iRegBurstCount \in Nat
    BY <1>1, Numbers DEF MasterInv
  <2>2. CASE first
    BY <1>4, <1>5, <1>6, <1>7, <2>1, <2>2 DEF WordBytes
  <2>3. CASE ~first
    BY <1>4, <1>5, <1>6, <1>8, <2>1, <2>3 DEF WordBytes
  <2>4. QED BY <2>2, <2>3
<1>10. HoldsFirst(kept, nextBuffer, Stored)
  <2>1. CASE Stored = 0
    <3>1. iRegCounterAddress = 0 /\ first
      BY <1>1, <1>6, <2>1 DEF MasterInv
    <3>2. kept = Nothing
      BY <3>1
    <3>3. DOMAIN FirstPixels(nextBuffer, 0) = {}
      BY DEF FirstPixels
    <3>4. QED BY <2>1, <3>2, <3>3 DEF Nothing, HoldsFirst
  <2>2. CASE Stored > 0
    <3>1. ~(first /\ iRegCounterAddress = 0)
      BY <1>6, <1>7, <2>2 DEF PixelBytes, WordBytes
    <3>2. kept = FirstPixels(nextBuffer, Stored)
      BY <2>2, <3>1 DEF PassInv
    <3>3. QED BY <3>2 DEF HoldsFirst
  <2>3. QED BY <1>6, <2>1, <2>2
<1>11. word[1] = Binned(Stored) /\ word[2] = Binned(Stored + 1)
  BY <1>1, HeadWord
<1>12. ~Master!BurstEnd(wait) => burstAddress' = b + iRegCounterAddress
  BY <1>2, <1>7, <1>8
<1> HIDE DEF a, word, kept
<1>13. pass' = FirstPixels(nextBuffer, Stored + 2)
  <2>1. Adds(pass', kept, a, Binned(Stored), Binned(Stored + 1))
    BY <1>2, <1>11 DEF Adds
  <2>2. a = BufferBase(nextBuffer) + PixelBytes * Stored
    BY <1>4, <1>9
  <2>3. Stored \in Nat
    BY <1>6
  <2>4. QED BY <1>3, <1>10, <2>1, <2>2, <2>3, TwoMore
<1>14. QED BY <1>4, <1>12, <1>13

LEMMA PassTick ==
  ASSUME MasterInv, FifoInv, RegistersInv, BurstInv, QueueInv, PassInv,
         NEW wait \in BOOLEAN, ControllerTick(wait)
  PROVE  PassInv'
<1>1. Stored \in Nat
  BY StoredRange
<1>2. CASE ~Running
  <2>1. Stored' = 0 /\ iRegStateSM' = "WAITDATA"
    BY <1>2, StoredSteps, MasterSteps
  <2>2. QED BY <2>1 DEF PassInv
<1>3. CASE Running /\ ~Sig_ReadCheck(wait)
  <2>1. /\ Stored' = Stored /\ NoWord
        /\ UNCHANGED <<burstAddress, pass>>
    BY <1>3, StoredSteps, MasterSteps DEF ControllerTick, Memory, Running
  <2>2. nextBuffer' = nextBuffer
    <3>1. ~Sig_Status(wait)
      BY <1>3, MasterSteps
    <3>2. QED BY <3>1, RegisterSteps
  <2>3. iRegStateSM' = "BURST" => iRegStateSM = "BURST"
    BY <2>1 DEF NoWord
  <2>4. iRegCounterAddress' = iRegCounterAddress
    BY <2>1 DEF NoWord
  <2>5. FirstPixels(nextBuffer, Stored)' = FirstPixels(nextBuffer, Stored)
    BY <2>1, <2>2 DEF FirstPixels, BufferBase, Value, Binned
  <2>6. BufferBase(nextBuffer)' = BufferBase(nextBuffer)
    BY <2>2
  <2>7. QED BY <2>1, <2>3, <2>4, <2>5, <2>6 DEF PassInv
<1>4. CASE Running /\ Sig_ReadCheck(wait)
  <2>1. /\ pass' = FirstPixels(nextBuffer, Stored + 2)
        /\ ~Master!BurstEnd(wait) =>
             burstAddress' = BufferBase(nextBuffer) + iRegCounterAddress
    BY <1>4, WordStored
  <2>2. Stored' > 0 => Stored' = Stored + 2 /\ nextBuffer' = nextBuffer
    <3>1. Stored' = IF Stored + 2 = PixelsPerFrame THEN 0 ELSE Stored + 2
      BY <1>4, StoredSteps
    <3>2. Stored' > 0 => ~Sig_Status(wait)
      BY <3>1, StoredSteps
    <3>3. ~Sig_Status(wait) => nextBuffer' = nextBuffer
      BY RegisterSteps
    <3>4. QED BY <3>1, <3>2, <3>3
  <2>3. Stored' > 0 => pass' = FirstPixels(nextBuffer, Stored)'
    <3>1. SUFFICES ASSUME Stored' > 0 PROVE pass' = FirstPixels(nextBuffer, Stored)'
      OBVIOUS
    <3>2. FirstPixels(nextBuffer, Stored)' = FirstPixels(nextBuffer, Stored + 2)
      BY <2>2, <3>1 DEF FirstPixels, BufferBase, Value, Binned
    <3>3. QED BY <2>1, <3>2
  <2>4. iRegStateSM' = "BURST" =>
          burstAddress' = BufferBase(nextBuffer)' + iRegCounterAddress'
    <3>1. SUFFICES ASSUME iRegStateSM' = "BURST"
                   PROVE  burstAddress' = BufferBase(nextBuffer)' + iRegCounterAddress'
      OBVIOUS
    <3>2. OneWord
      BY <1>4, <3>1, MasterSteps DEF EndOfBurst
    <3>3. /\ ~Master!BurstEnd(wait) /\ iRegCounterAddress' = iRegCounterAddress
          /\ ~Sig_Status(wait)
      <4>1. iRegBurstCount \in Nat /\ iRegBurstCount < BURSTCOUNT_LENGTH - 1
        BY <3>2, Numbers DEF OneWord, MasterInv
      <4>2. iRegBurstCount # BURSTCOUNT_LENGTH - 1
        BY <4>1, Numbers
      <4>3. QED BY <3>2, <4>2, MasterSteps DEF OneWord, Master!BurstEnd
    <3>4. nextBuffer' = nextBuffer
      BY <3>3, RegisterSteps
    <3>5. BufferBase(nextBuffer)' = BufferBase(nextBuffer)
      BY <3>4
    <3>6. QED BY <2>1, <3>3, <3>5
  <2>5. QED BY <2>3, <2>4 DEF PassInv
<1>5. QED BY <1>2, <1>3, <1>4

----------------------------------------------------------------------------
(* The pixel clock.                                                        *)

LEMMA RiseFifo ==
  ASSUME Inv, FifoInv, RoomInv, PixelRise
  PROVE  /\ FifoInv'
         /\ Inv'
         /\ \E used \in Nat : Rise(used)
         /\ ~AS_ALL_Start => queue' = <<>> /\ unseenReads' = 0 /\ unseenWrites' = 0
         /\ AS_ALL_Start =>
              /\ unseenReads' \in 0 .. unseenReads
              /\ IF CI_FIFO_WriteEnable
                 THEN /\ Len(queue') = Len(queue) + 1
                      /\ \A i \in 1 .. Len(queue) : queue'[i] = queue[i]
                      /\ queue'[Len(queue) + 1] = CI_FIFO_WriteData
                      /\ unseenWrites' = unseenWrites + 1
                 ELSE queue' = queue /\ unseenWrites' = unseenWrites
<1>1. /\ queue \in Seq(Pixels) /\ Len(queue) \in Nat /\ unseenWrites \in 0 .. Len(queue)
      /\ unseenReads \in Nat /\ CI_FIFO_WriteData \in Pixels
  BY DEF FifoInv, Inv, Typed, TypeOK
<1>2. AS_ALL_Start =>
        /\ unseenReads' \in 0 .. unseenReads
        /\ IF CI_FIFO_WriteEnable
           THEN queue' = Append(queue, CI_FIFO_WriteData) /\ unseenWrites' = unseenWrites + 1
           ELSE queue' = queue /\ unseenWrites' = unseenWrites
  BY Level DEF PixelRise, Fifo!WriteClk
<1>3. ~AS_ALL_Start => queue' = <<>> /\ unseenReads' = 0 /\ unseenWrites' = 0
  BY DEF PixelRise, Fifo!Clear
<1>4. /\ Append(queue, CI_FIFO_WriteData) \in Seq(Pixels)
      /\ Len(Append(queue, CI_FIFO_WriteData)) = Len(queue) + 1
      /\ \A i \in 1 .. Len(queue) : Append(queue, CI_FIFO_WriteData)[i] = queue[i]
      /\ Append(queue, CI_FIFO_WriteData)[Len(queue) + 1] = CI_FIFO_WriteData
  BY <1>1, AppendProperties
<1>5. /\ queue' \in Seq(Pixels) /\ Len(queue') \in Nat /\ unseenReads' \in Nat
      /\ unseenWrites' \in 0 .. Len(queue')
  <2>1. CASE AS_ALL_Start /\ CI_FIFO_WriteEnable
    <3>1. queue' \in Seq(Pixels) /\ Len(queue') = Len(queue) + 1
      BY <1>2, <1>4, <2>1
    <3>2. unseenReads' \in 0 .. unseenReads /\ unseenWrites' = unseenWrites + 1
      BY <1>2, <2>1
    <3>3. QED BY <1>1, <3>1, <3>2
  <2>2. CASE AS_ALL_Start /\ ~CI_FIFO_WriteEnable
    BY <1>1, <1>2, <2>2
  <2>3. CASE ~AS_ALL_Start
    BY <1>3, <2>3
  <2>4. QED BY <2>1, <2>2, <2>3
<1>6. Fifo!FIFO_CI_UsedWords' \in Nat
  <2>1. Len(queue') + unseenReads' \in Nat /\ Capacity \in Nat \ {0}
    BY <1>5, Numbers
  <2>2. QED BY <2>1 DEF Fifo!FIFO_CI_UsedWords, Fifo!WriteSideFill
<1>7. PICK used \in Nat : used = Fifo!FIFO_CI_UsedWords'
  BY <1>6
<1>8. Rise(used)
  BY <1>7 DEF PixelRise
<1>9. Inv' /\ usedWords' = (IF AS_ALL_Start THEN used ELSE 0) /\ AS_ALL_Start' = AS_ALL_Start
  BY <1>8, RiseInv, RiseSteps
<1>10. usedWords' = Fifo!FIFO_CI_UsedWords'
  <2>1. CASE AS_ALL_Start
    BY <1>7, <1>9, <2>1
  <2>2. CASE ~AS_ALL_Start
    <3>1. Fifo!FIFO_CI_UsedWords' = 0
      BY <1>3, <2>2, Numbers DEF Fifo!FIFO_CI_UsedWords, Fifo!WriteSideFill
    <3>2. QED BY <1>9, <2>2, <3>1
  <2>3. QED BY <2>1, <2>2
<1>11. FifoInv'
  <2>1. ~AS_ALL_Start' => Fifo!FifoInit'
    BY <1>3, <1>9 DEF Fifo!FifoInit
  <2>2. Seq(Pixels)' = Seq(Pixels)
    BY DEF Pixels, Samples, Column
  <2>3. QED BY <1>5, <1>10, <2>1, <2>2 DEF FifoInv
<1>12. QED BY <1>1, <1>2, <1>3, <1>4, <1>8, <1>9, <1>11

(* No pixel follows at the next edge, nor after the edge when the interface *)
(* has seen the level.                                                     *)
LEMMA RoomRise ==
  ASSUME Inv, FifoInv, RoomInv, PixelRise
  PROVE  RoomInv'
<1>1. PICK used \in Nat : Rise(used)
  BY RiseFifo
<1>2. /\ half = "low" /\ half' = "high" /\ ticks' = 0 /\ AS_ALL_Start' = AS_ALL_Start
      /\ CI_FIFO_WriteEnable' = (~iRegPending /\ iRegFIFOWrite)
  BY <1>1, RiseSteps DEF TransferData
<1>3. /\ Len(queue) \in Nat /\ unseenReads \in Nat
  BY DEF FifoInv
<1>4. CASE ~AS_ALL_Start
  <2>1. Fifo!WriteSideFill' = 0
    BY <1>4, RiseFifo DEF Fifo!WriteSideFill
  <2>2. QED BY <2>1, Numbers DEF RoomInv
<1>5. CASE AS_ALL_Start /\ CI_FIFO_WriteEnable
  <2>1. Fifo!WriteSideFill <= Threshold
    BY <1>3, <1>5, Numbers DEF RoomInv, Fifo!WriteSideFill
  <2>2. Fifo!WriteSideFill' <= Fifo!WriteSideFill + 1 /\ Fifo!WriteSideFill' \in Nat
    <3>1. Len(queue') = Len(queue) + 1 /\ unseenReads' \in 0 .. unseenReads
      BY <1>5, RiseFifo
    <3>2. QED BY <1>3, <3>1 DEF Fifo!WriteSideFill
  <2>3. ~CI_FIFO_WriteEnable'
    <3>1. CASE InFrame
      BY <1>2, <1>5, <3>1 DEF Inv, StreamInv
    <3>2. CASE ~InFrame
      BY <1>2, <1>5, <3>2 DEF InFrame, Inv, QuietInv
    <3>3. QED BY <3>1, <3>2
  <2>4. Fifo!WriteSideFill' <= Threshold + 1
    <3>1. Fifo!WriteSideFill \in Nat
      BY <1>3 DEF Fifo!WriteSideFill
    <3>2. QED BY <2>1, <2>2, <3>1, Numbers
  <2>5. QED BY <1>2, <2>3, <2>4 DEF RoomInv
<1>6. CASE AS_ALL_Start /\ ~CI_FIFO_WriteEnable
  <2>1. Fifo!WriteSideFill' <= Fifo!WriteSideFill /\ Fifo!WriteSideFill' \in Nat
    <3>1. queue' = queue /\ unseenReads' \in 0 .. unseenReads
      BY <1>6, RiseFifo
    <3>2. QED BY <1>3, <3>1 DEF Fifo!WriteSideFill
  <2>2. Fifo!WriteSideFill \in Nat
    BY <1>3 DEF Fifo!WriteSideFill
  <2>3. Fifo!WriteSideFill > Threshold => ~CI_FIFO_WriteEnable'
    BY <1>2 DEF RoomInv
  <2>4. Fifo!WriteSideFill' > Threshold => Fifo!WriteSideFill > Threshold
    BY <2>1, <2>2, Numbers
  <2>5. Fifo!WriteSideFill' <= Threshold + 1
    BY <2>1, <2>2, Numbers DEF RoomInv
  <2>6. QED BY <1>2, <2>3, <2>4, <2>5 DEF RoomInv
<1>7. QED BY <1>4, <1>5, <1>6

LEMMA QueueRise ==
  ASSUME Inv, MasterInv, FifoInv, RoomInv, QueueInv, PixelRise
  PROVE  QueueInv'
<1>1. PICK used \in Nat : Rise(used)
  BY RiseFifo
<1>2. /\ expected' = IF AS_ALL_Start /\ CI_FIFO_WriteEnable
                     THEN (expected + 1) % PixelsPerFrame
                     ELSE expected
  BY <1>1, RiseSteps
<1>3. Stored \in Nat /\ Len(queue) \in Nat /\ PixelsPerFrame \in Nat \ {0}
      /\ (~AS_ALL_Start => Stored = 0)
  BY StoredRange, Numbers DEF FifoInv
<1>4. Stored' = Stored
  BY DEF PixelRise, masterVars, Stored
<1>5. CASE ~AS_ALL_Start
  <2>1. queue' = <<>> /\ expected' = 0
    BY <1>2, <1>5, RiseFifo DEF Inv, QuietInv
  <2>2. (0 + 0) % PixelsPerFrame = 0
    BY <1>3, Modulo
  <2>3. QED BY <1>3, <1>4, <1>5, <2>1, <2>2 DEF QueueInv, PixelsPerFrame
<1>6. CASE AS_ALL_Start /\ ~CI_FIFO_WriteEnable
  <2>1. queue' = queue /\ expected' = expected
    BY <1>2, <1>6, RiseFifo
  <2>2. QED BY <1>4, <2>1 DEF QueueInv, PixelsPerFrame, Binned
<1>7. CASE AS_ALL_Start /\ CI_FIFO_WriteEnable
  <2>1. /\ Len(queue') = Len(queue) + 1
        /\ \A i \in 1 .. Len(queue) : queue'[i] = queue[i]
        /\ queue'[Len(queue) + 1] = CI_FIFO_WriteData
    BY <1>7, RiseFifo
  <2>2. CI_FIFO_WriteData = Binned(expected)
    BY <1>7 DEF Inv, StreamInv, StreamInOrder
  <2>3. expected' = (Stored' + Len(queue')) % PixelsPerFrame
    <3>1. (((Stored + Len(queue)) % PixelsPerFrame) + 1) % PixelsPerFrame
            = (Stored + Len(queue) + 1) % PixelsPerFrame
      <4>1. Stored + Len(queue) \in Nat
        BY <1>3
      <4>2. QED BY <1>3, <4>1, Modulo
    <3>2. expected' = (((Stored + Len(queue)) % PixelsPerFrame) + 1) % PixelsPerFrame
      BY <1>2, <1>7 DEF QueueInv
    <3>3. Stored' + Len(queue') = Stored + Len(queue) + 1
      BY <1>3, <1>4, <2>1
    <3>4. QED BY <3>1, <3>2, <3>3
  <2>4. ASSUME NEW i \in 1 .. Len(queue')
        PROVE  queue'[i] = Binned((Stored' + i - 1) % PixelsPerFrame)
    <3>1. CASE i \in 1 .. Len(queue)
      BY <1>4, <2>1, <3>1 DEF QueueInv
    <3>2. CASE i = Len(queue) + 1
      <4>1. Stored' + i - 1 = Stored + Len(queue)
        BY <1>3, <1>4, <3>2
      <4>2. queue'[i] = Binned((Stored + Len(queue)) % PixelsPerFrame)
        BY <2>1, <2>2, <3>2 DEF QueueInv
      <4>3. QED BY <4>1, <4>2
    <3>3. i \in 1 .. Len(queue) \/ i = Len(queue) + 1
      BY <1>3, <2>1, <2>4
    <3>4. QED BY <3>1, <3>2, <3>3
  <2>5. QED BY <2>3, <2>4 DEF QueueInv, PixelsPerFrame, Binned
<1>8. QED BY <1>5, <1>6, <1>7

LEMMA RiseController ==
  ASSUME ControllerInv, PixelRise
  PROVE  ControllerInv'
<1>1. Inv' /\ FifoInv' /\ RoomInv' /\ QueueInv'
  BY RiseFifo, RoomRise, QueueRise DEF ControllerInv
<1>2. PICK used \in Nat : Rise(used)
  BY RiseFifo DEF ControllerInv
<1>3. /\ AS_ALL_Start' = AS_ALL_Start
      /\ UNCHANGED <<slaveVars, masterVars, wrote, burstAddress, pass>>
  BY <1>2 DEF Rise, PixelRise
<1>4. MasterInv'
  BY <1>3 DEF ControllerInv, MasterInv, masterVars, Master!MasterInit, Master!Cleared, Bursts,
              Length, Value
<1>5. RegistersInv'
  BY <1>3 DEF ControllerInv, RegistersInv, slaveVars, masterVars
<1>6. PassInv'
  BY <1>3 DEF ControllerInv, PassInv, slaveVars, masterVars, Stored, FirstPixels, BufferBase,
              Value, Binned
<1>7. BurstInv'
  <2>1. AS_ALL_Start \/ iRegStateSM = "WAITDATA"
    BY DEF ControllerInv, MasterInv, Master!MasterInit, Master!Cleared
  <2>2. CASE iRegStateSM = "WAITDATA"
    BY <1>3, <2>2 DEF BurstInv, masterVars
  <2>3. CASE AS_ALL_Start
    <3>1. Fifo!ReadSideWords' = Fifo!ReadSideWords
      <4>1. Len(queue) \in Nat /\ unseenWrites \in Nat
        BY DEF ControllerInv, FifoInv
      <4>2. Len(queue') - unseenWrites' = Len(queue) - unseenWrites
        BY <2>3, <4>1, RiseFifo DEF ControllerInv
      <4>3. QED BY <4>2 DEF Fifo!ReadSideWords
    <3>2. QED BY <1>3, <3>1 DEF ControllerInv, BurstInv, masterVars
  <2>4. QED BY <2>1, <2>2, <2>3
<1>8. QED BY <1>1, <1>4, <1>5, <1>6, <1>7 DEF ControllerInv

LEMMA FallController ==
  ASSUME ControllerInv, PixelFall
  PROVE  ControllerInv'
<1>1. /\ Inv' /\ half = "high" /\ ticks \in Nat /\ ticks >= 1
      /\ UNCHANGED <<mainVars, riseVars, AS_ALL_Start, usedWords, expected>>
  BY FallInv, FallSteps DEF PixelFall, ControllerInv
<1>2. UNCHANGED <<slaveVars, masterVars, fifoVars, wrote, burstAddress, pass>>
  BY DEF PixelFall
<1>3. MasterInv'
  BY <1>1, <1>2 DEF ControllerInv, MasterInv, masterVars, Master!MasterInit, Master!Cleared,
                    Bursts, Length, Value
<1>4. FifoInv' /\ Fifo!WriteSideFill' = Fifo!WriteSideFill
      /\ Fifo!ReadSideWords' = Fifo!ReadSideWords
  BY <1>1, <1>2 DEF ControllerInv, FifoInv, fifoVars, Fifo!FifoInit, Fifo!FIFO_CI_UsedWords,
                    Fifo!WriteSideFill, Fifo!ReadSideWords, Pixels, Samples, Column
<1>5. RegistersInv'
  BY <1>2 DEF ControllerInv, RegistersInv, slaveVars, masterVars
<1>6. RoomInv'
  <2>1. Fifo!WriteSideFill > Threshold => iRegPending /\ ~CI_FIFO_WriteEnable
    BY <1>1 DEF ControllerInv, RoomInv
  <2>2. iRegPending' = iRegPending /\ CI_FIFO_WriteEnable' = CI_FIFO_WriteEnable
    BY <1>1 DEF mainVars, riseVars
  <2>3. QED BY <1>4, <2>1, <2>2 DEF ControllerInv, RoomInv
<1>7. BurstInv'
  BY <1>2, <1>4 DEF ControllerInv, BurstInv, masterVars
<1>8. QueueInv'
  BY <1>1, <1>2 DEF ControllerInv, QueueInv, masterVars, fifoVars, Stored, PixelsPerFrame, Binned
<1>9. PassInv'
  BY <1>2 DEF ControllerInv, PassInv, slaveVars, masterVars, Stored, FirstPixels, BufferBase,
              Value, Binned
<1>10. QED BY <1>1, <1>3, <1>4, <1>5, <1>6, <1>7, <1>8, <1>9 DEF ControllerInv

----------------------------------------------------------------------------
(* The theorems about the controller.                                      *)

LEMMA TickController ==
  ASSUME ControllerInv, NEW wait \in BOOLEAN, ControllerTick(wait)
  PROVE  ControllerInv'
<1>1. Inv /\ MasterInv /\ FifoInv /\ RegistersInv /\ RoomInv /\ BurstInv /\ QueueInv /\ PassInv
  BY DEF ControllerInv
<1>2. Inv'
  BY <1>1, TickInv DEF ControllerTick
<1>3. MasterInv' /\ RegistersInv' /\ BurstInv'
  BY <1>1, MasterTick, RegistersTick, BurstTick
<1>4. FifoInv' /\ RoomInv'
  BY <1>1, FifoTick, RoomTick
<1>5. QueueInv' /\ PassInv'
  BY <1>1, QueueTick, PassTick
<1>6. QED BY <1>2, <1>3, <1>4, <1>5 DEF ControllerInv

LEMMA ControllerStart == ControllerInit => ControllerInv
<1> SUFFICES ASSUME ControllerInit PROVE ControllerInv
  OBVIOUS
<1>1. Inv
  BY InitInv DEF ControllerInit
<1>2. /\ queue = <<>> /\ unseenReads = 0 /\ unseenWrites = 0
      /\ iRegStateSM = "WAITDATA" /\ iRegCounterAddress = 0 /\ iRegBurstCount = 0
      /\ AS_ALL_Start = FALSE /\ usedWords = 0 /\ expected = 0
  BY DEF ControllerInit, Init, Master!MasterInit, Master!Cleared, Fifo!FifoInit
<1>3. MasterInv
  BY <1>2, BurstSteps DEF MasterInv, Master!MasterInit, Master!Cleared
<1>4. Fifo!WriteSideFill = 0 /\ Fifo!FIFO_CI_UsedWords = 0
  BY <1>2, Numbers DEF Fifo!WriteSideFill, Fifo!FIFO_CI_UsedWords
<1>5. FifoInv
  BY <1>2, <1>4 DEF FifoInv, Fifo!FifoInit
<1>6. RegistersInv
  <2>1. Slave!BufferStart(StartAddress, 0) = StartAddress
    BY DEF Slave!BufferStart
  <2>2. /\ iRegStartAddress = StartAddress /\ iRegBufferAddress = StartAddress
        /\ iRegLength = FrameLength /\ AS_AM_Length = FrameLength
        /\ AS_AM_StartAddress = StartAddress /\ nextBuffer = 0 /\ prevStatus = FALSE
    BY DEF ControllerInit
  <2>3. nextBuffer \in 0 .. 2 /\ prevStatus \in BOOLEAN /\ ~prevStatus
    <3>1. nextBuffer \in 0 .. 2
      BY <2>2
    <3>2. prevStatus \in BOOLEAN /\ ~prevStatus
      BY <2>2
    <3>3. QED BY <3>1, <3>2
  <2>4. iRegBufferAddress = Slave!BufferStart(StartAddress, nextBuffer)
    BY <2>1, <2>2
  <2>5. QED BY <2>2, <2>3, <2>4 DEF RegistersInv
<1>7. RoomInv
  BY <1>4, Numbers DEF RoomInv
<1>8. BurstInv
  BY <1>2 DEF BurstInv
<1>9. Stored = 0
  BY <1>2 DEF Stored, PixelBytes
<1>10. QueueInv
  <2>1. (0 + 0) % PixelsPerFrame = 0
    BY Numbers, Modulo
  <2>2. QED BY <1>2, <1>9, <2>1 DEF QueueInv
<1>11. PassInv
  BY <1>2, <1>9 DEF PassInv
<1>12. QED BY <1>1, <1>3, <1>5, <1>6, <1>7, <1>8, <1>10, <1>11 DEF ControllerInv

LEMMA ControllerStep == ControllerInv /\ [ControllerNext]_vars => ControllerInv'
<1> SUFFICES ASSUME ControllerInv, [ControllerNext]_vars PROVE ControllerInv'
  OBVIOUS
<1>1. CASE UNCHANGED vars
  <2>1. UNCHANGED <<chainVars, slaveVars, masterVars, fifoVars, wrote, burstAddress, pass>>
    BY <1>1 DEF vars
  <2>2. Inv'
    BY <2>1, NextInv DEF ControllerInv
  <2>3. UNCHANGED <<AS_ALL_Start, usedWords, expected, half, ticks, iRegPending,
                    CI_FIFO_WriteEnable>>
    BY <2>1 DEF chainVars, interfaceVars, mainVars, riseVars
  <2>4. MasterInv'
    BY <2>1, <2>3 DEF ControllerInv, MasterInv, masterVars, Master!MasterInit, Master!Cleared,
                      Bursts, Length, Value
  <2>5. FifoInv' /\ Fifo!WriteSideFill' = Fifo!WriteSideFill
        /\ Fifo!ReadSideWords' = Fifo!ReadSideWords
    BY <2>1, <2>3 DEF ControllerInv, FifoInv, fifoVars, Fifo!FifoInit, Fifo!FIFO_CI_UsedWords,
                      Fifo!WriteSideFill, Fifo!ReadSideWords, Pixels, Samples, Column
  <2>6. RegistersInv'
    BY <2>1 DEF ControllerInv, RegistersInv, slaveVars, masterVars
  <2>7. RoomInv'
    BY <2>3, <2>5 DEF ControllerInv, RoomInv
  <2>8. BurstInv'
    BY <2>1, <2>5 DEF ControllerInv, BurstInv, masterVars
  <2>9. QueueInv'
    BY <2>1, <2>3 DEF ControllerInv, QueueInv, masterVars, fifoVars, Stored, PixelsPerFrame,
                      Binned
  <2>10. PassInv'
    BY <2>1 DEF ControllerInv, PassInv, slaveVars, masterVars, Stored, FirstPixels, BufferBase,
                Value, Binned
  <2>11. QED BY <2>2, <2>4, <2>5, <2>6, <2>7, <2>8, <2>9, <2>10 DEF ControllerInv
<1>2. QED BY <1>1, TickController, RiseController, FallController DEF ControllerNext

LEMMA ControllerAlways == ControllerSpec => []ControllerInv
BY ControllerStart, ControllerStep, PTL DEF ControllerSpec

(* The FIFO never fills: between the edge at which the level passes the     *)
(* threshold and the edge at which the interface has seen it, no two pixels  *)
(* are on their way, whatever the threshold, the size of the FIFO and the   *)
(* delay with which the reads of the master show on the write side.         *)
THEOREM NeverFullCorrect == ControllerSpec => []NeverFull
<1>1. ControllerInv => NeverFull
  BY Level DEF ControllerInv, NeverFull
<1>2. QED BY <1>1, ControllerAlways, PTL

(* The master never reads an empty FIFO: it tests the level once, before a  *)
(* burst, and then takes a word in each clock in which the bus does.        *)
THEOREM BurstHasWords ==
  ControllerSpec => [](iRegStateSM # "WAITDATA" => Fifo!ReadSideWords > 0)
<1>1. ControllerInv => (iRegStateSM # "WAITDATA" => Fifo!ReadSideWords > 0)
  BY WordReady DEF ControllerInv
<1>2. QED BY <1>1, ControllerAlways, PTL

(* The address on the bus stays while the first word of a burst is stalled. *)
THEOREM AddressHeldCorrect == ControllerSpec => AddressHeld
<1>1. ASSUME ControllerInv, [ControllerNext]_vars, iRegStateSM = "BEGINTRANSFER",
             iRegStateSM' = "BEGINTRANSFER"
      PROVE  Master!MemoryAddress(Value(AS_AM_StartAddress))'
               = Master!MemoryAddress(Value(AS_AM_StartAddress))
  <2>1. AS_AM_StartAddress' = AS_AM_StartAddress /\ iRegCounterAddress' = iRegCounterAddress
    <3>1. ASSUME NEW wait \in BOOLEAN, ControllerTick(wait)
          PROVE  /\ AS_AM_StartAddress' = AS_AM_StartAddress
                 /\ iRegCounterAddress' = iRegCounterAddress
      <4>1. MasterInv /\ FifoInv /\ RegistersInv
        BY <1>1 DEF ControllerInv
      <4>2. AS_AM_StartAddress' = iRegBufferAddress
        BY <3>1, <4>1, RegisterSteps
      <4>3. AS_AM_StartAddress = iRegBufferAddress
        BY <1>1, <4>1 DEF RegistersInv
      <4>4. iRegCounterAddress' = iRegCounterAddress
        BY <1>1, <3>1, <4>1, MasterSteps DEF NoWord, OneWord, EndOfBurst
      <4>5. QED BY <4>2, <4>3, <4>4
    <3>2. CASE PixelRise \/ PixelFall \/ UNCHANGED vars
      BY <3>2 DEF PixelRise, PixelFall, vars, slaveVars, masterVars
    <3>3. QED BY <1>1, <3>1, <3>2 DEF ControllerNext
  <2>2. QED BY <1>1, <2>1 DEF Master!MemoryAddress, Value
<1>2. QED BY <1>1, ControllerAlways, PTL DEF ControllerSpec, AddressHeld

(* The end of a frame in a clock without a bus access is recorded if the    *)
(* buffer is free.                                                         *)
THEOREM FrameRecordedCorrect == ControllerSpec => FrameRecorded
<1>1. ASSUME ControllerInv, FrameEnds, ~wrote', nextBuffer \notin iRegStatus
      PROVE  nextBuffer \in iRegStatus' /\ nextBuffer' = (nextBuffer + 1) % 3
  <2>1. PICK wait \in BOOLEAN : ControllerTick(wait) /\ Sig_Status(wait)
    BY <1>1 DEF FrameEnds
  <2>2. MasterInv /\ FifoInv /\ RegistersInv
    BY <1>1 DEF ControllerInv
  <2>3. iRegStateSM = "BURST"
    BY <2>1, <2>2, MasterSteps
  <2>4. ~prevStatus
    BY <2>2, <2>3 DEF RegistersInv
  <2>5. /\ iRegStatus' = iRegStatus \cup {nextBuffer}
        /\ nextBuffer' = (nextBuffer + 1) % 3
    BY <1>1, <2>1, <2>2, <2>4, RegisterSteps
  <2>6. QED BY <2>5
<1>2. QED BY <1>1, ControllerAlways, PTL DEF ControllerSpec, FrameRecorded

(* When the master reports the end of a frame, the buffer the ring points   *)
(* to holds the frame, pixel by pixel, and nothing was written anywhere     *)
(* else: for every size of the frame, the bursts and the FIFO, wherever the *)
(* program stops the controller and whenever a frame is given up.           *)
THEOREM FrameIntegrityCorrect == ControllerSpec => FrameIntegrity
<1>1. ASSUME ControllerInv, FrameEnds PROVE pass' = WholeFrame(nextBuffer)
  <2>1. PICK wait \in BOOLEAN : ControllerTick(wait) /\ Sig_Status(wait)
    BY <1>1 DEF FrameEnds
  <2>2. /\ MasterInv /\ FifoInv /\ RegistersInv /\ BurstInv /\ QueueInv /\ PassInv
    BY <1>1 DEF ControllerInv
  <2>3. Sig_ReadCheck(wait) /\ Stored + 2 = PixelsPerFrame
    BY <2>1, <2>2, MasterSteps, StoredSteps
  <2>4. pass' = FirstPixels(nextBuffer, PixelsPerFrame)
    BY <2>1, <2>2, <2>3, WordStored
  <2>5. QED BY <2>4 DEF FirstPixels, WholeFrame
<1>2. QED BY <1>1, ControllerAlways, PTL DEF ControllerSpec, FrameIntegrity
=============================================================================
