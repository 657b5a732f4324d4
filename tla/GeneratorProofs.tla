--------------------------- MODULE GeneratorProofs ---------------------------
(***************************************************************************)
(* The sensor generator and its driver, for every width of the registers.  *)
(* Under every program that writes the registers the frames have the       *)
(* configured shape.  For every maximum and every argument of the driver no *)
(* command is lost, and configure does what its comment says.               *)
(***************************************************************************)
EXTENDS GeneratorDriver, TLAPS

----------------------------------------------------------------------------
(* The values after reset fit in the registers.                             *)
LEMMA ResetTyped == ResetConfiguration \in Configuration
  BY GeneratorAssumption DEF ResetConfiguration, Configuration, Fields, Count

(* One clock of the scan.                                                  *)

(* A counter that wraps stays in its range.                                 *)
LEMMA Plus1Typed == ASSUME NEW n \in Count PROVE Plus1(n) \in Count
  BY GeneratorAssumption DEF Plus1, Count

(* The generator's registers as they are in every reachable state.          *)
ScanTyped ==
  /\ config \in Configuration
  /\ reg_start \in BOOLEAN /\ reg_stop \in BOOLEAN
  /\ reg_state \in State
  /\ width \in Count /\ height \in Count /\ blank \in Count

(* After a pixel the scan goes to a blank or stays where it is.             *)
LEMMA AfterPixelTyped ==
  ASSUME ScanTyped, NEW last \in BOOLEAN, AfterPixel(last), reg_state = "VALID"
  PROVE  /\ reg_state' \in State \ {"IDLE"}
         /\ height' \in Count /\ blank' \in Count
<1>1. config.height \in Int /\ height \in Int
  BY GeneratorAssumption DEF ScanTyped, Configuration, Fields, Count
<1>2. \/ ~last \/ height > config.height
      \/ last /\ height < config.height
      \/ last /\ height = config.height
  BY <1>1
<1>3. 1 \in Count
  BY GeneratorAssumption DEF Count
<1>4. QED BY <1>2, <1>3 DEF ScanTyped, AfterPixel, EnterBlank, EndOfFrame, State

(* One clock of the scan keeps the types, and it leaves IDLE by a start,    *)
(* comes back by a stop, and does neither in any other way.                 *)
LEMMA ScanState ==
  ASSUME ScanTyped, Scan
  PROVE  /\ reg_state' \in State
         /\ width' \in Count /\ height' \in Count /\ blank' \in Count
         /\ reg_state' = "IDLE" <=>
              IF reg_state = "IDLE" THEN ~reg_start ELSE reg_stop
<1>0. 0 \in Count /\ 1 \in Count
  BY GeneratorAssumption DEF Count
<1>1. Plus1(width) \in Count /\ Plus1(height) \in Count /\ Plus1(blank) \in Count
  BY Plus1Typed DEF ScanTyped
<1>2. CASE Idle
  BY <1>0, <1>2 DEF ScanTyped, Idle, BeginFrame, FirstPixel, EnterBlank, scanVars, State
<1>3. CASE Stopped
  BY <1>0, <1>1, <1>3 DEF ScanTyped, Stopped, State
<1>4. CASE Blank("FRAME_FRAME_BLANK", config.frame_frame, BeginFrame)
  BY <1>0, <1>1, <1>4 DEF ScanTyped, Blank, BeginFrame, FirstPixel, EnterBlank, State
<1>5. CASE Blank("FRAME_LINE_BLANK", config.frame_line, FirstPixel)
  BY <1>0, <1>1, <1>5 DEF ScanTyped, Blank, FirstPixel, State
<1>6. CASE Valid
  BY <1>1, <1>6, AfterPixelTyped DEF ScanTyped, Valid
<1>7. CASE Blank("LINE_LINE_BLANK", config.line_line, NextLine)
  BY <1>0, <1>1, <1>7 DEF ScanTyped, Blank, NextLine, State
<1>8. CASE Blank("LINE_FRAME_BLANK", config.line_frame, LeaveFrame)
  BY <1>0, <1>1, <1>8 DEF ScanTyped, Blank, LeaveFrame, EnterBlank, State
<1>9. QED BY <1>2, <1>3, <1>4, <1>5, <1>6, <1>7, <1>8 DEF Scan

(* A register keeps its width whatever word is written to it.               *)
LEMMA WriteConfigTyped ==
  ASSUME ScanTyped, NEW field \in Fields, NEW value \in Nat,
         WriteConfig(field, value)
  PROVE  config' \in Configuration
<1>1. value % CounterSpace \in Count
  BY GeneratorAssumption DEF Count
<1>2. QED BY <1>1 DEF ScanTyped, WriteConfig, Configuration

----------------------------------------------------------------------------
(* The counters against what has been put on the bus.                      *)

(* In a line the counter is at the current pixel, 0 standing for the last    *)
(* one of the longest line, and in a frame at the current line, unless it   *)
(* is configured for no line at all: that one never ends.                   *)
ShapeInv ==
  /\ pixels \in 0 .. CounterSpace /\ lines \in 0 .. CounterSpace
  /\ reg_state = "VALID" => height >= 1
  /\ reg_state = "VALID" /\ height <= config.height =>
       /\ lines = height
       /\ pixels = IF width = 0 THEN CounterSpace ELSE width
       /\ config.width > 0 => 1 <= width /\ width <= config.width
  /\ reg_state = "LINE_LINE_BLANK" =>
       height >= 1 /\ height < config.height /\ lines = height
  /\ reg_state \in {"IDLE", "FRAME_FRAME_BLANK", "FRAME_LINE_BLANK"} => lines = 0

(* The registers of the generator keep their types under any write.         *)
LEMMA AnyWriteTyped ==
  ASSUME ScanTyped, AnyWrite
  PROVE  /\ config' \in Configuration
         /\ reg_start' \in BOOLEAN /\ reg_stop' \in BOOLEAN
         /\ reg_state # "IDLE" => config' = config
<1>1. CASE NoWrite
  BY <1>1 DEF ScanTyped, NoWrite, NoPulse
<1>2. ASSUME NEW field \in Fields, NEW value \in Count, WriteConfig(field, value)
      PROVE  /\ config' \in Configuration
             /\ reg_start' \in BOOLEAN /\ reg_stop' \in BOOLEAN
             /\ reg_state # "IDLE" => config' = config
  <2>1. value \in Nat
    BY GeneratorAssumption DEF Count
  <2>2. config' \in Configuration
    BY <1>2, <2>1, WriteConfigTyped
  <2>3. QED BY <1>2, <2>2 DEF WriteConfig, NoPulse
<1>3. CASE WriteStart
  BY <1>3 DEF ScanTyped, WriteStart
<1>4. CASE WriteStop
  BY <1>4 DEF ScanTyped, WriteStop
<1>5. QED BY <1>1, <1>2, <1>3, <1>4 DEF AnyWrite

(* The history variables stay in their range.                               *)
LEMMA ObserveTyped ==
  ASSUME ShapeInv, Observe
  PROVE  pixels' \in 0 .. CounterSpace /\ lines' \in 0 .. CounterSpace
<1>1. ASSUME NEW n \in 0 .. CounterSpace
      PROVE  (n + 1) % (CounterSpace + 1) \in 0 .. CounterSpace
  BY GeneratorAssumption
<1>2. 0 \in 0 .. CounterSpace /\ 1 \in 0 .. CounterSpace
  BY GeneratorAssumption
<1>3. QED BY <1>1, <1>2 DEF ShapeInv, Observe

(* A frame begins with its first line, or with a blank before it.           *)
LEMMA FirstPixelShape ==
  ASSUME ScanTyped, ShapeInv, Observe, config' \in Configuration,
         reg_state \in {"IDLE", "FRAME_FRAME_BLANK", "FRAME_LINE_BLANK"}, FirstPixel
  PROVE  ShapeInv'
<1>1. reg_state' = "VALID" /\ width' = 1 /\ height' = 1
  BY DEF FirstPixel
<1>2. lines' = 1
  <2>1. lines' = (lines + 1) % (CounterSpace + 1) /\ lines = 0
    BY <1>1 DEF Observe, ShapeInv, frame_valid, line_valid
  <2>2. (0 + 1) % (CounterSpace + 1) = 1
    BY GeneratorAssumption
  <2>3. QED BY <2>1, <2>2
<1>3. pixels' = 1
  BY <1>1 DEF Observe, line_valid
<1>4. config'.width \in Int /\ config'.height \in Int
  BY GeneratorAssumption DEF Configuration, Fields, Count
<1>5. QED BY <1>1, <1>2, <1>3, <1>4, ObserveTyped DEF ShapeInv

LEMMA BeginFrameShape ==
  ASSUME ScanTyped, ShapeInv, Observe, config' \in Configuration,
         reg_state \in {"IDLE", "FRAME_FRAME_BLANK"}, BeginFrame
  PROVE  ShapeInv'
<1>1. CASE FirstPixel
  BY <1>1, FirstPixelShape
<1>2. CASE EnterBlank("FRAME_LINE_BLANK")
  <2>1. reg_state' = "FRAME_LINE_BLANK"
    BY <1>2 DEF EnterBlank
  <2>2. lines' = 0
    BY <2>1 DEF Observe, ShapeInv, frame_valid, line_valid
  <2>3. QED BY <2>1, <2>2, ObserveTyped DEF ShapeInv
<1>3. QED BY <1>1, <1>2 DEF BeginFrame

(* A clock that stays in its blank changes nothing that the shape needs.    *)
LEMMA WaitShape ==
  ASSUME ScanTyped, ShapeInv, Observe,
         config' = config \/ reg_state = "IDLE",
         reg_state # "VALID", UNCHANGED <<reg_state, width, height>>
  PROVE  ShapeInv'
<1>1. lines' = lines \/ lines' = 0
  BY DEF Observe, line_valid
<1>2. lines' = lines
  <2>1. CASE frame_valid
    BY <2>1 DEF Observe, line_valid, frame_valid
  <2>2. CASE ~frame_valid
    BY <1>1, <2>2 DEF ShapeInv, frame_valid
  <2>3. QED BY <2>1, <2>2
<1>3. QED BY <1>2, ObserveTyped DEF ShapeInv

(* One pixel: the line goes on, or a line or the frame is complete.         *)
LEMMA ValidShape ==
  ASSUME ScanTyped, ShapeInv, Observe, config' = config, Valid
  PROVE  ShapeInv'
<1>1. /\ width \in 0 .. CounterSpace - 1 /\ height \in 0 .. CounterSpace - 1
      /\ config.width \in 0 .. CounterSpace - 1 /\ config.height \in 0 .. CounterSpace - 1
  BY DEF ScanTyped, Configuration, Fields, Count
<1>2. reg_state = "VALID" /\ width' = Plus1(width) /\ height' = height
  BY DEF Valid, AfterPixel
<1>3. CASE width # config.width \/ height > config.height
  <2>1. reg_state' = "VALID"
    BY <1>2, <1>3 DEF Valid, AfterPixel
  <2>2. lines' = lines /\ pixels' = (pixels + 1) % (CounterSpace + 1)
    BY <1>2, <2>1 DEF Observe, line_valid, frame_valid
  <2>3. CASE height <= config.height
    <3>1. width # config.width
      BY <1>1, <1>3, <2>3
    <3>2. /\ lines = height
          /\ pixels = IF width = 0 THEN CounterSpace ELSE width
          /\ config.width > 0 => 1 <= width /\ width <= config.width
      BY <1>2, <2>3 DEF ShapeInv
    <3>3. width # 0 /\ pixels = width
      BY <1>1, <3>1, <3>2
    <3>4. pixels' = width + 1
      BY <1>1, <2>2, <3>3, GeneratorAssumption
    <3>5. width' = IF width + 1 = CounterSpace THEN 0 ELSE width + 1
      BY <1>1, <1>2, GeneratorAssumption DEF Plus1
    <3>6. pixels' = IF width' = 0 THEN CounterSpace ELSE width'
      BY <1>1, <3>4, <3>5, GeneratorAssumption
    <3>7. config.width > 0 => 1 <= width' /\ width' <= config.width
      BY <1>1, <3>1, <3>2, <3>5, GeneratorAssumption
    <3>8. QED BY <1>2, <2>1, <2>2, <3>2, <3>6, <3>7, ObserveTyped DEF ShapeInv
  <2>4. CASE ~(height <= config.height)
    BY <1>2, <2>1, <2>4, ObserveTyped DEF ShapeInv
  <2>5. QED BY <2>3, <2>4
<1>4. CASE width = config.width /\ height < config.height
  <2>1. reg_state' = "LINE_LINE_BLANK"
    BY <1>1, <1>4 DEF Valid, AfterPixel, EnterBlank
  <2>2. lines' = lines
    BY <2>1 DEF Observe, line_valid, frame_valid
  <2>3. height >= 1 /\ lines = height
    BY <1>1, <1>2, <1>4 DEF ShapeInv
  <2>4. QED BY <1>2, <1>4, <2>1, <2>2, <2>3, ObserveTyped DEF ShapeInv
<1>5. CASE width = config.width /\ height = config.height
  <2>1. reg_state' \in {"LINE_FRAME_BLANK", "FRAME_FRAME_BLANK"}
    BY <1>5 DEF Valid, AfterPixel, EndOfFrame, EnterBlank
  <2>2. reg_state' = "FRAME_FRAME_BLANK" => lines' = 0
    BY DEF Observe, frame_valid
  <2>3. QED BY <2>1, <2>2, ObserveTyped DEF ShapeInv
<1>6. QED BY <1>1, <1>3, <1>4, <1>5

(* The next line of a frame.                                                *)
LEMMA NextLineShape ==
  ASSUME ScanTyped, ShapeInv, Observe, config' = config,
         reg_state = "LINE_LINE_BLANK", NextLine
  PROVE  ShapeInv'
<1>1. /\ height \in 0 .. CounterSpace - 1
      /\ config.width \in 0 .. CounterSpace - 1 /\ config.height \in 0 .. CounterSpace - 1
  BY DEF ScanTyped, Configuration, Fields, Count
<1>2. reg_state' = "VALID" /\ width' = 1 /\ height' = Plus1(height)
  BY DEF NextLine
<1>3. height >= 1 /\ height < config.height /\ lines = height
  BY DEF ShapeInv
<1>4. height' = height + 1
  BY <1>1, <1>2, <1>3, GeneratorAssumption DEF Plus1
<1>5. lines' = (lines + 1) % (CounterSpace + 1) /\ pixels' = 1
  BY <1>2 DEF Observe, line_valid, frame_valid
<1>6. lines' = height + 1
  BY <1>1, <1>3, <1>5, GeneratorAssumption
<1>7. QED BY <1>1, <1>2, <1>3, <1>4, <1>5, <1>6, ObserveTyped DEF ShapeInv

(* The invariant holds from step to step.                                   *)
LEMMA ShapeStep ==
  ASSUME ScanTyped, ShapeInv, FramesNext
  PROVE  ScanTyped' /\ ShapeInv'
<1>1. /\ config' \in Configuration
      /\ reg_start' \in BOOLEAN /\ reg_stop' \in BOOLEAN
      /\ reg_state # "IDLE" => config' = config
  BY AnyWriteTyped DEF FramesNext
<1>2. ScanTyped'
  BY <1>1, ScanState DEF FramesNext, ScanTyped
<1> SUFFICES ShapeInv'
  BY <1>2
<1>3. Scan /\ Observe
  BY DEF FramesNext
<1>4. CASE Idle
  <2>1. CASE reg_start
    BY <1>1, <1>3, <1>4, <2>1, BeginFrameShape DEF Idle
  <2>2. CASE ~reg_start
    BY <1>3, <1>4, <2>2, WaitShape DEF Idle, scanVars
  <2>3. QED BY <2>1, <2>2
<1>5. CASE Stopped
  <2>1. reg_state' = "IDLE"
    BY <1>5 DEF Stopped
  <2>2. lines' = 0
    BY <1>3, <2>1 DEF Observe, frame_valid
  <2>3. QED BY <1>3, <2>1, <2>2, ObserveTyped DEF ShapeInv
<1>6. CASE Blank("FRAME_FRAME_BLANK", config.frame_frame, BeginFrame)
  BY <1>1, <1>3, <1>6, BeginFrameShape, WaitShape DEF Blank
<1>7. CASE Blank("FRAME_LINE_BLANK", config.frame_line, FirstPixel)
  BY <1>1, <1>3, <1>7, FirstPixelShape, WaitShape DEF Blank
<1>8. CASE Valid
  BY <1>1, <1>3, <1>8, ValidShape DEF Valid
<1>9. CASE Blank("LINE_LINE_BLANK", config.line_line, NextLine)
  BY <1>1, <1>3, <1>9, NextLineShape, WaitShape DEF Blank
<1>10. CASE Blank("LINE_FRAME_BLANK", config.line_frame, LeaveFrame)
  <2>1. CASE LeaveFrame
    <3>1. reg_state' = "FRAME_FRAME_BLANK"
      BY <2>1 DEF LeaveFrame, EnterBlank
    <3>2. lines' = 0
      BY <1>3, <3>1 DEF Observe, frame_valid
    <3>3. QED BY <1>3, <3>1, <3>2, ObserveTyped DEF ShapeInv
  <2>2. CASE ~LeaveFrame
    BY <1>1, <1>3, <1>10, <2>2, WaitShape DEF Blank
  <2>3. QED BY <2>1, <2>2
<1>11. QED BY <1>2, <1>3, <1>4, <1>5, <1>6, <1>7, <1>8, <1>9, <1>10 DEF Scan

(* Types and shape together.                                                *)
LEMMA ShapeInvariant == AnyProgram => [](ScanTyped /\ ShapeInv)
<1>1. FramesInit => ScanTyped /\ ShapeInv
  <2>1. 0 \in Count /\ 0 \in 0 .. CounterSpace
    BY GeneratorAssumption DEF Count
  <2>2. QED BY <2>1, ResetTyped DEF FramesInit, Init, ScanTyped, ShapeInv, State
<1>2. ScanTyped /\ ShapeInv /\ [FramesNext]_framesVars => (ScanTyped /\ ShapeInv)'
  <2> SUFFICES ASSUME ScanTyped, ShapeInv, [FramesNext]_framesVars
               PROVE  ScanTyped' /\ ShapeInv'
    OBVIOUS
  <2>1. CASE UNCHANGED framesVars
    BY <2>1 DEF ScanTyped, ShapeInv, framesVars, generatorVars, scanVars
  <2>2. CASE FramesNext
    BY <2>2, ShapeStep
  <2>3. QED BY <2>1, <2>2
<1>3. QED BY <1>1, <1>2, PTL DEF AnyProgram

(* Whatever the program writes and when: a line that is not cut by a stop    *)
(* has the configured number of pixels, and an uncut frame the configured   *)
(* number of lines.                                                         *)
THEOREM FrameShapeCorrect == AnyProgram => FrameShape
<1>1. /\ ScanTyped /\ ShapeInv /\ [FramesNext]_framesVars
      => [line_valid /\ ~line_valid' /\ reg_state' # "IDLE" =>
            /\ pixels = IF config.width > 0 THEN config.width ELSE CounterSpace
            /\ reg_state' # "LINE_LINE_BLANK" => lines = config.height]_framesVars
  <2> SUFFICES ASSUME ScanTyped, ShapeInv, FramesNext,
                      line_valid, ~line_valid', reg_state' # "IDLE"
               PROVE  /\ pixels = IF config.width > 0 THEN config.width ELSE CounterSpace
                      /\ reg_state' # "LINE_LINE_BLANK" => lines = config.height
    OBVIOUS
  <2>1. /\ width \in 0 .. CounterSpace - 1 /\ height \in 0 .. CounterSpace - 1
        /\ config.width \in 0 .. CounterSpace - 1
        /\ config.height \in 0 .. CounterSpace - 1
    BY DEF ScanTyped, Configuration, Fields, Count
  <2>2. reg_state = "VALID" /\ reg_state' # "VALID"
    BY DEF line_valid
  <2>3. Valid
    BY <2>2 DEF FramesNext, Scan, Idle, Stopped, Blank
  <2>4. width = config.width /\ height <= config.height
    BY <2>1, <2>2, <2>3 DEF Valid, AfterPixel
  <2>5. pixels = (IF width = 0 THEN CounterSpace ELSE width) /\ lines = height
    BY <2>2, <2>4 DEF ShapeInv
  <2>6. height # config.height => reg_state' = "LINE_LINE_BLANK"
    BY <2>1, <2>3, <2>4 DEF Valid, AfterPixel, EnterBlank
  <2>7. QED BY <2>1, <2>4, <2>5, <2>6
<1>2. QED BY <1>1, ShapeInvariant, PTL DEF AnyProgram, FrameShape

----------------------------------------------------------------------------
(* The six registers.                                                      *)

(* No two of the six calls in init and configure are for the same register. *)
LEMMA RegisterDistinct ==
  ASSUME NEW i \in 1 .. 6, NEW j \in 1 .. 6, Register[i] = Register[j]
  PROVE  i = j
  BY DEF Register

(* The six calls are for the fields of the configuration, and for all.      *)
LEMMA RegisterFields ==
  /\ \A i \in 1 .. 6 : Register[i] \in Fields
  /\ \A f \in Fields : \E i \in 1 .. 6 : Register[i] = f
<1>1. ASSUME NEW i \in 1 .. 6 PROVE Register[i] \in Fields
  BY DEF Register, Fields
<1>2. ASSUME NEW f \in Fields PROVE \E i \in 1 .. 6 : Register[i] = f
  <2>1. /\ Register[1] = "width" /\ Register[2] = "height"
        /\ Register[3] = "frame_frame" /\ Register[4] = "frame_line"
        /\ Register[5] = "line_line" /\ Register[6] = "line_frame"
    BY DEF Register
  <2>2. QED BY <2>1, <1>2 DEF Fields
<1>3. QED BY <1>1, <1>2

----------------------------------------------------------------------------
(* Types.                                                                  *)

(* What the program may pass to init and configure.                         *)
LEMMA ArgumentsTyped ==
  ASSUME NEW a \in Arguments \cup {Minimum}
  PROVE  a \in [Fields -> Nat]
<1>1. Minimum \in [Fields -> Nat]
  BY ResetTyped, GeneratorAssumption DEF Minimum, Configuration, Count
<1>2. QED BY <1>1, DriverAssumption

(* The driver's part of TypeOK, flags and the rest apart.                   *)
FlagsTyped == success \in BOOLEAN /\ accessed \in BOOLEAN /\ on \in BOOLEAN
CallTyped ==
  /\ before \in Configuration
  /\ call \in {"none", "init", "configure"}
  /\ args \in Arguments \cup {Minimum}
  /\ register \in 1 .. 7
  /\ status \in {"unread", "idle", "busy"}

(* The histories of pixels and lines stay in their range.                   *)
HistoryTyped == pixels \in 0 .. CounterSpace /\ lines \in 0 .. CounterSpace

LEMMA TypeParts == TypeOK <=> ScanTyped /\ FlagsTyped /\ CallTyped /\ HistoryTyped
  BY DEF TypeOK, ScanTyped, FlagsTyped, CallTyped, HistoryTyped

(* The variables keep their types.                                          *)
LEMMA TypeStep == TypeOK /\ [Next]_vars => TypeOK'
<1> SUFFICES ASSUME TypeOK, [Next]_vars PROVE TypeOK'
  OBVIOUS
<1>0. ScanTyped /\ FlagsTyped /\ CallTyped /\ HistoryTyped
  BY TypeParts
<1>1. CASE UNCHANGED vars
  BY <1>1 DEF TypeOK, vars, framesVars, generatorVars, scanVars, driverVars
<1>2. CASE Next
  <2>1. Writing => register \in 1 .. 6 /\ Field \in Fields /\ args[Field] \in Nat
    BY <1>0, RegisterFields, ArgumentsTyped DEF CallTyped, Writing, Field
  <2>2. config' \in Configuration
    <3>1. CASE WriteRegister
      BY <1>0, <2>1, <3>1, WriteConfigTyped DEF WriteRegister
    <3>2. CASE ~WriteRegister
      BY <1>0, <1>2, <3>2 DEF Next, Proceed, start, stop, init, configure,
         EnterStopped, CommandStart, CommandStop, WriteStart, WriteStop,
         OutOfBounds, is_idle, Refuse, Return, Compute, NoAccess, NoWrite, ScanTyped
    <3>3. QED BY <3>1, <3>2
  <2>3. reg_start' \in BOOLEAN /\ reg_stop' \in BOOLEAN
    BY <1>2 DEF Next, Proceed, start, stop, init, configure, EnterStopped,
       CommandStart, CommandStop, WriteStart, WriteStop, OutOfBounds, is_idle,
       WriteRegister, WriteConfig, Refuse, Return, Compute, NoAccess, NoWrite, NoPulse
  <2>4. ScanTyped'
    BY <1>0, <1>2, <2>2, <2>3, ScanState DEF Next, ScanTyped
  <2>5. FlagsTyped'
    BY <1>0, <1>2 DEF FlagsTyped, Next, Proceed, start, stop, init, configure,
       EnterStopped, Enter, CommandStart, CommandStop, Access, OutOfBounds, is_idle,
       WriteRegister, NextRegister, Refuse, Return, Compute, NoAccess, driverVars
  <2>6. CallTyped'
    <3>1. CASE start \/ stop \/ Compute
      BY <1>0, <3>1 DEF CallTyped, start, stop, Compute, driverVars
    <3>2. CASE init \/ configure
      BY <1>0, <3>2 DEF CallTyped, ScanTyped, init, configure, EnterStopped, Enter
    <3>3. CASE OutOfBounds \/ WriteRegister \/ Refuse
      BY <1>0, <2>1, <3>3 DEF CallTyped, OutOfBounds, WriteRegister, Refuse, NextRegister
    <3>4. CASE is_idle \/ Return
      BY <1>0, <3>4 DEF CallTyped, is_idle, Return
    <3>5. QED BY <1>2, <3>1, <3>2, <3>3, <3>4 DEF Next, Proceed
  <2>7. HistoryTyped'
    <3>1. ASSUME NEW n \in 0 .. CounterSpace
          PROVE  (n + 1) % (CounterSpace + 1) \in 0 .. CounterSpace
      BY GeneratorAssumption
    <3>2. 0 \in 0 .. CounterSpace /\ 1 \in 0 .. CounterSpace
      BY GeneratorAssumption
    <3>3. QED BY <1>0, <1>2, <3>1, <3>2 DEF HistoryTyped, Next, Observe
  <2>8. QED BY <2>4, <2>5, <2>6, <2>7 DEF TypeOK, ScanTyped, FlagsTyped, CallTyped, HistoryTyped
<1>3. QED BY <1>1, <1>2

(* The registers of the generator and the variables of the driver keep      *)
(* their types.                                                             *)
THEOREM TypeCorrect == Spec => []TypeOK
<1>1. DriverInit => TypeOK
  <2> SUFFICES ASSUME DriverInit PROVE TypeOK
    OBVIOUS
  <2>0. 0 \in Count
    BY GeneratorAssumption DEF Count
  <2>1. ScanTyped
    BY <2>0, ResetTyped DEF DriverInit, FramesInit, Init, ScanTyped, State
  <2>2. FlagsTyped
    BY DEF DriverInit, FlagsTyped
  <2>3. CallTyped
    BY ResetTyped DEF DriverInit, CallTyped
  <2>4. HistoryTyped
    BY GeneratorAssumption DEF DriverInit, FramesInit, HistoryTyped
  <2>5. QED BY <2>1, <2>2, <2>3, <2>4, TypeParts
<1>2. QED BY <1>1, TypeStep, PTL DEF Spec

----------------------------------------------------------------------------
(* Commands.                                                               *)

(* Where a command is between the bus and the scan: a pulse is only there   *)
(* in the clock after the access, and then the scan is on its way to where  *)
(* the command wants it.  A function that configures has begun with a stop. *)
CommandInv ==
  /\ ~accessed => ~reg_start /\ ~reg_stop
  /\ on => ~reg_stop /\ (reg_start <=> reg_state = "IDLE")
  /\ ~on => ~reg_start /\ (reg_stop <=> reg_state # "IDLE")
  /\ call # "none" => ~on

(* The invariant holds from step to step.                                   *)
LEMMA CommandStep == TypeOK /\ CommandInv /\ [Next]_vars => CommandInv'
<1> SUFFICES ASSUME TypeOK, CommandInv, [Next]_vars PROVE CommandInv'
  OBVIOUS
<1>0. ScanTyped /\ FlagsTyped
  BY TypeParts
<1>1. CASE UNCHANGED vars
  BY <1>1 DEF CommandInv, vars, framesVars, generatorVars, scanVars, driverVars
<1>2. CASE Next
  <2>1. reg_state' = "IDLE" <=>
          IF reg_state = "IDLE" THEN ~reg_start ELSE reg_stop
    BY <1>0, <1>2, ScanState DEF Next
  (* After the step the scan is where the command in force wants it. *)
  <2>2. reg_state' = "IDLE" <=> IF accessed THEN ~on ELSE reg_state = "IDLE"
    BY <1>0, <2>1 DEF CommandInv, FlagsTyped
  <2>3. CASE start
    BY <1>0, <2>2, <2>3 DEF CommandInv, FlagsTyped, start, CommandStart, Access,
       WriteStart, driverVars
  <2>4. CASE stop \/ init \/ configure
    BY <1>0, <2>2, <2>4 DEF CommandInv, FlagsTyped, stop, init, configure,
       EnterStopped, Enter, CommandStop, Access, WriteStop, driverVars
  <2>5. CASE Proceed /\ UNCHANGED on
    <3>1. reg_start' = FALSE /\ reg_stop' = FALSE
      BY <2>5 DEF Proceed, OutOfBounds, is_idle, WriteRegister, WriteConfig, Refuse,
         Return, Compute, NoAccess, NoWrite, NoPulse
    <3>2. call' # "none" => call # "none"
      BY <2>5 DEF Proceed, OutOfBounds, is_idle, WriteRegister, NextRegister, Refuse,
         Return, Compute, driverVars
    <3>3. on' = on
      BY <2>5
    <3>4. reg_state' = "IDLE" <=> ~on
      BY <1>0, <2>1 DEF CommandInv, FlagsTyped
    <3>5. QED BY <3>1, <3>2, <3>3, <3>4 DEF CommandInv
  <2>6. QED BY <1>2, <2>3, <2>4, <2>5 DEF Next
<1>3. QED BY <1>1, <1>2

(* Types and commands together.                                             *)
LEMMA CommandInvariant == Spec => [](TypeOK /\ CommandInv)
<1>1. DriverInit => CommandInv
  BY DEF DriverInit, FramesInit, Init, CommandInv
<1>2. QED BY <1>1, CommandStep, TypeCorrect, PTL DEF Spec

(* No command of the driver is lost, whatever state the generator is in:    *)
(* once the clock after the access is over, the generator scans exactly if   *)
(* the last command was start.                                              *)
THEOREM CommandsTakenCorrect == Spec => []CommandsTaken
<1>1. TypeOK /\ CommandInv => CommandsTaken
  BY DEF TypeOK, CommandInv, CommandsTaken
<1>2. QED BY <1>1, CommandInvariant, PTL

----------------------------------------------------------------------------
(* The configuration.                                                      *)

(* The argument for the i-th register is within the bounds of the driver.   *)
Fits(i) == InBounds(Register[i], args[Register[i]])

(* A function that configures has dealt with the registers before register. *)
ConfigInv ==
  call # "none" =>
    /\ status # "busy"
    /\ status = "idle" => register <= 6 /\ Fits(register)
    /\ success <=> \A i \in 1 .. 6 : i < register => Fits(i)
    /\ \A i \in 1 .. 6 :
         config[Register[i]] = IF i < register /\ Fits(i) THEN args[Register[i]]
                                                       ELSE before[Register[i]]

(* A value within the bounds fits in a register whole.                      *)
LEMMA InBoundsWhole ==
  ASSUME NEW field \in Fields, NEW value \in Nat, InBounds(field, value)
  PROVE  value % CounterSpace = value
<1>1. max_reg_value \in Nat
  BY DriverAssumption DEF max_reg_value
<1>2. value < CounterSpace
  BY <1>1, DriverAssumption, GeneratorAssumption DEF InBounds
<1>3. QED BY <1>2, GeneratorAssumption

(* While a function configures and the bus is free, the generator is idle.  *)
LEMMA IdleWhenFree ==
  ASSUME CommandInv, TypeOK, call # "none", ~accessed
  PROVE  reg_state = "IDLE"
  BY DEF CommandInv, TypeOK

(* The next register is dealt with; the others are as they were.            *)
LEMMA NextRegisterStep ==
  ASSUME TypeOK, ConfigInv, Writing, NEW written \in BOOLEAN, NextRegister(written),
         written <=> Fits(register),
         config' = IF written THEN [config EXCEPT ![Field] = args[Field]] ELSE config
  PROVE  ConfigInv'
<1>1. register \in 1 .. 6 /\ Field = Register[register] /\ Field \in Fields
  BY RegisterFields DEF TypeOK, Writing, Field
<1>2. /\ register' = register + 1 /\ status' = "unread"
      /\ success' = (success /\ written)
      /\ call' = call /\ args' = args /\ before' = before
  BY DEF NextRegister
<1>3. ASSUME NEW i \in 1 .. 6 PROVE Fits(i)' <=> Fits(i)
  BY <1>2 DEF Fits, InBounds, max_reg_value, Minimum
<1>4. ASSUME NEW i \in 1 .. 6 PROVE i < register' <=> i < register \/ i = register
  BY <1>1, <1>2
<1>5. success <=> \A i \in 1 .. 6 : i < register => Fits(i)
  BY DEF ConfigInv, Writing
<1>6. success' <=> \A i \in 1 .. 6 : i < register' => Fits(i)'
  <2>1. success' <=> success /\ Fits(register)
    BY <1>2
  <2>2. QED BY <1>1, <1>3, <1>4, <1>5, <2>1
<1>7. ASSUME NEW i \in 1 .. 6
      PROVE  config'[Register[i]] = IF i < register' /\ Fits(i)' THEN args'[Register[i]]
                                                             ELSE before'[Register[i]]
  <2>1. config[Register[i]] = IF i < register /\ Fits(i) THEN args[Register[i]]
                                                      ELSE before[Register[i]]
    BY DEF ConfigInv, Writing
  <2>2. CASE i = register
    BY <1>1, <1>2, <1>3, <1>4, <2>1, <2>2 DEF TypeOK, Configuration
  <2>3. CASE i # register
    <3>1. Register[i] # Field /\ Register[i] \in Fields
      BY <1>1, <2>3, RegisterDistinct, RegisterFields
    <3>2. config'[Register[i]] = config[Register[i]]
      BY <3>1 DEF TypeOK, Configuration
    <3>3. QED BY <1>2, <1>3, <1>4, <2>1, <2>3, <3>2
  <2>4. QED BY <2>2, <2>3
<1>8. QED BY <1>2, <1>6, <1>7 DEF ConfigInv

(* The invariant holds from step to step.                                   *)
LEMMA ConfigStep ==
  TypeOK /\ CommandInv /\ ConfigInv /\ [Next]_vars => ConfigInv'
<1> SUFFICES ASSUME TypeOK, CommandInv, ConfigInv, [Next]_vars PROVE ConfigInv'
  OBVIOUS
<1>1. ASSUME config' = config, UNCHANGED driverVars PROVE ConfigInv'
  BY <1>1 DEF ConfigInv, Fits, InBounds, max_reg_value, Minimum, driverVars
<1>2. CASE UNCHANGED vars
  BY <1>1, <1>2 DEF vars, framesVars, generatorVars
<1>3. CASE start \/ stop \/ Compute
  BY <1>1, <1>3 DEF start, stop, Compute, CommandStart, CommandStop, WriteStart,
     WriteStop, NoAccess, NoWrite
<1>4. CASE init \/ configure
  <2>1. /\ register' = 1 /\ status' = "unread" /\ success' = TRUE
        /\ before' = config /\ config' = config
    BY <1>4 DEF init, configure, EnterStopped, Enter, CommandStop, WriteStop
  <2>2. QED BY <2>1 DEF ConfigInv
<1>5. CASE OutOfBounds
  <2>1. ~Fits(register) /\ Writing /\ NextRegister(FALSE) /\ config' = config
    BY <1>5 DEF OutOfBounds, NoAccess, NoWrite, Fits, Field
  <2>2. QED BY <2>1, NextRegisterStep
<1>6. CASE is_idle
  <2>1. /\ Fits(register) /\ Writing /\ ~accessed /\ config' = config
        /\ status' = IF reg_state = "IDLE" THEN "idle" ELSE "busy"
        /\ UNCHANGED <<call, args, register, success, before>>
    BY <1>6 DEF is_idle, Access, NoWrite, Fits, Field
  <2>2. status' = "idle"
    BY <2>1, IdleWhenFree DEF Writing
  <2>3. QED BY <2>1, <2>2 DEF ConfigInv, Writing, Fits, InBounds, max_reg_value, Minimum
<1>7. CASE WriteRegister
  <2>1. /\ Writing /\ status = "idle" /\ ~accessed /\ NextRegister(TRUE)
        /\ WriteConfig(Field, args[Field])
    BY <1>7 DEF WriteRegister, Access
  <2>2. Fits(register) /\ reg_state = "IDLE"
    BY <2>1, IdleWhenFree DEF ConfigInv, Writing
  <2>3. Field \in Fields /\ args[Field] \in Nat
    BY <2>1, RegisterFields, ArgumentsTyped DEF TypeOK, Writing, Field
  <2>4. args[Field] % CounterSpace = args[Field]
    BY <2>2, <2>3, InBoundsWhole DEF Fits, Field
  <2>5. config' = [config EXCEPT ![Field] = args[Field]]
    BY <2>1, <2>2, <2>4 DEF WriteConfig
  <2>6. QED BY <2>1, <2>2, <2>5, NextRegisterStep
<1>8. CASE Refuse
  BY <1>8 DEF ConfigInv, Refuse, Writing
<1>9. CASE Return
  BY <1>9 DEF ConfigInv, Return
<1>10. QED BY <1>2, <1>3, <1>4, <1>5, <1>6, <1>7, <1>8, <1>9 DEF Next, Proceed

(* For every argument, and whatever the generator was doing: on return of   *)
(* init or configure every register whose value was within the bounds holds *)
(* it, the others are as before the call, and the result is true if and only *)
(* if all values were within the bounds.                                     *)
THEOREM ConfiguredCorrect == Spec => Configured
<1>1. DriverInit => ConfigInv
  BY DEF DriverInit, ConfigInv
<1>2. /\ TypeOK /\ CommandInv /\ ConfigInv /\ [Next]_vars
      => [call # "none" /\ call' = "none" =>
            /\ success <=> \A f \in Fields : InBounds(f, args[f])
            /\ \A f \in Fields :
                 config[f] = IF InBounds(f, args[f]) THEN args[f] ELSE before[f]]_vars
  <2> SUFFICES ASSUME TypeOK, ConfigInv, Next, call # "none", call' = "none"
               PROVE  /\ success <=> \A f \in Fields : InBounds(f, args[f])
                      /\ \A f \in Fields :
                           config[f] = IF InBounds(f, args[f]) THEN args[f] ELSE before[f]
    OBVIOUS
  <2>1. register = 7
    BY DEF Next, Proceed, start, stop, init, configure, EnterStopped, Enter, OutOfBounds,
       is_idle, WriteRegister, Refuse, NextRegister, Return, Compute, driverVars
  <2>2. \A i \in 1 .. 6 : i < register
    BY <2>1
  <2>3. success <=> \A i \in 1 .. 6 : Fits(i)
    BY <2>2 DEF ConfigInv
  <2>4. \A i \in 1 .. 6 : config[Register[i]] = IF Fits(i) THEN args[Register[i]]
                                                        ELSE before[Register[i]]
    BY <2>2 DEF ConfigInv
  <2>5. QED BY <2>3, <2>4, RegisterFields DEF Fits
<1>3. QED BY <1>1, <1>2, ConfigStep, CommandInvariant, PTL DEF Spec, Configured

----------------------------------------------------------------------------
(* The frames.                                                             *)

(* The driver is one of the programs of GeneratorFrames: each of its        *)
(* accesses is a write of a register that any program could make.           *)
THEOREM DriverIsProgram == Spec => AnyProgram
<1>1. DriverInit => FramesInit
  BY DEF DriverInit
<1>2. TypeOK /\ [Next]_vars => [FramesNext]_framesVars
  <2> SUFFICES ASSUME TypeOK, [Next]_vars PROVE [FramesNext]_framesVars
    OBVIOUS
  <2>0. ScanTyped /\ CallTyped
    BY TypeParts
  <2>1. CASE UNCHANGED vars
    BY <2>1 DEF vars
  <2>2. CASE Next
    <3> SUFFICES AnyWrite
      BY <2>2 DEF Next, FramesNext
    <3>1. CASE start \/ stop \/ init \/ configure
      BY <3>1 DEF start, stop, init, configure, EnterStopped, CommandStart, CommandStop,
         AnyWrite
    <3>2. CASE OutOfBounds \/ is_idle \/ Refuse \/ Return \/ Compute
      BY <3>2 DEF OutOfBounds, is_idle, Refuse, Return, Compute, NoAccess, AnyWrite
    <3>3. CASE WriteRegister
      <4>1. register \in 1 .. 6 /\ Field \in Fields /\ args[Field] \in Nat
        BY <2>0, <3>3, RegisterFields, ArgumentsTyped
        DEF CallTyped, WriteRegister, Writing, Field
      <4>2. args[Field] % CounterSpace \in Count
        BY <4>1, GeneratorAssumption DEF Count
      <4>3. (args[Field] % CounterSpace) % CounterSpace = args[Field] % CounterSpace
        BY <4>1, GeneratorAssumption
      <4>4. WriteConfig(Field, args[Field] % CounterSpace)
        BY <3>3, <4>3 DEF WriteRegister, WriteConfig
      <4>5. QED BY <4>1, <4>2, <4>4 DEF AnyWrite
    <3>4. QED BY <2>2, <3>1, <3>2, <3>3 DEF Next, Proceed
  <2>3. QED BY <2>1, <2>2
<1>3. QED BY <1>1, <1>2, TypeCorrect, PTL DEF Spec, AnyProgram

(* Under the driver, too, every line and every frame has the configured     *)
(* shape unless it is cut by a stop.                                        *)
THEOREM DriverFrameShape == Spec => FrameShape
  BY DriverIsProgram, FrameShapeCorrect
=============================================================================
