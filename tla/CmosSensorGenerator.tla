------------------------- MODULE CmosSensorGenerator -------------------------
(***************************************************************************)
(* The generator that stands for the camera on the board                   *)
(* (cmos_sensor_output_generator.vhd): configuration registers and a state *)
(* machine that scans frames, one pixel per clock.  A step is one rising   *)
(* edge of clk, which is also the pixel clock of the camera interface.     *)
(*                                                                         *)
(* The code has one counter per blank, loaded on the way into the blank and *)
(* read only there.  The variable blank stands for the four: it is the      *)
(* counter of the current blank, and 0 outside the blanks.                  *)
(***************************************************************************)
EXTENDS Integers

CONSTANT CounterSpace      \* 2^CONFIG_REG_WIDTH

ASSUME GeneratorAssumption == CounterSpace \in Nat /\ CounterSpace >= 2

Count == 0 .. CounterSpace - 1

Fields == {"width", "height", "frame_frame", "frame_line", "line_line", "line_frame"}

Configuration == [Fields -> Count]

State == {"IDLE", "FRAME_FRAME_BLANK", "FRAME_LINE_BLANK", "VALID",
          "LINE_LINE_BLANK", "LINE_FRAME_BLANK"}

VARIABLES config, reg_start, reg_stop,          \* MM_WRITE
          reg_state, width, height, blank       \* STATE_LOGIC

scanVars == <<reg_state, width, height, blank>>
generatorVars == <<config, reg_start, reg_stop, scanVars>>

ResetConfiguration ==
  [width |-> 1, height |-> 1, frame_frame |-> 1, frame_line |-> 0,
   line_line |-> 1, line_frame |-> 0]

Init ==
  /\ config = ResetConfiguration
  /\ reg_start = FALSE /\ reg_stop = FALSE
  /\ reg_state = "IDLE"
  /\ width = 0 /\ height = 0 /\ blank = 0

frame_valid == reg_state \notin {"IDLE", "FRAME_FRAME_BLANK"}
line_valid == reg_state = "VALID"

----------------------------------------------------------------------------
(* NEXT_STATE_LOGIC                                                        *)

Plus1(counter) == (counter + 1) % CounterSpace

FirstPixel ==
  reg_state' = "VALID" /\ width' = 1 /\ height' = 1 /\ blank' = 0

EnterBlank(state) == reg_state' = state /\ blank' = 1

(* A frame begins, behind its leading blank if there is one. *)
BeginFrame ==
  IF config.frame_line > 0
  THEN EnterBlank("FRAME_LINE_BLANK") /\ UNCHANGED <<width, height>>
  ELSE FirstPixel

(* Wrong: the counter of pixels is cleared, not set to the first pixel. *)
NextLineFromZero ==
  reg_state' = "VALID" /\ width' = 0 /\ height' = Plus1(height) /\ blank' = 0

NextLine ==
  reg_state' = "VALID" /\ width' = 1 /\ height' = Plus1(height) /\ blank' = 0

EndOfFrame ==
  IF config.line_frame > 0 THEN EnterBlank("LINE_FRAME_BLANK")
                           ELSE EnterBlank("FRAME_FRAME_BLANK")

LeaveFrame == EnterBlank("FRAME_FRAME_BLANK") /\ UNCHANGED <<width, height>>

Idle ==
  /\ reg_state = "IDLE"
  /\ IF reg_start THEN BeginFrame ELSE UNCHANGED scanVars

(* A stop takes effect in any state but IDLE. *)
Stopped ==
  /\ reg_state # "IDLE" /\ reg_stop
  /\ reg_state' = "IDLE"
  /\ width' = IF reg_state = "VALID" THEN Plus1(width) ELSE width
  /\ blank' = 0
  /\ UNCHANGED height

(* Wrong: the test of lines 216, 238, 299 and 315 is dropped. *)
BlankUnstoppable(state, n, After) ==
  /\ reg_state = state
  /\ IF blank = n
     THEN After
     ELSE blank' = Plus1(blank) /\ UNCHANGED <<reg_state, width, height>>

(* One clock of a blank of n clocks, and what follows its last clock. *)
Blank(state, n, After) ==
  /\ reg_state = state /\ ~reg_stop
  /\ IF blank = n
     THEN After
     ELSE blank' = Plus1(blank) /\ UNCHANGED <<reg_state, width, height>>

(* What follows a pixel, by its place in the line and in the frame. *)
AfterPixel(lastInLine) ==
  /\ ~lastInLine \/ height > config.height => UNCHANGED <<reg_state, blank>>
  /\ lastInLine /\ height < config.height => EnterBlank("LINE_LINE_BLANK")
  /\ lastInLine /\ height = config.height => EndOfFrame
  /\ UNCHANGED height

Valid ==
  /\ reg_state = "VALID" /\ ~reg_stop
  /\ width' = Plus1(width)
  /\ AfterPixel(width = config.width)

Scan ==
  \/ Idle
  \/ Stopped
  \/ Blank("FRAME_FRAME_BLANK", config.frame_frame, BeginFrame)
  \/ Blank("FRAME_LINE_BLANK", config.frame_line, FirstPixel)
  \/ Valid
  \/ Blank("LINE_LINE_BLANK", config.line_line, NextLine)
  \/ Blank("LINE_FRAME_BLANK", config.line_frame, LeaveFrame)

----------------------------------------------------------------------------
(* MM_WRITE: commands are pulses of one clock, and what a write may do      *)
(* depends on the state before the edge.  A register takes the lower bits   *)
(* of the word that is written.                                             *)

NoPulse == reg_start' = FALSE /\ reg_stop' = FALSE

NoWrite == NoPulse /\ UNCHANGED config

WriteConfig(field, value) ==
  /\ NoPulse
  /\ config' = IF reg_state = "IDLE"
                THEN [config EXCEPT ![field] = value % CounterSpace]
                ELSE config

WriteStart ==
  /\ reg_start' = (reg_state = "IDLE") /\ reg_stop' = FALSE
  /\ UNCHANGED config

WriteStop ==
  /\ reg_stop' = (reg_state # "IDLE") /\ reg_start' = FALSE
  /\ UNCHANGED config
=============================================================================
