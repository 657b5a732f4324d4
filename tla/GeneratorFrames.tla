--------------------------- MODULE GeneratorFrames ---------------------------
(***************************************************************************)
(* The shape of the frames that the sensor generator puts on the pixel bus, *)
(* under a program that may write any register at any clock.               *)
(***************************************************************************)
EXTENDS CmosSensorGenerator

VARIABLES pixels,    \* history: pixels of the current line so far
          lines      \* history: lines of the current frame so far

framesVars == <<generatorVars, pixels, lines>>

FramesInit == Init /\ pixels = 0 /\ lines = 0

(* A write takes the lower bits of its word, so that these are all writes.  *)
AnyWrite ==
  \/ NoWrite
  \/ \E field \in Fields, value \in Count : WriteConfig(field, value)
  \/ WriteStart
  \/ WriteStop

Observe ==
  /\ pixels' = IF ~line_valid' THEN 0
               ELSE IF line_valid THEN (pixels + 1) % (CounterSpace + 1) ELSE 1
  /\ lines' = IF ~frame_valid' THEN 0
              ELSE IF line_valid' /\ ~line_valid THEN (lines + 1) % (CounterSpace + 1)
              ELSE lines

FramesNext == Scan /\ AnyWrite /\ Observe

AnyProgram == FramesInit /\ [][FramesNext]_framesVars

----------------------------------------------------------------------------
(* A line that is not cut by a stop has exactly the configured number of    *)
(* pixels (the whole range of the counter if that is 0), and an uncut frame *)
(* exactly the configured number of lines, although the program may write   *)
(* the registers in every clock, also in the one between a start command    *)
(* and the first line.                                                      *)
FrameShape ==
  [][line_valid /\ ~line_valid' /\ reg_state' # "IDLE" =>
       /\ pixels = IF config.width > 0 THEN config.width ELSE CounterSpace
       /\ reg_state' # "LINE_LINE_BLANK" => lines = config.height]_framesVars
=============================================================================
