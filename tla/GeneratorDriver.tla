--------------------------- MODULE GeneratorDriver ---------------------------
(***************************************************************************)
(* The driver of the sensor generator (cmos_sensor_output_generator.c) on  *)
(* the hardware it drives.  A program calls init, configure, start and     *)
(* stop in any order; each is a sequence of bus accesses while the         *)
(* generator scans on.  A step is one clock of the generator, with at most *)
(* one access of the processor.                                            *)
(*                                                                         *)
(* Two accesses are never in consecutive clocks: every access crosses from *)
(* the clock of the processor to that of the generator and back.           *)
(***************************************************************************)
EXTENDS GeneratorFrames

CONSTANTS max_width, max_height,   \* what the driver is told of the hardware
          Arguments                \* what the program asks configure for

Register == <<"width", "height", "frame_frame", "frame_line", "line_line",
              "line_frame">>

Minimum == ResetConfiguration

max_reg_value == IF max_width > max_height THEN max_width ELSE max_height

(* The registers are as wide as the largest value needs, bit_width(max(...)). *)
ASSUME DriverAssumption ==
  /\ max_width \in Nat \ {0} /\ max_height \in Nat \ {0}
  /\ max_reg_value < CounterSpace
  /\ Arguments \subseteq [Fields -> Nat]

VARIABLES
  call,       \* the function that runs: "init", "configure" or "none"
  args,       \* its arguments
  register,   \* the register it is at, 7 when it is about to return
  status,     \* what it knows of STATUS: "unread", "idle" or "busy"
  success,    \* its result so far
  accessed,   \* the bus was used in the last clock
  before,     \* history: the configuration when it was called
  on          \* history: the last command was start

driverVars == <<call, args, register, status, success, before>>
vars == <<framesVars, driverVars, accessed, on>>

DriverInit ==
  /\ FramesInit
  /\ call = "none" /\ args = Minimum /\ register = 1
  /\ status = "unread" /\ success = TRUE
  /\ accessed = FALSE
  /\ before = ResetConfiguration
  /\ on = FALSE

Access == ~accessed /\ accessed' = TRUE
NoAccess == accessed' = FALSE /\ NoWrite

----------------------------------------------------------------------------
CommandStart == Access /\ WriteStart /\ on' = TRUE
CommandStop == Access /\ WriteStop /\ on' = FALSE

start == call = "none" /\ CommandStart /\ UNCHANGED driverVars

stop == call = "none" /\ CommandStop /\ UNCHANGED driverVars

Enter(f, a) ==
  /\ call = "none"
  /\ call' = f /\ args' = a
  /\ register' = 1 /\ status' = "unread" /\ success' = TRUE
  /\ before' = config

(* Wrong: init and configure do not stop the generator first. *)
EnterRunning(f, a) == Enter(f, a) /\ NoAccess /\ UNCHANGED on

(* init and configure begin with a stop. *)
EnterStopped(f, a) == Enter(f, a) /\ CommandStop

init == EnterStopped("init", Minimum)

configure == \E a \in Arguments : EnterStopped("configure", a)

----------------------------------------------------------------------------
(* The six functions write_..._reg, one after the other.                   *)

Field == Register[register]

(* Wrong: the lower bound is not looked at. *)
BelowMaximum(field, value) == value <= max_reg_value

InBounds(field, value) == Minimum[field] <= value /\ value <= max_reg_value

Writing == call # "none" /\ register <= 6

NextRegister(written) ==
  /\ success' = (success /\ written)
  /\ register' = register + 1
  /\ status' = "unread"
  /\ UNCHANGED <<call, args, before>>

OutOfBounds ==
  /\ Writing /\ status = "unread"
  /\ ~InBounds(Field, args[Field])
  /\ NoAccess
  /\ NextRegister(FALSE)

(* MM_READ answers with the state before the edge. *)
is_idle ==
  /\ Writing /\ status = "unread"
  /\ InBounds(Field, args[Field])
  /\ Access /\ NoWrite
  /\ status' = IF reg_state = "IDLE" THEN "idle" ELSE "busy"
  /\ UNCHANGED <<call, args, register, success, before>>

WriteRegister ==
  /\ Writing /\ status = "idle"
  /\ Access /\ WriteConfig(Field, args[Field])
  /\ NextRegister(TRUE)

Refuse ==
  /\ Writing /\ status = "busy"
  /\ NoAccess
  /\ NextRegister(FALSE)

Return ==
  /\ call # "none" /\ register = 7
  /\ call' = "none"
  /\ NoAccess
  /\ UNCHANGED <<args, register, status, success, before>>

(* The processor takes any number of clocks between two accesses. *)
Compute == NoAccess /\ UNCHANGED driverVars

Proceed ==
  OutOfBounds \/ is_idle \/ WriteRegister \/ Refuse \/ Return \/ Compute

Next ==
  /\ Scan /\ Observe
  /\ \/ start \/ stop \/ init \/ configure
     \/ Proceed /\ UNCHANGED on

Spec == DriverInit /\ [][Next]_vars

(* The clock of the generator runs. *)
FairSpec == Spec /\ WF_vars(Next)

----------------------------------------------------------------------------
(* Types of the driver and of the generator under it. *)
TypeOK ==
  /\ config \in Configuration /\ before \in Configuration
  /\ reg_start \in BOOLEAN /\ reg_stop \in BOOLEAN
  /\ reg_state \in State
  /\ width \in Count /\ height \in Count /\ blank \in Count
  /\ pixels \in 0 .. CounterSpace /\ lines \in 0 .. CounterSpace
  /\ success \in BOOLEAN /\ accessed \in BOOLEAN /\ on \in BOOLEAN
  /\ call \in {"none", "init", "configure"}
  /\ args \in Arguments \cup {Minimum}
  /\ register \in 1 .. 7
  /\ status \in {"unread", "idle", "busy"}

(* "Returns true if successful (values within bounds), and false otherwise":  *)
(* whatever the generator was doing when configure (or init) was called, it   *)
(* has stopped by the time the first register is written, so that no register *)
(* is refused by the hardware; on return the registers whose value was in     *)
(* bounds hold it, the others are as before, and the result says whether all  *)
(* were in bounds.                                                            *)
Configured ==
  [][call # "none" /\ call' = "none" =>
       /\ success <=> \A f \in Fields : InBounds(f, args[f])
       /\ \A f \in Fields :
            config[f] = IF InBounds(f, args[f]) THEN args[f] ELSE before[f]]_vars

(* A configuration that came through the driver scans: every line that        *)
(* begins leads to the end of its frame or to a stop.  Without the lower      *)
(* bounds of the driver a height of 0 scans its first line for ever.          *)
FramesEnd == reg_state = "VALID" ~> reg_state \in {"FRAME_FRAME_BLANK", "IDLE"}

(* No command is lost: once the clock after an access is over, the generator  *)
(* scans if the last command was start and is idle if it was stop, whatever    *)
(* state it was in.  The hardware ignores a stop in IDLE, which a stop in the  *)
(* clock after a start would find.                                             *)
CommandsTaken == ~accessed => (reg_state = "IDLE" <=> ~on)
=============================================================================
