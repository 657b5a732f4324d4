# The camera acquisition chain, specified

This directory holds a TLA+ development of the camera side of the repository:
the VHDL camera controller (`Camera/lab_4_project_template/hw/hdl`), the sensor
generator that stands for the camera on the board
(`hw/quartus/ip/cmos_sensor_output_generator`), the way `main()`
(`sw/nios/application/hello_world.c`) uses them, the I2C master that configures
a real sensor, and the two parts of the board support package that `main()`
depends on for its output: the JTAG UART driver and the descriptor table with
the file system of the host. Paths below are relative to
`src/Camera/lab_4_project_template/` unless they begin with another directory.

## The system

| part | state it keeps | operations | talks to |
|---|---|---|---|
| Avalon slave, `hw/hdl/Avalon_slave.vhd` | start, start address, buffer address, length, status, `prevStatus`, `nextBuffer`, three registered outputs | bus write, bus read, end of a frame, update of the outputs | program (bus), master (address, length, status), interface (start, pending) |
| Avalon master, `hw/hdl/Avalon_master.vhd` | state machine, address counter, word counter | one clock of `WAITDATA`, `BEGINTRANSFER`, `BURST`; asynchronous clear by Start | slave, FIFO (level, head word), memory bus |
| camera interface, `hw/hdl/Camera_interface.vhd` | start, pending, new-frame flags; row parity, column parity, column counter; one row of samples, blue sample, pixel, write flag | five processes on three edges: main clock, rising and falling pixel clock | sensor, FIFO (write side, level), slave |
| FIFO, `hw/hdl/FIFO.vhd` | pixels, and what each side knows of the other side's pointer | write, read, asynchronous clear | interface, master |
| top level, `hw/hdl/Camera_controller_top_level.vhd` | none | wiring; clears the FIFO while Start is 0 | all of the above |
| sensor generator | six configuration registers, start and stop pulses, scan state and counters | register write, register read, one clock of the scan | program (bus), interface |
| generator driver, `sw/.../cmos_sensor_output_generator.c` | none (device base and limits) | init, configure, start, stop | generator |
| application, `sw/.../hello_world.c` | place in `main()` | configure, start, three polls, stop, read frames | slave, generator, memory |
| I2C core and interface, `hw/quartus/ip/i2c` | control, data and divisor registers, command handshake, bit state machine, registers of the two lines | register write and read, one clock | program (bus), sensor board (two wires) |
| I2C driver, `sw/.../i2c/i2c.c` | none (device base) | init, configure, write, read, arrays; not used by `main()` | I2C interface |
| JTAG UART driver, `sw/.../drivers/src/altera_avalon_jtag_uart_*.c` | two rings of characters with their pointers, interrupt enables, host timeout | write, read, close, ioctl; interrupt routine; once-a-second timeout | descriptor table, device, host |
| descriptor table, `sw/.../HAL/src/alt_*.c` | device and file system lists, `alt_fd_list`, `alt_max_fd` | boot, open, close, read, write, lseek, ioctl, fcntl, fstat, isatty, exit | program, devices |
| host file system, `sw/.../drivers/src/altera_hostfs.c` | a handle for each descriptor | open, close, read, write, seek, fstat, each a trap to the host | descriptor table, host |

Not part of the specification: the pin-level top level, the test benches, the
LCD master (`src/LCD`, a skeleton whose states are empty), the image converter
(`src/ImageConverter`, sequential file conversion), and the rest of what the
vendor's tools generate ("Not modelled", below).

How they interact. The program writes the byte registers of the slave and then
the start bit. `AS_ALL_Start` (start bit and not pending) lets the master and
the interface run and releases the FIFO. The interface waits for the gap between
two frames, then bins each 2x2 Bayer cell into one RGB 5-6-5 pixel and writes it
to the FIFO on the pixel clock. The master waits for a burst of words, writes it
to the memory, and after the last burst raises `AM_AS_Status` for one clock. The
slave flags the buffer, moves to the next of three buffers, and the program
polls the status register and clears the flags. If the FIFO fills, the interface
raises pending: Start falls, everything is cleared, and the frame is given up.
`printf` and `fprintf` go through the descriptor table, to a ring that the
interrupt routine of the JTAG UART empties, or to a file of the host. The I2C
driver writes a byte and a command to the interface and polls a flag until the
core has moved them over the wires.

What is hard:

- two clock domains and three clock edges, with control signals that cross them
  without a handshake (`AS_ALL_Start`, `CI_AS_Pending`, the FIFO level);
- an asynchronous clear in the middle of a burst or a row;
- a one-clock status pulse against bus writes that have priority over it;
- one position in the frame kept three times (sensor, interface, master), each
  advanced and cleared on its own;
- a register pipeline between the ring of buffers and the address on the bus
  that has no slack;
- equality comparisons on counters, and a sum whose carry is kept in one branch
  only;
- a program that may be started anew while the hardware goes on;
- a command handshake with a register on each side, polled through a third, and
  lines that reach the state machine two clocks after it has moved them;
- rings shared with an interrupt routine without a lock, and interrupts that each
  side turns on and the other off;
- a table entry that is taken before it is known whether the open succeeds, and
  one loop over the table that ends one entry before the other.

What makes each part correct:

- slave: buffers are flagged in cyclic order, never a flagged one, and the
  address the master gets is that of the buffer the ring points to;
- master: a burst that has begun finds all its words in the FIFO; a frame is
  exactly its length; the bus and the master count alike; frames complete;
- interface: the FIFO gets whole frames, in order, from their first pixel,
  whatever Start and the FIFO level do, and the loop Pending/Start/FIFO does not
  lock up;
- generator: every frame has its configured shape although registers can be
  written at any time;
- driver: no start or stop is lost, `configure` does what it returns, and what
  it lets through is a geometry that scans;
- application: each poll ends, and what is read as a frame is that frame, also
  after a run that was interrupted;
- I2C: the device hears the transfers of a call and nothing else, the result of
  the call is what happened, and the call returns;
- JTAG UART: characters arrive once and in order, and as long as there are any,
  somebody is going to be woken for them;
- descriptors: none leaks, each leads where it was opened for, the standard three
  stay, and a locked device is opened by nobody else;
- together: when a frame is reported complete, the memory holds every pixel of
  it at its place in the right buffer, and nothing elsewhere has been written.

`PROJECT.json` lists the hazards of the code line by line, and for each the
properties that would catch it, or why there is none.

## The modules

| module | models | its variables and actions in the code |
|---|---|---|
| `BufferRing` | the promise of the slave to the program | abstract: flags, and the buffer being filled |
| `AvalonSlave` | `Avalon_slave.vhd` | registers have their VHDL names; `BusWrite` and `RingStep` are the two halves of `WriteProcess`, `UpdateOutput` the process of that name; a step (`SlaveEdge`) is one clock |
| `AvalonMaster` | `Avalon_master.vhd` | operators for outputs and clock edge, with the inputs of the edge as parameters; one operator per arm of the state machine |
| `MasterOnBus` | the master with its surroundings | Start, Length, FIFO level and WaitRequest as the environment drives them; what the bus has been promised |
| `PixelBinning` | channel arithmetic of `MainProcess` | one Bayer cell, sample by sample |
| `CameraInterface` | `Camera_interface.vhd` | one action per clock edge: `MainEdge`, `PixRise`, `PixFall`, each made of the processes on that edge |
| `CmosSensorGenerator` | the generator | `Scan` is one clock of the state machine, `WriteConfig`, `WriteStart`, `WriteStop` the register writes |
| `GeneratorFrames` | the generator under any program | any write at any clock; counts lines and pixels as they appear. `AnyProgram` is the specification the driver on the generator implements |
| `GeneratorDriver` | the generator driver on the generator | `init`, `configure`, `start`, `stop`; a call is a sequence of bus accesses (`EnterStopped`, then `is_idle` and `WriteRegister` or `Refuse` for each register, or `OutOfBounds`), and the generator makes a `Scan` in every clock |
| `Application` | `hello_world.c` on slave and master | `pc` and `i` are the place in `main()`; one action per kind of access, `Poll` for the three loops, `Interrupt` starts it anew; the memory holds a frame number per burst |
| `CaptureChain` | generator, interface, two clocks | a FIFO of which only the level is seen |
| `DualClockFifo` | `FIFO.vhd` | the vendor's block as its generics describe it; each side learns of the other side's moves late, how late is left open |
| `CameraController` | `Camera_controller_top_level.vhd` | the five units composed, `CaptureChain` with the true FIFO among them (`ControllerInit`, `ControllerTick`, `ControllerNext`); memory and program around them |
| `I2cCore` | `i2c_core.vhd` | the states have their names; `CoreEdge` is one clock, with the quarter period as a parameter |
| `I2cInterface` | `i2c_interface.vhd`, `i2c_clkgen.vhd` | `BusWrite` and `Transfer` are the two halves of `data_in_sync`; `InterfaceEdge` is one clock of everything |
| `I2cDevice` | the device on the wires (external) | follows the levels of the lines by the protocol, may refuse any byte, notes what it hears |
| `I2cDriver` | `i2c.c` on the interface and the device | a call is a list of transfers; `WaitBefore`, `WriteData`, `WriteControl`, `WaitAfter`, `CheckAcknowledge`, `ReadValue`, `Abort` are the bus accesses of a transfer |
| `JtagUart` | `altera_avalon_jtag_uart_*.c` | the program's calls (`pc`) and the interrupt routine (`isr`), each in steps between two accesses of shared state; `Alarm` is the timeout; device and host beside them |
| `FileDescriptors` | `alt_*.c` of the HAL, `altera_hostfs.c` | one action per system call, with the name it has in `alt_syscall.h` |

A module `XProofs` holds the theorems about `X` (`AvalonProofs` those about
`AvalonSlave` and `MasterOnBus`, `GeneratorProofs` those about
`GeneratorFrames` and `GeneratorDriver`, `CameraControllerProofs` those about
`CaptureChain` too), and a module `MCX` the values that TLC gives to its constants.

Abstractions. In `CameraInterface` and above a sample is the pair (row, column)
it comes from, and a pixel the record of the four samples it was computed from;
a mistake in where a sample comes from is visible and its arithmetic is in
`PixelBinning`. 32-bit registers are four bytes in a base that is a constant;
`Plus` is the 32-bit addition with its carries. The generator's four blank
counters are one variable, since each is loaded on the way into its blank and
read only there. The reset input is used once, at the beginning, and is `Init`.
A byte on the I2C bus has `Bits` bits. A character of the JTAG UART is its number
in its stream, modulo more than can be under way at once, so that one that is
lost, doubled or overtaken shows. A name of a file is a sequence of components,
which is what `alt_find_file` compares; of a descriptor's flags those remain that
some call looks at.

## Clocks and the environment

- The main clock is 50 MHz and the pixel clock about 18.5 MHz, so one or two main
  edges lie in each half of the pixel clock; `MaxTicks = 2` says so. A signal
  sampled in the other domain has its old or its new value; intermediate levels
  (metastability) are not modelled.
- `MinStop`: when the program clears the start bit it leaves it 0 for at least
  three halves of the pixel clock, `MinStop >= 3 * MaxTicks`. This is an assumption
  about the program, stated in `ChainAssumption`, and it is exact: with 6 for a
  `MaxTicks` of 2 the properties are proved, and with 5 TLC finds a stop after which
  a pixel of the old frame is still on its way to the FIFO when Start rises again; it
  goes in first, and every pixel after it is one place late. No line of the
  hardware enforces the pause; `main()` only ever stops once.
- In `CameraController` the program's writes are at least two clocks apart (no
  back-to-back bus writes from one processor), and address and length are written
  while the controller is stopped, as `main()` does. In `AvalonSlave` alone there is no such
  restriction.
- The memory takes the address of a burst with its first word, and stalls any
  word for any time.
- The generator runs as long as the controller does: `main()` starts it before
  the controller and stops it after.
- The driver's accesses to the generator are at least two of its clocks apart,
  since each crosses from the processor's clock and back. A status read in the
  very clock after a stop would find the generator busy, and `configure` would
  fail.
- While `main()` polls, it reads the status at least once between two frame ends.
  A frame of 640 by 480 samples takes 16 ms at the pixel clock, a poll about a
  microsecond, and the one `printf` between two polls prints a dozen characters.
  If it did stall over two frame ends, the status would go from 1 to 7 and the
  poll for 3 would never end.
- `main()` may be interrupted anywhere (the debugger starts it anew) while the
  hardware goes on. Nothing but the reset key resets `nextBuffer`, so after an
  interrupted run the first flag may be that of another buffer. `PollsEnd` is
  about the runs that find the ring at its first buffer, `ReadsAligned` about the
  others.
- The divisor of the I2C clock is at least 1 (125 on this board): with 0 a quarter
  period is one clock, shorter than the path of a line through its registers. The
  device does not stretch the clock, and its levels are there in the clock after
  the edge they answer. Arrays are read and written with at least one byte.
  `i2c_init` and `i2c_configure` come between calls, and may come at any time
  between them.
- The processor runs the interrupt routine of the JTAG UART to its end before it
  goes on with the program; device and host go on meanwhile. With a system clock
  the timeout routine runs at any time outside both; without one (as on this
  board, `ALT_SYS_CLK` is none) the timeout is `INT_MAX` and never comes. Both are
  initial states. A `memcpy` is one step: nobody else touches the part of a ring
  that it copies, and `TxInOrder` and `RxInOrder` would fail if somebody did
  between the steps before and after it.
- One thread calls the descriptor functions and no interrupt routine does, so
  each call is one step. The host may refuse any call, and transfer less than it
  was asked to. The program passes no descriptor but those it has got and not
  closed, and 0 to 2.

## The runs

| run | module / cfg | shows | bounds |
|---|---|---|---|
| slave | `MCAvalonSlave` | types; `RingAligned`; the slave implements `BufferRing` | bytes of one bit, so 16 addresses; buffer distance 3, which carries between lanes; every status write on the three flags |
| master | `MasterOnBus` / `MCMasterOnBus` | `NoUnderflow`, `BusInStep`, `CounterInFrame`, `DoneAfterWholeFrame`, `FramesComplete` | bursts of 3 words, frames of 0 to 3 bursts and one length that is no multiple, 5 words of FIFO |
| binning | `PixelBinning` / `MCPixelBinning` | `GreenUpToCarry` | 3-bit samples: all 4096 cells |
| green_average | `PixelBinning` / `MCGreenAverage` | finding: the lost carry | the same |
| generator_driver | `MCGeneratorDriver` | `CommandsTaken`, `FrameShape`, `Configured`, `FramesEnd` | 2-bit registers, maximum 2 by 1; sets of arguments: all in bounds with and without every blank, and one, two and all values out of bounds, on both sides |
| application | `MCApplication` | `LaterFramesKept`, `ReadsAligned`, `PollsEnd` | frames of 2 bursts of 2 words; two frames given up in a run of `main()`, two interrupted runs; frame numbers up to 6, three more than are kept |
| first_frame | `MCApplication` / `MCFirstFrame` | finding: the first frame is overwritten | the same, one frame given up and no interruption |
| capture | `MCCaptureChain` | `StreamInOrder`, `CountersFollowSensor`, `CaptureResumes` | 4x4 samples, the smallest blanks (1, 0, 1, 0), which are those `main()` configures |
| controller | `MCCameraController` | `FrameIntegrity`, `NeverFull`, `AddressHeld`, `FrameRecorded` | 4x8 samples: 8 pixels, 2 bursts of 2 words; FIFO of 8 pixels that is given up beyond 6; ring of 3 buffers, status cleared at any time |
| i2c | `MCI2cDriver` | `CallHeard`, `ResultTrue`, `CallsEnd` | bytes of 2 bits; one device; every call of the driver, arrays of 2; divisors 1 and 2, changed between calls |
| jtag | `JtagUart` / `MCJtagUart` | `TxInOrder`, `RxInOrder`, `InterruptsArmed`, no deadlock | rings of 3, FIFOs of 1, calls for 3 characters; timeout of 2, with and without a system clock |
| files | `MCFileDescriptors` | `DescriptorsAccounted`, `DescriptorsTrue`, `PositionKnown`, `StdioKept`, `AnswersUpToRefusal`, `LockExclusive` | two descriptors beyond the standard ones, two devices, files of the host, a name that is none although it begins like one; two accesses, two handles |

Why these bounds are enough. A frame of two bursts has a first, a last and a
change of burst; a row of two cells has a first and a last one; four or eight
rows have both parities and a wrap. The smallest blanks are the tightest the
generator has and those the program uses. In the controller the threshold is two
below the capacity, tighter than 1008 of 1024 in the code, so `NeverFull` there
shows that a slack of two pixels is enough, and with a threshold one higher the
property fails. The stop by the program, the frame given up in the middle of a
burst, and every value of the ring are reached (each wrong version named in
`PROJECT.json` is caught by the run it belongs to).

A call of three characters on a ring that holds two must wrap, be split at the
end of the ring, and wait for space; a FIFO of one makes the interrupt routine
come again for each character. Bytes of two bits have a first and a last bit; an
array of two has a transfer in the middle, and every call follows every other in
every state the one before may have left the bus in. Two descriptors beyond the
standard ones run the table full, and are enough for one that is overlooked by
`alt_fd_lock` beside the one that has the lock.

Fairness. `MasterOnBus!FairSpec` lets the clock run (weak fairness of the step)
and says that the camera delivers a word and the bus accepts one again and again
(strong fairness: arrivals and grants come and go with the clock). Both are
outside the hardware: the camera streams as long as it is started, and the bus
arbiter is fair. `CaptureChain!FairSpec` is weak fairness of the step only: the
two clocks run, and `MaxTicks` keeps one from overtaking the other for ever.

`GeneratorDriver!FairSpec` is weak fairness of the clock.
`Application!FairSpec` adds that the program runs (weak fairness of its accesses)
and that there is a burst in the FIFO and a free bus again and again (strong
fairness, as above).
`I2cDriver!FairSpec` is weak fairness of the clock, and strong fairness of the
program's steps while a call is in progress: the processor does not stop in the
middle of a call. `JtagUart` and `FileDescriptors` have no fairness: a host that
stops taking characters stops the program, as the code means it to. That no
wake-up is lost is the invariant `InterruptsArmed` instead, and TLC finds no
deadlock.

Each property has a wrong version of a definition beside the right one
(`... Late`, `... NoWrap`, `... Sticky`), written as the slip it stands for;
putting it in place of the right one breaks the property.

## Findings

- `first_frame`: the flags tell the program which buffers are full, but do not
  hold the master off. After the third frame the ring points to the first buffer
  again and the master fills it with the fourth frame until the stop, which
  `main()` sends after its last poll and a `printf`. The first buffer is then read
  and announced as "FRAME 1 FINISHED". `LaterFramesKept` shows that only the first
  buffer suffers.
- `green_average`: the average of the two greens keeps its 13th bit only when
  both samples have their top bit set. With one bright and one dark sample, such
  as 0xFFF and 0x001, the green is half the range too dark. `GreenUpToCarry`,
  which is proved, says that this is the only error.

Two more places where the code does not do what its comment says. They have no run
of their own; for each, a property of the run `files`, which is proved, states what
holds in spite of it.

- The loop of `alt_fd_lock` ends before `alt_max_fd` (`alt_fd_lock.c:61`), that of
  `alt_file_locked` includes it (`alt_open.c:79`). A lock is granted although the
  highest descriptor shares the device, while the comment has it granted "If there
  are no other open file descriptors which reference the same device"
  (`alt_fd_lock.c:43`). `LockExclusive`: there is one lock for a device, and no open
  while it holds.
- `isatty` does not look at the result of `fstat` (`alt_isatty.c:114`). When the host
  refuses, `st_mode` is what was on the stack, and a file may be called a terminal,
  while the comment promises one for a terminal device and "otherwise it is zero"
  (`alt_isatty.c:77`). `AnswersUpToRefusal`: this is the only wrong answer.

Other observations, which are no contradictions of what the repository says of
itself:

- A burst is cut when Start falls: `AM_AB_BurstCount` is commented "Number of
  datas in one burst" (`Avalon_master.vhd:45`), but the state machine is cleared
  in the middle of a burst too, whenever a frame is given up. What the
  interconnect does with a burst it is owed is outside the repository; in
  `CameraController` the memory takes the next first word with its own address.
- After a byte that was refused, the I2C driver writes a control byte with STOP
  alone (`i2c.c:133`). No command begins without RD or WR
  (`i2c_interface.vhd:50`), so no STOP is sent: a byte refused before the last
  transfer leaves the bus held, SCL low, until the START of the next call.
- `i2c_configure(true)` sets the interrupt enable in the control register, and
  the next command of the driver writes it back to 0.
- `close` gives the descriptor back also when the host refuses, and returns the
  error: the handle of the host may then stay open for ever.
- With a system clock, a `write` to the JTAG UART that has waited returns with
  what it has written as soon as the host has missed one second
  (`altera_avalon_jtag_uart_write.c:187`), not the timeout.

## What is proved

Every invariant that a passing run checks is proved for every value of the constants.

| theorem | for every |
|---|---|
| `AvalonProofs!TypeCorrect`, `RingAlignedCorrect`, `RingRefined` | byte base, buffer distance, and set of values the program writes |
| `AvalonProofs!BusTypeCorrect`, `NoUnderflowCorrect`, `BusInStepCorrect`, `CounterInFrameCorrect`, `DoneAfterWholeFrameCorrect` | burst length, address increment, address space, FIFO size and set of lengths |
| `PixelBinningProofs!TypeCorrect`, `GreenUpToCarryCorrect` | width of the samples and of the channels |
| `CameraControllerProofs!TypeCorrect`, `CountersFollowSensorCorrect`, `StreamInOrderCorrect` (of `CaptureChain`) | size of the frame, blanks, ratio of the clocks, threshold, and behaviour of the FIFO level |
| `CameraControllerProofs!NeverFullCorrect`, `BurstHasWords`, `AddressHeldCorrect`, `FrameRecordedCorrect`, `FrameIntegrityCorrect` | the same, and burst length, FIFO size, delay between the two sides of the FIFO, and behaviour of the bus |
| `GeneratorProofs!FrameShapeCorrect` | register width, and program that writes the registers |
| `GeneratorProofs!TypeCorrect`, `DriverIsProgram`, `DriverFrameShape`, `CommandsTakenCorrect`, `ConfiguredCorrect` | register width, maximum width and height, and set of arguments |
| `ApplicationProofs!ReadsAlignedCorrect`, `LaterFramesKeptCorrect` | length of frame and burst, byte base, number of frames given up and of runs interrupted |
| `I2cDriverProofs!TypeCorrect`, `CallHeardCorrect`, `ResultTrueCorrect` | width of a byte up to 8, set of divisors, devices, values and bytes sent, lengths of the arrays, and everything the device may refuse |
| `JtagUartProofs!TypeCorrect`, `TxInOrderCorrect`, `RxInOrderCorrect`, `ReadsInOrder`, `SnapshotsSafe`, `InterruptsArmedCorrect` | size of the rings and the FIFOs, timeout, and length of the calls |
| `FileDescriptorsProofs!TypeCorrect`, `DescriptorsAccountedCorrect`, `StdioKeptCorrect`, `LockExclusiveCorrect`, `DescriptorsTrueCorrect`, `PositionKnownCorrect`, `AnswersUpToRefusalCorrect` | table length, names, accesses, handles, and everything the host may refuse |

Assumptions on the constants are the named `ASSUME`s of the component modules.
Those that say more than a type are facts of the code: `ControllerAssumption` and
`BufferAssumption` that a burst is 64 bytes, 16 words of two pixels
(`Avalon_master.vhd`), that the FIFO is given up at least two pixels below its
capacity (1008 of 1024), that a frame has the configured length
(0x25800 = 320 * 240 * 2 = 2400 * 64), and that the three buffers lie inside the
address space without wrapping; `ApplicationAssumption` the same for
`hello_world.c`, where the buffers begin at address 0 and the length it writes is
the distance between two buffers in `Avalon_slave.vhd`. Its last conjunct, that frame
numbers go on for longer than a run of `main()` can see, is about the bound of the
model. Of the I2C driver, `BitsAssumption` is the three bits of the bit counter
(`i2c_core.vhd`: at most 8 bits, and 8 in the code), `DivisorAssumption` and
`SizeAssumption` are the divisor of at least 1 and the arrays of at least one byte
that are assumed above, and `ByteAssumption` says that addresses, values and what the
device sends are bytes.

`RingAligned` is inductive together with the types: a byte written to both
registers keeps the buffer address equal to the start of buffer 0, and `Advance`
recomputes it from the start address. The refinement needs that a flag is only
ever set on the buffer the ring points to, and a case for each bus write (a
write of the status is `Flag`, any other a stutter).

For the master, the types and `NoUnderflow` are proved together: the burst
counter alone says how many words are still to be read, and `StartBurst` is
taken only when the FIFO holds a whole burst, which nothing but the master's own
reads can shrink until Start clears both. `BusInStep` is inductive given the
types. `CounterInFrame` needs that the counter is the number of completed bursts
times the increment, and then that the comparison with the length less one burst
is met by the last burst and by no other; `DoneAfterWholeFrame` follows from it.

For the binning, lemma `AverageUpToCarry` is the arithmetic: on 12 bits a sum
that needs 13 loses exactly twice the weight of the top bit, and no other sum
loses anything. `LevelOfSample` bounds a channel.

For the chain from sensor to FIFO, `CountersFollowSensor` is the middle of three
layers. `PendingInv`, `StopInv` and `QuietInv` say what a restart leaves behind: a
restart that the interface asks for waits for a pixel clock that has seen it, and
of a stop by the program they count the main clocks since the last edge of each
kind, so that after three halves of the pixel clock every register has been
cleared by its own process (this is where `MinStop` is needed). `CountersInv` then has
the counters either fresh or aligned with the sensor, whichever edge comes
next, and `StoreInv` and `StreamInv` follow a cell: what of it is in `iRegMemory` and
`iRegBlue`, the clock in which it is in `iRegRGB`, and the pixel the FIFO expects.
That two pixels never come at adjacent edges is part of it.

For the controller the same invariant holds of the chain inside it, since every
step of the controller is one of the chain with the level of the true FIFO
(lemmas `TickInv`, `RiseInv` and `FallInv` serve both). `RoomInv` says that one pixel at most comes after the
level has passed the threshold, `BurstInv` that the words a burst still needs are
there on the side that reads, late as that side learns of them, `QueueInv` that the
FIFO holds the pixels that follow those the memory has, and `PassInv` that what has
been written is the beginning of one frame at the place of one buffer.
`RegistersInv` is the pipeline without slack: the change of buffer and the
re-arming of the edge detector are through before the first word of the next frame
is on the bus. `FrameIntegrity` is what they say together when the last word is
taken.

For `main()` on the hardware, `Inv` of `ApplicationProofs` follows the configuration
byte by byte (`ConfiguredInv`, while `StoppedInv` keeps the ring still), and says that
the ring is in order from the first buffer or never shows the status that the first
loop waits for (`RingInv`: `InOrder` or `Skewed`, each kept by every step of the ring).
A run that has passed its loops has therefore been in order from its start, which is
`ReadsAligned`. For such a run `PipelineInv` has the address of the next buffer at
the master before its first burst, so that lemma `MemorySteps` lets a write go to
the buffer the ring points to and to no other; `CurrentInv` has the frame under way in
that buffer as far as the master's counter, and `KeptInv` those that are recorded. The
end of a frame turns the first into the second (lemma `RecordedFrame`), and from then on the
ring points elsewhere, until it is back at the first buffer, which is why
`LaterFramesKept` says nothing of that one. Lemma `BufferStarts` is the addition with
carries in the register file: doubled lane by lane, the length is where `main()`
looks for the third buffer.

For the generator, `ShapeInv` says for each state of the scan what the observed
counters hold: in `VALID`, while the row counter is within the configured height, the
pixels are the column counter and the lines the row counter; in the blank between two
lines the lines are the row counter, which is still below the height; in `IDLE` and in
the blanks before a first line no line has been seen. It survives a register write
because the geometry is only written in `IDLE` (lemma `AnyWriteTyped`). A width of
0 is the case in which the counter runs through its range. The driver's frames
need no proof of their own: `DriverIsProgram` shows that the generator with the
driver implements `AnyProgram`, each access of the driver being a write that any
program may do, and `DriverFrameShape` follows.

For the driver, `CommandInv` ties the pulses on their way to the state of the
scan: a pulse is only there in the clock after an access, and then it is there
exactly if the state is not yet the one that was commanded. Lemma `ScanState`
(the scan leaves and reaches `IDLE` by start and stop only) makes it inductive,
and `CommandsTaken` is its case without an access. `ConfigInv` says what a call has
done to the registers it has passed; it needs `CommandInv`, because a busy status
would break it: it follows that the refusal in the driver, and the test of the
state in the hardware, are never met by a program that uses the driver alone.

For the descriptors, `Inv` adds to the types what the boot has done so far
(`BootInv`), that `alt_max_fd` bounds what is in use beyond the standard three,
that files of the host carry no lock, and `LockInv`: a descriptor that shares a
locked device lies above the one that has the lock. The last is the heart of it.
`alt_fd_lock` overlooks `alt_max_fd` and no other, so a sharer that it lets pass is
the highest of all; `open` on a locked device fails, because `alt_file_locked` looks at
every descriptor up to `alt_max_fd`, so no sharer comes below or above later. Two
locks on one device would each have to lie above the other. Lemma `OpenOutcome`
says what `open` has done when it returns, failed or not, and is used for the
three redirections of the boot and for `ALT_OPEN`; `Closes` does the same for
`close` and for the end of `main()`.

`FilesInv` adds what the descriptors lead to: one that is on the host has a handle that
is not free, of the file that was opened, at the position the program works out
(`Reached`), and no two have the same handle (`HandlesApart`). The host gives out a
handle that is free, and a `close` that it refuses leaves one taken that no
descriptor has any more, so an open never finds the handle of another descriptor.

For the JTAG UART, the difficulty is that `write` and `read` work with a snapshot of
the pointer that the interrupt routine moves. `WriteInv` and `ReadInv` say that the
part of the ring they are at stays theirs: the routine only ever makes more room for the
one and more characters for the other. That is the theorem `SnapshotsSafe`. `TxChars` and `RxChars` number what is in
the FIFO and in the ring from the next character that is expected; while `read` has
copied characters and not yet moved `rx_out`, those are counted once (`Taken`).
`TransmitArmed` and `ReceiveArmed` say who has to enable an interrupt that is off: the
program between moving a pointer and writing the control register, and nobody
else. `SpaceInv` is that the routine sends no more than it has seen room for.

For the I2C driver, `Inv` of `I2cDriverProofs` goes from the wires to the call, in five
layers. `SclInv` and `SdaInv` say what each state of the core knows of the lines, which
follow it with one and two clocks of delay: a state that waits for `sclk` lasts at least
two clocks (`ClockInv`, where a divisor of at least 1 is needed), so the lines have settled
when it ends, and SDA moves under a high SCL in `Start_C` and `Stop_C` only.
`HandshakeInv` is the handshake of a command: while a transfer is in progress the
driver is in `wait_after`, the control and data registers are those of its current
transfer, and the flag that ended one command is gone before the next begins. So the
core and the driver alternate, and none of the writes of the driver falls into
a transfer, where the interface would ignore it. `DeviceInv`, `WriteInv` and
`ReadInv` give the mode of the device for each of the 31 states of the core, with the bits
it has taken or sent, and between transfers how one finds the device and how it
leaves it (`Ready`, `Left`): this is what survives a refused byte, which leaves the
bus held or the device asleep, and makes the next call start afresh.

`HeardInv` counts the events: those of the transfers before this one (`Before`) and
those that the state of the core says are through (`Progress`), each as the script
has it. The script is the concatenation of the events of the transfers; `Flatten`
unfolds it (`FlattenSeq` by its recursive function, with the library's
well-founded recursion), and `ScriptAt` finds the place of an event, for which
`CallShape` says what the four kinds of call have in common. `ValueInv` and `ReturnInv`
tie what the driver has read, and what it returned, to these events. The proof
has one lemma per state of the core or pair of states (`WriteRise`, `AnswerFall`,
`StopCondition`, ...) for the clocks of a transfer, where the registers of the driver
cannot change (`TransferKeeps`), and one per access of the program for the rest
(`RestKeeps`), where lines and device do not move (`Rests`). `CallHeard` then needs that a
refused byte ends the call (`OnlyLast`), and `ResultTrue` that the bytes read are the
events from the sixth on (`SentInRead`).

Model-checked only: the liveness properties (`FramesComplete`, `FramesEnd`, `PollsEnd`,
`CaptureResumes`, `CallsEnd`), since fairness is beyond the prover used here.

## Not modelled

- The pin-level top level and the generated system (`soc_system`): port maps.
- `src/LCD`: ports without behaviour.
- `src/ImageConverter`: scripts that convert one file into another, without state
  that outlives a call.
- The test benches: stimuli without assertions.
- Of the I2C core, the registered output `busy`, which nothing reads; of the
  generator, the read back of registers other than the status; of the JTAG UART
  driver, the "small" variant and the waits of an operating system, which are not
  compiled here; of the descriptor table, the "direct driver" variant.
- Of the board support package, what the program does not reach or what keeps no
  state of its own: boot log, profiling, heap, caches, start-up code and exception
  entry, the dispatch of interrupts, alarms and time (there is no system clock),
  DMA and flash, and stubs of system calls that return an error. Most of the
  lines of the package are these, headers with constants, and comments.

## The plan

Done in this order, the most important behaviour first: slave and ring; master
on its bus; binning; generator; interface with generator; the whole controller;
proofs of slave, master and binning; generator driver and its proof; application;
I2C core, interface and driver; JTAG UART driver; descriptor table and its proofs;
interrupted runs of `main()`; the frames of the generator, proved; the rings of the
JTAG UART, the handles of the host, the chain from sensor to FIFO, the whole
controller and `main()` on it, proved; the I2C driver on its hardware, proved.

Next: liveness of the whole controller, by TLC: with a generator that runs and a memory
that accepts, and a program that clears flags, buffers keep being flagged.
