--------------------------- MODULE FileDescriptors ---------------------------
(***************************************************************************)
(* The descriptor table of the board support package (HAL/src/alt_*.c): how *)
(* open, close, read, write, lseek, ioctl, fcntl, fstat and isatty reach a  *)
(* device or a file on the host, from boot until main() has returned.  One  *)
(* thread calls them and no interrupt does, so a call is one step.          *)
(*                                                                         *)
(* The host behind /mnt/host (altera_hostfs.c) is modelled from its calls:  *)
(* it may refuse any of them.  A call with a negative descriptor returns an *)
(* error and changes nothing; it is left out.  The program passes no        *)
(* descriptor but those it got from open and has not closed, and 0 to 2.    *)
(***************************************************************************)
EXTENDS Integers, Sequences, SequencesExt

CONSTANTS ALT_MAX_FD,    \* length of alt_fd_list
          Names,         \* names the program opens, as sequences of components
          Modes,         \* and the access it asks for
          StdioUsed,     \* standard descriptors that it calls functions on
          Handles,       \* handles of the host
          Sizes,         \* sizes of the program's reads and writes
          MaxPosition    \* bound: the host has no positions beyond

Mode == {"O_RDONLY", "O_WRONLY", "O_RDWR"}
Fd == 0 .. ALT_MAX_FD - 1
Stdio == 0 .. 2

ASSUME TableAssumption ==
  /\ ALT_MAX_FD \in Nat /\ ALT_MAX_FD > 3
  /\ Modes \subseteq Mode /\ StdioUsed \subseteq Stdio
  /\ Sizes \subseteq Nat /\ MaxPosition \in Nat

Device == {"null", "jtag", "host"}

DeviceName == [null |-> <<"dev", "null">>, jtag |-> <<"dev", "jtag_uart_0">>,
               host |-> <<"mnt", "host">>]

(* The functions that a device provides. *)
Provides == [null |-> {"write"},
             jtag |-> {"close", "read", "write", "ioctl"},
             host |-> {"open", "close", "read", "write", "lseek", "fstat"}]

VARIABLES
  alt_dev_list, alt_fs_list,   \* registered devices and file systems
  alt_fd_list, alt_max_fd,
  pc,          \* "alt_sys_init", a descriptor to redirect, "main" or "exit"
  file,        \* what the host has open: a name and a position for each handle
  held         \* the program's own record of what it has open

lists == <<alt_dev_list, alt_fs_list>>
table == <<alt_fd_list, alt_max_fd>>
vars == <<lists, table, pc, file, held>>

(* An entry: device, handle of the host, and the flags; the last two are    *)
(* ALT_FD_DEV and ALT_FD_EXCL.                                              *)
Flags == [mode : Mode, nonblock : BOOLEAN, dev : BOOLEAN, excl : BOOLEAN]
alt_fd == [dev : Device \union {"none"}, priv : Handles \union {0}, fd_flags : Flags]

NoFlags == [mode |-> "O_RDONLY", nonblock |-> FALSE, dev |-> FALSE, excl |-> FALSE]
Entry(dev, flags) == [dev |-> dev, priv |-> 0, fd_flags |-> flags]

Closed == [name |-> <<>>, position |-> 0]

Init ==
  /\ alt_dev_list = {"null"} /\ alt_fs_list = {}
  /\ alt_fd_list = [fd \in Fd |-> Entry(IF fd \in Stdio THEN "null" ELSE "none", NoFlags)]
  /\ alt_max_fd = -1
  /\ pc = "alt_sys_init"
  /\ file = [h \in Handles |-> Closed]
  /\ held = <<>>

(* alt_dev_reg and alt_fs_reg, called by the drivers. *)
alt_sys_init ==
  /\ pc = "alt_sys_init"
  /\ alt_dev_list' = alt_dev_list \union {"jtag"}
  /\ alt_fs_list' = alt_fs_list \union {"host"}
  /\ pc' = "stdout"
  /\ UNCHANGED <<table, file, held>>

----------------------------------------------------------------------------
(* open.                                                                   *)

(* A device has exactly the name; a file system has a prefix of it that     *)
(* ends where a component ends.                                             *)
alt_find_dev(name) == {d \in alt_dev_list : DeviceName[d] = name}
alt_find_file(name) == {d \in alt_fs_list : IsPrefix(DeviceName[d], name)}

Found(name) == IF alt_find_dev(name) # {} THEN alt_find_dev(name) ELSE alt_find_file(name)

FreeFds == {fd \in Fd : alt_fd_list[fd].dev = "none"}
alt_get_fd == CHOOSE fd \in FreeFds : \A other \in FreeFds : fd <= other

(* Wrong: the last descriptor that was allocated, not the highest one. *)
HighWaterLast(fd) == fd

HighWater(fd) == IF fd > alt_max_fd THEN fd ELSE alt_max_fd

(* Wrong: standard error is given back. *)
ReleaseStderr(list, fd) ==
  IF fd >= 2 THEN [list EXCEPT ![fd].dev = "none", ![fd].fd_flags = NoFlags] ELSE list

(* Standard input, output and error are never given back. *)
alt_release_fd(list, fd) ==
  IF fd > 2 THEN [list EXCEPT ![fd].dev = "none", ![fd].fd_flags = NoFlags] ELSE list

(* Wrong: the highest descriptor is left out. *)
LockedBelow(list, max, fd) ==
  \E i \in 0 .. max - 1 : i # fd /\ list[i].dev = list[fd].dev /\ list[i].fd_flags.excl

alt_file_locked(list, max, fd) ==
  \E i \in 0 .. max : i # fd /\ list[i].dev = list[fd].dev /\ list[i].fd_flags.excl

FreeHandles == {h \in Handles : file[h] = Closed}

Outcome(fd, list, max, files) == [fd |-> fd, list |-> list, max |-> max, file |-> files]

(* Wrong: a descriptor whose file cannot be opened is not given back. *)
OpenRefusedKept(fd, list, max) == Outcome(-1, list, max, file)

OpenRefused(fd, list, max) == Outcome(-1, alt_release_fd(list, fd), max, file)

(* alt_hostfs_open: the host gives a handle, or an error. *)
alt_hostfs_open(name, fd, list, max) ==
  {OpenRefused(fd, list, max)} \union
  {Outcome(fd, [list EXCEPT ![fd].priv = h], max,
           [file EXCEPT ![h] = [name |-> name, position |-> 0]]) : h \in FreeHandles}

(* What open may do: the entry is filled in, and given back if the device   *)
(* is locked or the host refuses.                                           *)
OpenDevice(name, dev, mode, nonblock) ==
  LET fd == alt_get_fd
      max == HighWater(fd)
      flags == [mode |-> mode, nonblock |-> nonblock, dev |-> dev \in alt_dev_list,
                excl |-> FALSE]
      list == [alt_fd_list EXCEPT ![fd].dev = dev, ![fd].fd_flags = flags]
  IN  IF dev \in alt_fs_list THEN alt_hostfs_open(name, fd, list, max)
      ELSE IF alt_file_locked(list, max, fd) THEN {OpenRefused(fd, list, max)}
      ELSE {Outcome(fd, list, max, file)}

(* Without a device (ENODEV) or a free descriptor (EMFILE) nothing changes. *)
open(name, mode, nonblock) ==
  IF Found(name) = {} \/ FreeFds = {}
  THEN {Outcome(-1, alt_fd_list, alt_max_fd, file)}
  ELSE OpenDevice(name, CHOOSE d \in Found(name) : TRUE, mode, nonblock)

(* alt_open_fd: the entry of a new descriptor moves to one of the three.    *)
alt_open_fd(fd, name, mode) ==
  \E o \in open(name, mode, FALSE) :
    /\ alt_fd_list' = IF o.fd >= 0
                      THEN alt_release_fd([o.list EXCEPT ![fd] = o.list[o.fd]], o.fd)
                      ELSE o.list
    /\ alt_max_fd' = o.max
    /\ file' = o.file

Redirect(from, fd, mode, to) ==
  /\ pc = from /\ pc' = to
  /\ alt_open_fd(fd, DeviceName.jtag, mode)
  /\ UNCHANGED <<lists, held>>

alt_io_redirect ==
  \/ Redirect("stdout", 1, "O_WRONLY", "stdin")
  \/ Redirect("stdin", 0, "O_RDONLY", "stderr")
  \/ Redirect("stderr", 2, "O_WRONLY", "main")

ALT_OPEN ==
  /\ pc = "main"
  /\ \E name \in Names, mode \in Modes, nonblock \in BOOLEAN :
       \E o \in open(name, mode, nonblock) :
         /\ alt_fd_list' = o.list
         /\ alt_max_fd' = o.max
         /\ file' = o.file
         /\ held' = IF o.fd < 0 THEN held
                    ELSE [fd \in DOMAIN held \union {o.fd} |->
                            IF fd = o.fd
                            THEN [name |-> name, mode |-> mode, nonblock |-> nonblock,
                                  position |-> 0]
                            ELSE held[fd]]
  /\ UNCHANGED <<lists, pc>>

----------------------------------------------------------------------------
(* The calls on a descriptor.                                              *)

Usable == StdioUsed \union DOMAIN held
entry(fd) == alt_fd_list[fd]
OnHost(fd) == entry(fd).dev = "host"

(* Of the devices, that of the host alone has something to close here: the  *)
(* handle.  Whatever the device answers, the descriptor is given back.      *)
Close(fd) ==
  /\ file' \in {[file EXCEPT ![h] = Closed] : h \in Handles \intersect {entry(fd).priv}}
               \union {file}
  /\ ~OnHost(fd) => file' = file
  /\ alt_fd_list' = alt_release_fd(alt_fd_list, fd)
  /\ UNCHANGED <<lists, alt_max_fd>>

ALT_CLOSE ==
  /\ pc = "main"
  /\ \E fd \in Usable :
       /\ Close(fd)
       /\ held' = [other \in DOMAIN held \ {fd} |-> held[other]]
  /\ UNCHANGED pc

(* main() returns: alt_main closes standard output, and exit() never returns. *)
Exit ==
  /\ pc = "main" /\ pc' = "exit"
  /\ Close(1)
  /\ UNCHANGED held

(* A call that leaves the table alone. *)
Call(fd) ==
  /\ pc = "main"
  /\ fd \in Usable
  /\ UNCHANGED <<lists, pc>>

(* Wrong: the error of the host is not looked at. *)
HostResultUnchecked(rc, error) == rc

(* What a call of the host returns to the program, negative for an error. *)
HostResult(rc, error) == IF error = 0 THEN rc ELSE -error

MovedTo(fd, position) == held' = [held EXCEPT ![fd].position = position]

(* read and write on a file, from the position on: the host moves some or   *)
(* all of the bytes, or none and reports an error; the program counts those *)
(* of a result that is no error.                                            *)
HostTransfer(fd) ==
  LET h == entry(fd).priv IN
  \E size \in Sizes, error \in {0, 1} : \E rc \in 0 .. size :
    /\ file[h].position + rc <= MaxPosition
    /\ file' = IF error = 0 THEN [file EXCEPT ![h].position = @ + rc] ELSE file
    /\ LET rval == HostResult(rc, error)
       IN  MovedTo(fd, held[fd].position + IF rval < 0 THEN 0 ELSE rval)

Permitted(fd, function, forbidden) ==
  entry(fd).fd_flags.mode # forbidden /\ function \in Provides[entry(fd).dev]

(* A device, or a refusal (EACCES), leaves everything here as it is. *)
Transfer(fd, function, forbidden) ==
  /\ Call(fd)
  /\ IF Permitted(fd, function, forbidden) /\ OnHost(fd)
     THEN HostTransfer(fd)
     ELSE UNCHANGED <<file, held>>
  /\ UNCHANGED table

ALT_READ == \E fd \in Usable : Transfer(fd, "read", "O_WRONLY")
ALT_WRITE == \E fd \in Usable : Transfer(fd, "write", "O_RDONLY")

ALT_LSEEK ==
  \E fd \in Usable, position \in 0 .. MaxPosition, error \in {0, 1} :
    /\ Call(fd)
    /\ IF "lseek" \in Provides[entry(fd).dev]
       THEN /\ file' = IF error = 0 THEN [file EXCEPT ![entry(fd).priv].position = position]
                       ELSE file
            /\ LET rc == HostResult(position, error)
               IN  IF rc < 0 THEN UNCHANGED held ELSE MovedTo(fd, rc)
       ELSE UNCHANGED <<file, held>>
    /\ UNCHANGED table

----------------------------------------------------------------------------
(* Flags and locks.                                                        *)

(* The loop ends before alt_max_fd. *)
alt_fd_lock(fd) ==
  IF \E i \in 0 .. alt_max_fd - 1 : i # fd /\ alt_fd_list[i].dev = alt_fd_list[fd].dev
  THEN alt_fd_list
  ELSE [alt_fd_list EXCEPT ![fd].fd_flags.excl = TRUE]

alt_fd_unlock(fd) == [alt_fd_list EXCEPT ![fd].fd_flags.excl = FALSE]

(* TIOCEXCL and TIOCNXCL; other requests, and those to the host, change     *)
(* nothing here.                                                            *)
ALT_IOCTL ==
  \E fd \in Usable :
    /\ Call(fd)
    /\ entry(fd).fd_flags.dev
    /\ alt_fd_list' \in {alt_fd_lock(fd), alt_fd_unlock(fd)}
    /\ UNCHANGED <<alt_max_fd, file, held>>

(* Wrong: the flags of F_SETFL replace all others. *)
SetFlagsAll(flags, nonblock) == [NoFlags EXCEPT !.nonblock = nonblock]

(* Of the flags of F_SETFL, O_NONBLOCK is the one that is seen here. *)
SetFlags(flags, nonblock) == [flags EXCEPT !.nonblock = nonblock]

ALT_FCNTL ==
  \E fd \in Usable, nonblock \in BOOLEAN :
    /\ Call(fd)
    /\ alt_fd_list' = [alt_fd_list EXCEPT ![fd].fd_flags = SetFlags(@, nonblock)]
    /\ held' = IF fd \in Stdio THEN held ELSE [held EXCEPT ![fd].nonblock = nonblock]
    /\ UNCHANGED <<alt_max_fd, file>>

----------------------------------------------------------------------------
(* Questions about a descriptor change nothing.                            *)

(* Wrong: the flags as they are in the table. *)
GetFlagsAll(fd) == entry(fd).fd_flags

(* F_GETFL: without ALT_FD_DEV and ALT_FD_EXCL. *)
GetFlags(fd) == [entry(fd).fd_flags EXCEPT !.dev = FALSE, !.excl = FALSE]

(* fstat: a device without a function of its own is a character device; the *)
(* host says what a file is, or that it cannot.                             *)
ALT_FSTAT(fd) ==
  IF "fstat" \in Provides[entry(fd).dev] THEN {"file", "error"} ELSE {"character"}

(* isatty does not look at the result of fstat: after an error st_mode is   *)
(* whatever was on the stack.                                               *)
ALT_ISATTY(fd, stat) ==
  IF stat = "error" THEN BOOLEAN ELSE {stat = "character"}

Next ==
  \/ alt_sys_init \/ alt_io_redirect \/ Exit
  \/ ALT_OPEN \/ ALT_CLOSE
  \/ ALT_READ \/ ALT_WRITE \/ ALT_LSEEK
  \/ ALT_IOCTL \/ ALT_FCNTL

Spec == Init /\ [][Next]_vars

----------------------------------------------------------------------------
(* Types, and alt_max_fd bounds the descriptors in use. *)
TypeOK ==
  /\ alt_dev_list \subseteq Device /\ alt_fs_list \subseteq Device
  /\ alt_fd_list \in [Fd -> alt_fd]
  /\ alt_max_fd \in -1 .. ALT_MAX_FD - 1
  /\ DOMAIN held \subseteq Fd
  /\ \A fd \in DOMAIN held : fd <= alt_max_fd

InUse(dev) == {fd \in Fd : alt_fd_list[fd].dev = dev}

(* No descriptor leaks and none is given out twice: those in use are the    *)
(* three standard ones and those that the program has open, also after an   *)
(* open that failed half way and a close that the host refused.             *)
DescriptorsAccounted ==
  /\ \A fd \in Stdio : alt_fd_list[fd].dev # "none"
  /\ {fd \in Fd \ Stdio : alt_fd_list[fd].dev # "none"} = DOMAIN held

(* Each descriptor of the program reaches the device or the file it was     *)
(* opened for, with the flags it was opened with: no other descriptor has   *)
(* its handle, and nothing of an earlier use of the entry is left.          *)
DescriptorsTrue ==
  \A fd \in DOMAIN held :
    /\ entry(fd).fd_flags.mode = held[fd].mode
    /\ entry(fd).fd_flags.nonblock = held[fd].nonblock
    /\ IF OnHost(fd)
       THEN /\ file[entry(fd).priv].name = held[fd].name
            /\ \A other \in InUse("host") \ {fd} : entry(other).priv # entry(fd).priv
       ELSE DeviceName[entry(fd).dev] = held[fd].name

(* The program that adds up the results of its calls knows where in the     *)
(* file it is.                                                              *)
PositionKnown ==
  \A fd \in DOMAIN held :
    OnHost(fd) => file[entry(fd).priv].position = held[fd].position

(* Standard input, output and error stay on the JTAG UART, with their       *)
(* direction, however often they are closed.                                *)
StdioKept ==
  pc \in {"main", "exit"} =>
    \A fd \in Stdio :
      /\ entry(fd).dev = "jtag"
      /\ entry(fd).fd_flags.mode = IF fd = 0 THEN "O_RDONLY" ELSE "O_WRONLY"

Locked(dev) == {fd \in InUse(dev) : alt_fd_list[fd].fd_flags.excl}

(* A device is locked by one descriptor, and while it is nobody else gets   *)
(* to it.  (One that shares the device already may be overlooked by         *)
(* alt_fd_lock.)                                                            *)
LockExclusive ==
  [][\A dev \in Device :
       /\ Locked(dev) # {} => InUse(dev)' \subseteq InUse(dev)
       /\ \A fd, other \in Locked(dev)' : fd = other]_vars

(* The program has opened a device, not a file. *)
Terminal(fd) == \E d \in Device \ {"host"} : DeviceName[d] = held[fd].name

(* A program that asks with F_GETFL gets the flags that it has set itself   *)
(* and no others, and isatty says yes of the devices and no of the files,   *)
(* up to one wrong answer: a file may be called a terminal, if the host has *)
(* refused the fstat that isatty makes.                                     *)
AnswersUpToRefusal ==
  \A fd \in DOMAIN held :
    /\ GetFlags(fd) = [NoFlags EXCEPT !.mode = held[fd].mode, !.nonblock = held[fd].nonblock]
    /\ \A stat \in ALT_FSTAT(fd) : \A tty \in ALT_ISATTY(fd, stat) :
         \/ tty <=> Terminal(fd)
         \/ tty /\ ~Terminal(fd) /\ stat = "error"
=============================================================================
