------------------------ MODULE FileDescriptorsProofs ------------------------
(***************************************************************************)
(* The table of descriptors, for every length of it, every set of names and *)
(* every host: descriptors do not leak, standard input, output and error    *)
(* stay where the boot has put them, a lock keeps others out, and each      *)
(* descriptor reaches what it was opened for, at the position the program   *)
(* believes it to be.                                                       *)
(***************************************************************************)
EXTENDS FileDescriptors, WellFoundedInduction, TLAPS

----------------------------------------------------------------------------
(* The invariant.                                                          *)

(* The table is a table, and only registered devices are in it.             *)
TableTyped ==
  /\ alt_fd_list \in [Fd -> alt_fd]
  /\ alt_max_fd \in -1 .. ALT_MAX_FD - 1
  /\ alt_dev_list \subseteq {"null", "jtag"} /\ alt_fs_list \subseteq {"host"}

(* During boot nothing is open and nothing is locked; the steps of the boot *)
(* have put the standard descriptors where they belong, one by one.         *)
Std(fd, mode) == alt_fd_list[fd].dev = "jtag" /\ alt_fd_list[fd].fd_flags.mode = mode

BootInv ==
  /\ pc \in {"alt_sys_init", "stdout", "stdin", "stderr", "main", "exit"}
  /\ pc \in {"alt_sys_init", "stdout", "stdin", "stderr"} =>
       DOMAIN held = {} /\ \A fd \in Fd : ~alt_fd_list[fd].fd_flags.excl
  /\ alt_dev_list = IF pc = "alt_sys_init" THEN {"null"} ELSE {"null", "jtag"}
  /\ pc \in {"stdin", "stderr", "main", "exit"} => Std(1, "O_WRONLY") /\ alt_max_fd >= 3
  /\ pc \in {"stderr", "main", "exit"} => Std(0, "O_RDONLY")
  /\ pc \in {"main", "exit"} => Std(2, "O_WRONLY")

(* alt_max_fd bounds the descriptors in use, but for the standard ones.     *)
BoundInv == \A fd \in Fd \ Stdio : alt_fd_list[fd].dev # "none" => fd <= alt_max_fd

(* A file of the host is not locked: its descriptor is not marked as that   *)
(* of a device.                                                             *)
HostInv ==
  \A fd \in Fd : alt_fd_list[fd].dev = "host" =>
    ~alt_fd_list[fd].fd_flags.excl /\ ~alt_fd_list[fd].fd_flags.dev

(* A descriptor that shares a locked device is above the one that has the   *)
(* lock: alt_fd_lock overlooks the highest descriptor, and no other.        *)
LockInv ==
  \A fd, other \in Fd :
    /\ fd # other
    /\ alt_fd_list[fd].dev # "none" /\ alt_fd_list[fd].dev = alt_fd_list[other].dev
    /\ alt_fd_list[fd].fd_flags.excl
    => fd < other

Inv == TableTyped /\ DOMAIN held \subseteq Fd /\ BootInv /\ BoundInv /\ HostInv /\ LockInv
       /\ DescriptorsAccounted

(* Of the standard descriptors none is a file of the host.                  *)
StdioInv == \A fd \in Stdio : alt_fd_list[fd].dev # "host"

(* What the host has open, and what the program has.                        *)
File == [name : Names \union {<<>>}, position : Int]
Held == [name : Names, mode : Mode, nonblock : BOOLEAN, position : Int]

FilesTyped == file \in [Handles -> File] /\ held \in [DOMAIN held -> Held]

(* A descriptor of the program that is on the host has a handle that is not *)
(* free, of the file that was opened and at the position the program knows; *)
(* any other is on the device of its name.                                  *)
OnFile(fd) ==
  LET h == alt_fd_list[fd].priv IN
  /\ h \in Handles
  /\ file[h].name = held[fd].name /\ file[h].position = held[fd].position
  /\ IsPrefix(DeviceName.host, held[fd].name)

Reached ==
  \A fd \in DOMAIN held :
    /\ alt_fd_list[fd].fd_flags.mode = held[fd].mode
    /\ alt_fd_list[fd].fd_flags.nonblock = held[fd].nonblock
    /\ IF alt_fd_list[fd].dev = "host" THEN OnFile(fd)
       ELSE DeviceName[alt_fd_list[fd].dev] = held[fd].name

(* No two of them share a handle.                                           *)
HandlesApart ==
  \A fd, other \in DOMAIN held :
    fd # other /\ alt_fd_list[fd].dev = "host" /\ alt_fd_list[other].dev = "host"
    => alt_fd_list[fd].priv # alt_fd_list[other].priv

FilesInv == StdioInv /\ FilesTyped /\ Reached /\ HandlesApart

----------------------------------------------------------------------------
(* open.                                                                   *)

(* The first free descriptor is a free descriptor.                          *)
LEMMA GetFdFree ==
  ASSUME FreeFds # {}
  PROVE  alt_get_fd \in FreeFds
<1>1. FreeFds \subseteq Nat
  BY TableAssumption DEF FreeFds, Fd
<1>2. \E fd \in FreeFds : \A other \in FreeFds : ~(<<other, fd>> \in OpToRel(<, Nat))
  BY <1>1, NatLessThanWellFounded, WFMin
<1>3. \E fd \in FreeFds : \A other \in FreeFds : fd <= other
  <2>1. PICK fd \in FreeFds : \A other \in FreeFds : ~(<<other, fd>> \in OpToRel(<, Nat))
    BY <1>2
  <2>2. ASSUME NEW other \in FreeFds PROVE fd <= other
    <3>1. ~(other < fd)
      BY <1>1, <2>1 DEF OpToRel
    <3>2. QED BY <1>1, <3>1
  <2>3. QED BY <2>2
<1>4. QED BY <1>3 DEF alt_get_fd

(* What open has done when it returns: either it has failed and every       *)
(* descriptor in use is as before and no other is in use, or one that was   *)
(* free now belongs to a device of that name, unlocked, and if the device   *)
(* was locked the open has failed.                                          *)
OpenFailed(o) ==
  /\ o.fd = -1
  /\ \A fd \in Fd :
       /\ o.list[fd].dev = alt_fd_list[fd].dev
       /\ alt_fd_list[fd].dev # "none" => o.list[fd] = alt_fd_list[fd]
       /\ o.list[fd].fd_flags.excl => alt_fd_list[fd].fd_flags.excl

OpenDone(o, name, mode) ==
  /\ o.fd \in FreeFds
  /\ \A fd \in Fd \ {o.fd} : o.list[fd] = alt_fd_list[fd]
  /\ o.list[o.fd].dev \in Found(name)
  /\ o.list[o.fd].fd_flags.mode = mode /\ ~o.list[o.fd].fd_flags.excl
  /\ o.list[o.fd].dev = "host" => ~o.list[o.fd].fd_flags.dev
  /\ o.fd <= o.max
  /\ \A fd \in Fd : fd <= o.max /\ fd # o.fd
        /\ alt_fd_list[fd].dev = o.list[o.fd].dev => ~alt_fd_list[fd].fd_flags.excl

OpenShape(o, name, mode) ==
  /\ o.list \in [Fd -> alt_fd]
  /\ o.max \in -1 .. ALT_MAX_FD - 1 /\ o.max >= alt_max_fd
  /\ OpenFailed(o) \/ OpenDone(o, name, mode)

(* And of the files: that of a free handle is opened, or none.              *)
OpenFiles(o, name, nonblock) ==
  \/ o.fd = -1 /\ o.file = file
  \/ /\ o.fd \in FreeFds
     /\ o.list[o.fd].fd_flags.nonblock = nonblock
     /\ \/ o.list[o.fd].dev # "host" /\ o.file = file
        \/ /\ o.list[o.fd].dev = "host" /\ o.list[o.fd].priv \in FreeHandles
           /\ o.file = [file EXCEPT ![o.list[o.fd].priv] = [name |-> name, position |-> 0]]

(* Whatever the name, what is found is registered.                          *)
LEMMA FoundDevices ==
  ASSUME Inv, NEW name
  PROVE  Found(name) \subseteq Device
<1>1. Found(name) \subseteq alt_dev_list \union alt_fs_list
  BY Zenon DEF Found, alt_find_dev, alt_find_file
<1>2. alt_dev_list \union alt_fs_list \subseteq Device
  BY DEF Inv, TableTyped, Device
<1>3. QED BY <1>1, <1>2

(* A free descriptor is none of the standard ones.                          *)
LEMMA FreeAboveStdio ==
  ASSUME Inv, NEW fd \in FreeFds
  PROVE  fd \in Fd \ Stdio /\ fd > 2 /\ fd \in Int /\ alt_fd_list[fd].dev = "none"
  BY TableAssumption DEF Inv, DescriptorsAccounted, FreeFds, Fd, Stdio

(* Giving back a descriptor keeps the table a table.                        *)
LEMMA ReleaseTyped ==
  ASSUME NEW list \in [Fd -> alt_fd], NEW fd \in Fd
  PROVE  /\ alt_release_fd(list, fd) \in [Fd -> alt_fd]
         /\ \A other \in Fd \ {fd} : alt_release_fd(list, fd)[other] = list[other]
         /\ fd > 2 => /\ alt_release_fd(list, fd)[fd].dev = "none"
                      /\ ~alt_release_fd(list, fd)[fd].fd_flags.excl
         /\ ~(fd > 2) => alt_release_fd(list, fd) = list
<1>1. NoFlags \in Flags
  BY DEF NoFlags, Flags, Mode
<1>2. QED BY <1>1 DEF alt_release_fd, alt_fd, NoFlags

(* The host gives a file or not.                                            *)
LEMMA OpenHostShape ==
  ASSUME Inv, NEW fd \in FreeFds, NEW list \in [Fd -> alt_fd], NEW max, NEW name,
         \A other \in Fd \ {fd} : list[other] = alt_fd_list[other],
         NEW o \in alt_hostfs_open(name, fd, list, max)
  PROVE  /\ o.list \in [Fd -> alt_fd] /\ o.max = max
         /\ \/ OpenFailed(o) /\ o.file = file
            \/ /\ o.fd = fd
               /\ \A other \in Fd \ {fd} : o.list[other] = alt_fd_list[other]
               /\ o.list[fd].dev = list[fd].dev /\ o.list[fd].fd_flags = list[fd].fd_flags
               /\ o.list[fd].priv \in FreeHandles
               /\ o.file = [file EXCEPT ![o.list[fd].priv] = [name |-> name, position |-> 0]]
<1>1. fd \in Fd /\ fd > 2 /\ alt_fd_list[fd].dev = "none"
  BY FreeAboveStdio
<1>2. CASE o = OpenRefused(fd, list, max)
  <2>1. o.fd = -1 /\ o.list = alt_release_fd(list, fd) /\ o.max = max /\ o.file = file
    BY <1>2 DEF OpenRefused, Outcome
  <2>2. OpenFailed(o)
    BY <1>1, <2>1, ReleaseTyped DEF OpenFailed
  <2>3. QED BY <1>1, <2>1, <2>2, ReleaseTyped
<1>3. ASSUME NEW h \in FreeHandles,
             o = Outcome(fd, [list EXCEPT ![fd].priv = h], max,
                         [file EXCEPT ![h] = [name |-> name, position |-> 0]])
      PROVE  /\ o.list \in [Fd -> alt_fd] /\ o.max = max
             /\ o.fd = fd
             /\ \A other \in Fd \ {fd} : o.list[other] = alt_fd_list[other]
             /\ o.list[fd].dev = list[fd].dev /\ o.list[fd].fd_flags = list[fd].fd_flags
             /\ o.list[fd].priv \in FreeHandles
             /\ o.file = [file EXCEPT ![o.list[fd].priv] = [name |-> name, position |-> 0]]
  <2>1. /\ o.fd = fd /\ o.list = [list EXCEPT ![fd].priv = h] /\ o.max = max
        /\ o.file = [file EXCEPT ![h] = [name |-> name, position |-> 0]]
    BY <1>3 DEF Outcome
  <2>2. h \in Handles
    BY DEF FreeHandles
  <2>3. QED BY <1>1, <2>1, <2>2 DEF alt_fd
<1>4. QED BY <1>2, <1>3 DEF alt_hostfs_open

(* What open does.                                                          *)
LEMMA OpenOutcome ==
  ASSUME Inv, NEW name, NEW mode \in Mode, NEW nonblock \in BOOLEAN,
         NEW o \in open(name, mode, nonblock)
  PROVE  OpenShape(o, name, mode) /\ OpenFiles(o, name, nonblock)
<1>1. CASE Found(name) = {} \/ FreeFds = {}
  <2>1. o = Outcome(-1, alt_fd_list, alt_max_fd, file)
    BY <1>1 DEF open
  <2>2. o.fd = -1 /\ o.list = alt_fd_list /\ o.max = alt_max_fd /\ o.file = file
    BY <2>1 DEF Outcome
  <2>3. QED BY <2>2, TableAssumption DEF OpenShape, OpenFailed, OpenFiles, Inv, TableTyped
<1>2. CASE Found(name) # {} /\ FreeFds # {}
  <2> DEFINE dev == CHOOSE d \in Found(name) : TRUE
             fd == alt_get_fd
             max == HighWater(fd)
             flags == [mode |-> mode, nonblock |-> nonblock, dev |-> dev \in alt_dev_list,
                       excl |-> FALSE]
             list == [alt_fd_list EXCEPT ![fd].dev = dev, ![fd].fd_flags = flags]
  <2>1. dev \in Found(name)
    BY <1>2
  <2>2. dev \in Device
    BY <2>1, FoundDevices
  <2>3. fd \in FreeFds /\ fd \in Fd
    BY <1>2, GetFdFree DEF FreeFds
  <2>4. /\ max \in -1 .. ALT_MAX_FD - 1 /\ max >= alt_max_fd /\ fd <= max
    BY <2>3, TableAssumption DEF HighWater, Inv, TableTyped, Fd
  <2>5. /\ flags \in Flags /\ flags.mode = mode /\ flags.nonblock = nonblock /\ ~flags.excl
        /\ dev = "host" => ~flags.dev
    <3> HIDE DEF dev
    <3>1. (dev \in alt_dev_list) \in BOOLEAN
      OBVIOUS
    <3>2. dev = "host" => dev \notin alt_dev_list
      BY DEF Inv, TableTyped
    <3>3. QED BY <3>1, <3>2 DEF Flags
  <2>6. /\ list \in [Fd -> alt_fd]
        /\ \A other \in Fd \ {fd} : list[other] = alt_fd_list[other]
        /\ list[fd].dev = dev /\ list[fd].fd_flags = flags
    <3>1. alt_fd_list \in [Fd -> alt_fd]
      BY DEF Inv, TableTyped
    <3> HIDE DEF dev, fd, flags
    <3>2. list = [alt_fd_list EXCEPT ![fd] = [[alt_fd_list[fd] EXCEPT !.dev = dev]
                                              EXCEPT !.fd_flags = flags]]
      BY <3>1, <2>3
    <3>3. [[alt_fd_list[fd] EXCEPT !.dev = dev] EXCEPT !.fd_flags = flags] \in alt_fd
      BY <3>1, <2>2, <2>3, <2>5 DEF alt_fd
    <3>4. /\ [[alt_fd_list[fd] EXCEPT !.dev = dev] EXCEPT !.fd_flags = flags].dev = dev
          /\ [[alt_fd_list[fd] EXCEPT !.dev = dev] EXCEPT !.fd_flags = flags].fd_flags = flags
      BY <3>1, <2>3 DEF alt_fd
    <3> HIDE DEF list
    <3>5. QED BY <3>1, <3>2, <3>3, <3>4, <2>3
  <2>7. o \in IF dev \in alt_fs_list THEN alt_hostfs_open(name, fd, list, max)
              ELSE IF alt_file_locked(list, max, fd) THEN {OpenRefused(fd, list, max)}
              ELSE {Outcome(fd, list, max, file)}
    BY <1>2 DEF open, OpenDevice
  <2> HIDE DEF dev, fd, max, flags, list
  <2>8. CASE dev \in alt_fs_list
    <3>1. o \in alt_hostfs_open(name, fd, list, max)
      BY <2>7, <2>8
    <3>2. /\ o.list \in [Fd -> alt_fd] /\ o.max = max
          /\ \/ OpenFailed(o) /\ o.file = file
             \/ /\ o.fd = fd
                /\ \A other \in Fd \ {fd} : o.list[other] = alt_fd_list[other]
                /\ o.list[fd].dev = list[fd].dev /\ o.list[fd].fd_flags = list[fd].fd_flags
                /\ o.list[fd].priv \in FreeHandles
                /\ o.file = [file EXCEPT ![o.list[fd].priv] = [name |-> name, position |-> 0]]
      BY <2>3, <2>6, <3>1, OpenHostShape
    <3>3. ASSUME NEW other \in Fd, alt_fd_list[other].dev = "host"
          PROVE  ~alt_fd_list[other].fd_flags.excl
      BY <3>3 DEF Inv, HostInv
    <3>4. OpenShape(o, name, mode)
      BY <2>1, <2>4, <2>3, <2>5, <2>6, <2>8, <3>2, <3>3
         DEF OpenShape, OpenDone, Inv, TableTyped
    <3>5. dev = "host"
      BY <2>8 DEF Inv, TableTyped
    <3>6. OpenFiles(o, name, nonblock)
      BY <2>3, <2>5, <2>6, <3>2, <3>5 DEF OpenFiles, OpenFailed
    <3>7. QED BY <3>4, <3>6
  <2>9. CASE dev \notin alt_fs_list /\ alt_file_locked(list, max, fd)
    <3>1. o.fd = -1 /\ o.list = alt_release_fd(list, fd) /\ o.max = max /\ o.file = file
      BY <2>7, <2>9 DEF OpenRefused, Outcome
    <3>2. fd > 2 /\ alt_fd_list[fd].dev = "none"
      BY <2>3, FreeAboveStdio
    <3>3. OpenFailed(o)
      BY <2>3, <2>6, <3>1, <3>2, ReleaseTyped DEF OpenFailed
    <3>4. QED BY <2>3, <2>4, <2>6, <3>1, <3>3, ReleaseTyped DEF OpenShape, OpenFiles
  <2>10. CASE dev \notin alt_fs_list /\ ~alt_file_locked(list, max, fd)
    <3>1. o.fd = fd /\ o.list = list /\ o.max = max /\ o.file = file
      BY <2>7, <2>10 DEF Outcome
    <3>2. ASSUME NEW other \in Fd, other <= max, other # fd, alt_fd_list[other].dev = dev
          PROVE  ~alt_fd_list[other].fd_flags.excl
      <4>1. other \in 0 .. max
        BY <2>4, <3>2, TableAssumption DEF Fd
      <4>2. QED BY <2>6, <2>10, <3>2, <4>1 DEF alt_file_locked
    <3>3. OpenShape(o, name, mode)
      BY <2>1, <2>3, <2>4, <2>5, <2>6, <3>1, <3>2 DEF OpenShape, OpenDone
    <3>4. dev # "host"
      <4>1. dev \in alt_dev_list
        BY <2>1, <2>10 DEF Found, alt_find_dev, alt_find_file
      <4>2. QED BY <4>1 DEF Inv, TableTyped
    <3>5. QED BY <2>3, <2>5, <2>6, <3>1, <3>3, <3>4 DEF OpenFiles
  <2>11. QED BY <2>8, <2>9, <2>10
<1>3. QED BY <1>1, <1>2

(* The device of the standard streams is found by its name.                 *)
LEMMA JtagFound ==
  ASSUME alt_dev_list = {"null", "jtag"}
  PROVE  Found(DeviceName.jtag) = {"jtag"}
<1>1. DeviceName.jtag # DeviceName.null /\ DeviceName["jtag"] = DeviceName.jtag
      /\ DeviceName["null"] = DeviceName.null
  BY DEF DeviceName
<1>2. alt_find_dev(DeviceName.jtag) = {"jtag"}
  BY <1>1 DEF alt_find_dev
<1>3. QED BY <1>2 DEF Found

(* In boot nothing is locked and a descriptor is free: the device of the    *)
(* standard streams is opened, and its entry ends as the entry of k.        *)
LEMMA RedirectOutcome ==
  ASSUME Inv, pc \in {"stdout", "stdin", "stderr"}, NEW k \in Stdio, NEW mode \in Mode,
         alt_open_fd(k, DeviceName.jtag, mode)
  PROVE  /\ alt_fd_list' \in [Fd -> alt_fd]
         /\ alt_max_fd' \in 3 .. ALT_MAX_FD - 1
         /\ alt_fd_list'[k].dev = "jtag" /\ alt_fd_list'[k].fd_flags.mode = mode
         /\ \A fd \in Fd : ~alt_fd_list'[fd].fd_flags.excl
         /\ \A fd \in Stdio \ {k} : alt_fd_list'[fd] = alt_fd_list[fd]
         /\ \A fd \in Fd \ Stdio : alt_fd_list'[fd].dev = "none"
<1>1. /\ alt_fd_list \in [Fd -> alt_fd] /\ alt_dev_list = {"null", "jtag"}
      /\ alt_fs_list \subseteq {"host"}
      /\ \A fd \in Fd : ~alt_fd_list[fd].fd_flags.excl
      /\ \A fd \in Fd \ Stdio : alt_fd_list[fd].dev = "none"
  BY DEF Inv, TableTyped, BootInv, DescriptorsAccounted
<1>2. PICK o \in open(DeviceName.jtag, mode, FALSE) :
        /\ alt_fd_list' = IF o.fd >= 0
                          THEN alt_release_fd([o.list EXCEPT ![k] = o.list[o.fd]], o.fd)
                          ELSE o.list
        /\ alt_max_fd' = o.max
  BY DEF alt_open_fd
<1>3. OpenShape(o, DeviceName.jtag, mode)
  BY <1>2, OpenOutcome
<1>4. 3 \in FreeFds
  BY <1>1, TableAssumption DEF FreeFds, Fd, Stdio
<1>5. Found(DeviceName.jtag) = {"jtag"}
  BY <1>1, JtagFound
<1>6. OpenDone(o, DeviceName.jtag, mode)
  <2>1. alt_get_fd \in FreeFds
    BY <1>4, GetFdFree
  <2>2. PICK dev, flags, max, list :
          /\ dev = "jtag"
          /\ list = [alt_fd_list EXCEPT ![alt_get_fd].dev = dev, ![alt_get_fd].fd_flags = flags]
          /\ o \in IF dev \in alt_fs_list THEN alt_hostfs_open(DeviceName.jtag, alt_get_fd, list, max)
                   ELSE IF alt_file_locked(list, max, alt_get_fd)
                        THEN {OpenRefused(alt_get_fd, list, max)}
                   ELSE {Outcome(alt_get_fd, list, max, file)}
          /\ max = HighWater(alt_get_fd)
    BY <1>2, <1>4, <1>5, Zenon DEF open, OpenDevice
  <2>3. alt_get_fd \in Fd /\ max \in -1 .. ALT_MAX_FD - 1
    BY <2>1, <2>2, TableAssumption DEF FreeFds, HighWater, Inv, TableTyped, Fd
  <2>4. ASSUME NEW i \in 0 .. max, i # alt_get_fd PROVE ~list[i].fd_flags.excl
    <3>1. i \in Fd
      BY <2>3, <2>4, TableAssumption DEF Fd
    <3>2. list[i] = alt_fd_list[i]
      BY <1>1, <2>2, <2>3, <2>4, <3>1
    <3>3. QED BY <1>1, <3>1, <3>2
  <2>5. ~alt_file_locked(list, max, alt_get_fd)
    BY <2>4 DEF alt_file_locked
  <2>6. o.fd = alt_get_fd
    BY <1>1, <2>2, <2>5 DEF Outcome
  <2>7. o.fd >= 0
    BY <2>3, <2>6, TableAssumption DEF Fd
  <2>8. QED BY <1>3, <2>7 DEF OpenShape, OpenFailed
<1>7. /\ o.fd \in Fd \ Stdio /\ o.fd > 2 /\ o.fd \in Int
  BY <1>6, FreeAboveStdio DEF OpenDone
<1>8. /\ o.list \in [Fd -> alt_fd] /\ o.max \in 3 .. ALT_MAX_FD - 1
      /\ \A fd \in Fd \ {o.fd} : o.list[fd] = alt_fd_list[fd]
      /\ o.list[o.fd].dev = "jtag"
      /\ o.list[o.fd].fd_flags.mode = mode /\ ~o.list[o.fd].fd_flags.excl
  BY <1>3, <1>5, <1>6, <1>7, TableAssumption DEF OpenShape, OpenDone
<1> DEFINE moved == [o.list EXCEPT ![k] = o.list[o.fd]]
<1>9. k \in Fd
  BY TableAssumption DEF Fd, Stdio
<1>10. moved \in [Fd -> alt_fd] /\ moved[k] = o.list[o.fd]
       /\ \A fd \in Fd \ {k} : moved[fd] = o.list[fd]
  BY <1>7, <1>8, <1>9
<1>11. alt_fd_list' = alt_release_fd(moved, o.fd)
  BY <1>2, <1>7
<1> HIDE DEF moved
<1>12. /\ alt_fd_list' \in [Fd -> alt_fd]
       /\ \A fd \in Fd \ {o.fd} : alt_fd_list'[fd] = moved[fd]
       /\ alt_fd_list'[o.fd].dev = "none" /\ ~alt_fd_list'[o.fd].fd_flags.excl
  BY <1>7, <1>10, <1>11, ReleaseTyped
<1>13. alt_fd_list'[k].dev = "jtag" /\ alt_fd_list'[k].fd_flags.mode = mode
       /\ ~alt_fd_list'[k].fd_flags.excl
  BY <1>7, <1>8, <1>9, <1>10, <1>12
<1>14. \A fd \in Fd \ {k, o.fd} : alt_fd_list'[fd] = alt_fd_list[fd]
  BY <1>8, <1>10, <1>12
<1>15. \A fd \in Fd : ~alt_fd_list'[fd].fd_flags.excl
  BY <1>1, <1>12, <1>13, <1>14
<1>16. \A fd \in Stdio \ {k} : alt_fd_list'[fd] = alt_fd_list[fd]
  <2>1. Stdio \subseteq Fd
    BY TableAssumption DEF Fd, Stdio
  <2>2. QED BY <1>7, <1>14, <2>1
<1>17. \A fd \in Fd \ Stdio : alt_fd_list'[fd].dev = "none"
  BY <1>1, <1>12, <1>14
<1>18. QED BY <1>2, <1>8, <1>12, <1>13, <1>15, <1>16, <1>17

----------------------------------------------------------------------------
(* The steps.                                                              *)

LEMMA InitInv == Init => Inv
<1> SUFFICES ASSUME Init PROVE Inv
  OBVIOUS
<1>1. NoFlags \in Flags /\ ~NoFlags.excl
  BY DEF NoFlags, Flags, Mode
<1>2. ASSUME NEW fd \in Fd
      PROVE  /\ alt_fd_list[fd] \in alt_fd /\ alt_fd_list[fd].fd_flags = NoFlags
             /\ alt_fd_list[fd].dev = IF fd \in Stdio THEN "null" ELSE "none"
  BY <1>1 DEF Init, Entry, alt_fd, Device
<1>3. TableTyped
  <2>1. alt_fd_list \in [Fd -> alt_fd]
    BY <1>2 DEF Init
  <2>2. QED BY <2>1, TableAssumption DEF TableTyped, Init
<1>4. DOMAIN held = {}
  BY DEF Init
<1>5. BootInv
  BY <1>1, <1>2, <1>4 DEF Init, BootInv
<1>6. BoundInv /\ HostInv /\ LockInv
  BY <1>1, <1>2 DEF BoundInv, HostInv, LockInv
<1>7. DescriptorsAccounted
  <2>1. Stdio \subseteq Fd
    BY TableAssumption DEF Fd, Stdio
  <2>2. QED BY <1>2, <1>4, <2>1 DEF DescriptorsAccounted
<1>8. QED BY <1>3, <1>4, <1>5, <1>6, <1>7 DEF Inv

(* A step that leaves the table, the program's descriptors and the boot     *)
(* where they are.                                                          *)
LEMMA SameTable ==
  ASSUME Inv, UNCHANGED <<lists, table, pc>>, DOMAIN held' = DOMAIN held
  PROVE  Inv'
BY DEF Inv, TableTyped, BootInv, Std, BoundInv, HostInv, LockInv, DescriptorsAccounted, lists, table

LEMMA SysInit == Inv /\ alt_sys_init => Inv'
<1> SUFFICES ASSUME Inv, alt_sys_init PROVE Inv'
  OBVIOUS
<1>1. UNCHANGED <<alt_fd_list, alt_max_fd, held>>
  BY DEF alt_sys_init, table
<1>2. /\ alt_dev_list = {"null"} /\ pc' = "stdout"
      /\ alt_dev_list' = {"null", "jtag"} /\ alt_fs_list' \subseteq {"host"}
  BY DEF alt_sys_init, Inv, TableTyped, BootInv
<1>3. TableTyped'
  BY <1>1, <1>2 DEF Inv, TableTyped
<1>4. BootInv'
  BY <1>1, <1>2 DEF alt_sys_init, Inv, BootInv, Std
<1>5. QED BY <1>1, <1>3, <1>4 DEF Inv, BoundInv, HostInv, LockInv, DescriptorsAccounted

(* Standard output first, then input, then error.                           *)
LEMMA RedirectStep ==
  ASSUME Inv, NEW k \in Stdio, NEW mode \in Mode, NEW from, NEW to,
         Redirect(from, k, mode, to),
         \/ from = "stdout" /\ k = 1 /\ mode = "O_WRONLY" /\ to = "stdin"
         \/ from = "stdin" /\ k = 0 /\ mode = "O_RDONLY" /\ to = "stderr"
         \/ from = "stderr" /\ k = 2 /\ mode = "O_WRONLY" /\ to = "main"
  PROVE  Inv'
<1>2. /\ pc = from /\ pc' = to /\ pc \in {"stdout", "stdin", "stderr"}
      /\ alt_open_fd(k, DeviceName.jtag, mode)
      /\ alt_dev_list' = alt_dev_list /\ alt_fs_list' = alt_fs_list /\ held' = held
  BY DEF Redirect, lists
<1>3. /\ alt_fd_list' \in [Fd -> alt_fd]
      /\ alt_max_fd' \in 3 .. ALT_MAX_FD - 1
      /\ alt_fd_list'[k].dev = "jtag" /\ alt_fd_list'[k].fd_flags.mode = mode
      /\ \A fd \in Fd : ~alt_fd_list'[fd].fd_flags.excl
      /\ \A fd \in Stdio \ {k} : alt_fd_list'[fd] = alt_fd_list[fd]
      /\ \A fd \in Fd \ Stdio : alt_fd_list'[fd].dev = "none"
  BY <1>2, RedirectOutcome
<1>4. TableTyped'
  BY <1>2, <1>3, TableAssumption DEF Inv, TableTyped
<1>5. DOMAIN held = {}
  BY <1>2 DEF Inv, BootInv
<1>6. BootInv'
  <2>1. pc' \in {"stdin", "stderr", "main"}
    BY <1>2
  <2>2. alt_dev_list' = {"null", "jtag"}
    BY <1>2 DEF Inv, BootInv
  <2>3. Std(1, "O_WRONLY")' /\ alt_max_fd' >= 3
    BY <1>2, <1>3, TableAssumption DEF Inv, BootInv, Std, Stdio
  <2>4. pc' \in {"stderr", "main"} => Std(0, "O_RDONLY")'
    BY <1>2, <1>3 DEF Inv, BootInv, Std, Stdio
  <2>5. pc' = "main" => Std(2, "O_WRONLY")'
    BY <1>2, <1>3 DEF Std
  <2>6. QED BY <1>2, <1>3, <1>5, <2>1, <2>2, <2>3, <2>4, <2>5 DEF BootInv
<1>7. BoundInv' /\ LockInv'
  BY <1>3 DEF BoundInv, LockInv
<1>8. \A fd \in Stdio : alt_fd_list'[fd].dev # "none"
  BY <1>3 DEF Inv, DescriptorsAccounted
<1>9. HostInv'
  <2>1. ASSUME NEW fd \in Stdio \ {k} PROVE alt_fd_list'[fd] = alt_fd_list[fd] /\ fd \in Fd
    BY <1>3, TableAssumption DEF Stdio, Fd
  <2>2. QED BY <1>3, <2>1 DEF HostInv, Inv
<1>10. DescriptorsAccounted'
  BY <1>2, <1>3, <1>5, <1>8 DEF DescriptorsAccounted
<1>11. QED BY <1>2, <1>4, <1>5, <1>6, <1>7, <1>9, <1>10 DEF Inv

LEMMA IoRedirect == Inv /\ alt_io_redirect => Inv'
<1> SUFFICES ASSUME Inv, alt_io_redirect PROVE Inv'
  OBVIOUS
<1>1. /\ 0 \in Stdio /\ 1 \in Stdio /\ 2 \in Stdio
      /\ "O_WRONLY" \in Mode /\ "O_RDONLY" \in Mode
  BY DEF Stdio, Mode
<1>2. CASE Redirect("stdout", 1, "O_WRONLY", "stdin")
  BY <1>1, <1>2, RedirectStep
<1>3. CASE Redirect("stdin", 0, "O_RDONLY", "stderr")
  BY <1>1, <1>3, RedirectStep
<1>4. CASE Redirect("stderr", 2, "O_WRONLY", "main")
  BY <1>1, <1>4, RedirectStep
<1>5. QED BY <1>2, <1>3, <1>4 DEF alt_io_redirect

(* A descriptor that the program uses is one of those in use, and not above *)
(* alt_max_fd.                                                              *)
LEMMA UsableInUse ==
  ASSUME Inv, pc = "main", NEW fd \in Usable
  PROVE  fd \in Fd /\ alt_fd_list[fd].dev # "none" /\ fd <= alt_max_fd
<1>1. CASE fd \in Stdio
  BY <1>1, TableAssumption DEF Inv, TableTyped, BootInv, DescriptorsAccounted, Stdio, Fd
<1>2. CASE fd \in DOMAIN held
  BY <1>2 DEF Inv, BoundInv, DescriptorsAccounted
<1>3. QED BY <1>1, <1>2, TableAssumption DEF Usable

LEMMA Opens == Inv /\ ALT_OPEN => Inv'
<1> SUFFICES ASSUME Inv, ALT_OPEN PROVE Inv'
  OBVIOUS
<1> DEFINE Opened(name, mode, nonblock, o) ==
      /\ alt_fd_list' = o.list
      /\ alt_max_fd' = o.max
      /\ held' = IF o.fd < 0 THEN held
                 ELSE [fd \in DOMAIN held \union {o.fd} |->
                         IF fd = o.fd
                         THEN [name |-> name, mode |-> mode, nonblock |-> nonblock,
                               position |-> 0]
                         ELSE held[fd]]
<1>0. PICK name \in Names, mode \in Modes, nonblock \in BOOLEAN :
        \E o \in open(name, mode, nonblock) : Opened(name, mode, nonblock, o)
  BY Zenon DEF ALT_OPEN
<1>1. PICK o \in open(name, mode, nonblock) : Opened(name, mode, nonblock, o)
  BY <1>0
<1>2. pc = "main" /\ pc' = pc /\ alt_dev_list' = alt_dev_list /\ alt_fs_list' = alt_fs_list
  BY DEF ALT_OPEN, lists
<1>3. OpenShape(o, name, mode)
  BY <1>1, OpenOutcome, TableAssumption
<1>4. TableTyped'
  BY <1>1, <1>2, <1>3 DEF Inv, TableTyped, OpenShape
<1>5. alt_max_fd' >= alt_max_fd /\ alt_max_fd \in Int /\ alt_max_fd' \in Int
  BY <1>1, <1>3, TableAssumption DEF OpenShape, Inv, TableTyped
<1>6. alt_max_fd' >= 3 /\ Std(0, "O_RDONLY")' /\ Std(1, "O_WRONLY")' /\ Std(2, "O_WRONLY")'
        => BootInv'
  BY <1>2 DEF Inv, BootInv
<1>7. /\ alt_max_fd >= 3 /\ Std(0, "O_RDONLY") /\ Std(1, "O_WRONLY") /\ Std(2, "O_WRONLY")
      /\ 0 \in Fd /\ 1 \in Fd /\ 2 \in Fd
  BY <1>2, TableAssumption DEF Inv, BootInv, Fd
<1>8. CASE OpenFailed(o)
  <2>1. DOMAIN held' = DOMAIN held
    BY <1>1, <1>8 DEF OpenFailed
  <2>2. /\ \A fd \in Fd : /\ alt_fd_list'[fd].dev = alt_fd_list[fd].dev
                          /\ alt_fd_list[fd].dev # "none" => alt_fd_list'[fd] = alt_fd_list[fd]
    BY <1>1, <1>8 DEF OpenFailed
  <2>3. BootInv'
    BY <1>5, <1>6, <1>7, <2>2 DEF Std
  <2>4. BoundInv' /\ HostInv' /\ LockInv'
    <3>1. BoundInv'
      BY <1>5, <2>2, TableAssumption DEF Inv, BoundInv, Fd
    <3>2. HostInv'
      BY <2>2 DEF Inv, HostInv
    <3>3. LockInv'
      BY <2>2 DEF Inv, LockInv
    <3>4. QED BY <3>1, <3>2, <3>3
  <2>5. DescriptorsAccounted'
    <3>1. Stdio \subseteq Fd
      BY TableAssumption DEF Stdio, Fd
    <3>2. QED BY <2>1, <2>2, <3>1 DEF Inv, DescriptorsAccounted
  <2>6. QED BY <1>4, <2>1, <2>3, <2>4, <2>5 DEF Inv
<1>9. CASE OpenDone(o, name, mode)
  <2>1. o.fd \in Fd \ Stdio /\ o.fd > 2 /\ o.fd \in Int /\ alt_fd_list[o.fd].dev = "none"
    BY <1>9, FreeAboveStdio DEF OpenDone
  <2>2. DOMAIN held' = DOMAIN held \union {o.fd}
    BY <1>1, <2>1
  <2>3. /\ \A fd \in Fd \ {o.fd} : alt_fd_list'[fd] = alt_fd_list[fd]
        /\ ~alt_fd_list'[o.fd].fd_flags.excl
        /\ alt_fd_list'[o.fd].dev = "host" => ~alt_fd_list'[o.fd].fd_flags.dev
        /\ o.fd <= alt_max_fd'
        /\ \A fd \in Fd : fd <= alt_max_fd' /\ fd # o.fd
              /\ alt_fd_list[fd].dev = alt_fd_list'[o.fd].dev => ~alt_fd_list[fd].fd_flags.excl
    BY <1>1, <1>9 DEF OpenDone
  <2>4. alt_fd_list'[o.fd].dev # "none"
    BY <1>1, <1>9, FoundDevices DEF OpenDone, Device
  <2>5. BootInv'
    BY <1>5, <1>6, <1>7, <2>1, <2>3 DEF Std
  <2>6. BoundInv'
    BY <1>5, <2>3, TableAssumption DEF Inv, BoundInv, Fd
  <2>7. HostInv'
    BY <2>3 DEF Inv, HostInv
  <2>8. LockInv'
    <3>1. ASSUME NEW fd \in Fd, fd # o.fd, alt_fd_list[fd].dev = alt_fd_list'[o.fd].dev
          PROVE  fd <= alt_max_fd'
      BY <1>5, <1>7, <2>4, <3>1, TableAssumption DEF Inv, BoundInv, Fd, Stdio
    <3>2. QED BY <2>3, <3>1 DEF Inv, LockInv
  <2>9. DescriptorsAccounted'
    BY <2>1, <2>2, <2>3, <2>4, TableAssumption DEF Inv, DescriptorsAccounted, Stdio, Fd
  <2>10. DOMAIN held' \subseteq Fd
    BY <2>1, <2>2 DEF Inv
  <2>11. QED BY <1>4, <2>5, <2>6, <2>7, <2>8, <2>9, <2>10 DEF Inv
<1>10. QED BY <1>3, <1>8, <1>9 DEF OpenShape

LEMMA Closes ==
  ASSUME Inv, pc = "main", pc' \in {"main", "exit"}, NEW fd \in Usable, Close(fd),
         DOMAIN held' = DOMAIN held \ {fd}
  PROVE  Inv'
<1>1. fd \in Fd
  BY UsableInUse
<1>2. /\ alt_fd_list \in [Fd -> alt_fd] /\ alt_fd_list' = alt_release_fd(alt_fd_list, fd)
      /\ alt_dev_list' = alt_dev_list /\ alt_fs_list' = alt_fs_list /\ alt_max_fd' = alt_max_fd
  BY DEF Inv, TableTyped, Close, lists
<1>3. /\ alt_fd_list' \in [Fd -> alt_fd]
      /\ \A other \in Fd \ {fd} : alt_fd_list'[other] = alt_fd_list[other]
      /\ fd > 2 => alt_fd_list'[fd].dev = "none"
      /\ ~(fd > 2) => alt_fd_list' = alt_fd_list
  BY <1>1, <1>2, ReleaseTyped
<1>4. TableTyped'
  BY <1>2, <1>3 DEF Inv, TableTyped
<1>5. BootInv'
  <2>1. /\ 0 \in Fd /\ 1 \in Fd /\ 2 \in Fd
    BY TableAssumption DEF Fd
  <2>2. \A other \in {0, 1, 2} : alt_fd_list'[other] = alt_fd_list[other]
    BY <1>3, <2>1
  <2>3. QED BY <1>2, <2>2 DEF Inv, BootInv, Std
<1>6. BoundInv'
  BY <1>2, <1>3 DEF Inv, BoundInv
<1>7. HostInv'
  BY <1>3 DEF Inv, HostInv
<1>8. LockInv'
  BY <1>3 DEF Inv, LockInv
<1>9. DescriptorsAccounted'
  <2>1. CASE fd > 2
    <3>1. fd \notin Stdio /\ Stdio \subseteq Fd
      BY <1>1, <2>1, TableAssumption DEF Fd, Stdio
    <3>2. QED BY <1>1, <1>3, <2>1, <3>1 DEF Inv, DescriptorsAccounted
  <2>2. CASE ~(fd > 2)
    <3>1. fd \in Stdio
      BY <1>1, <2>2, TableAssumption DEF Fd, Stdio
    <3>2. DOMAIN held' = DOMAIN held
      BY <3>1 DEF Inv, DescriptorsAccounted
    <3>3. QED BY <1>3, <2>2, <3>2 DEF Inv, DescriptorsAccounted
  <2>3. QED BY <2>1, <2>2
<1>10. QED BY <1>4, <1>5, <1>6, <1>7, <1>8, <1>9 DEF Inv

LEMMA CloseCall == Inv /\ ALT_CLOSE => Inv'
<1> SUFFICES ASSUME Inv, ALT_CLOSE PROVE Inv'
  OBVIOUS
<1>1. PICK fd \in Usable :
        Close(fd) /\ held' = [other \in DOMAIN held \ {fd} |-> held[other]]
  BY DEF ALT_CLOSE
<1>2. pc = "main" /\ pc' = "main"
  BY DEF ALT_CLOSE
<1>3. QED BY <1>1, <1>2, Closes

(* exit() closes standard output, which is none of the program's own.       *)
LEMMA ExitCall == Inv /\ Exit => Inv'
<1> SUFFICES ASSUME Inv, Exit PROVE Inv'
  OBVIOUS
<1>1. pc = "main" /\ pc' = "exit" /\ held' = held /\ Close(1)
  BY DEF Exit
<1>2. alt_fd_list' = alt_fd_list
  BY <1>1 DEF Close, alt_release_fd
<1>3. UNCHANGED <<alt_dev_list, alt_fs_list, alt_max_fd>>
  BY <1>1 DEF Close, lists
<1>4. TableTyped' /\ BootInv'
  BY <1>1, <1>2, <1>3 DEF Inv, TableTyped, BootInv, Std
<1>5. QED BY <1>1, <1>2, <1>3, <1>4 DEF Inv, BoundInv, HostInv, LockInv, DescriptorsAccounted

LEMMA TransferCall ==
  ASSUME Inv, NEW fd \in Usable, NEW function, NEW forbidden, Transfer(fd, function, forbidden)
  PROVE  Inv'
<1>1. UNCHANGED <<lists, table, pc>>
  BY DEF Transfer, Call, lists
<1>2. DOMAIN held' = DOMAIN held
  BY DEF Transfer, HostTransfer, MovedTo
<1>3. QED BY <1>1, <1>2, SameTable

LEMMA LseekCall == Inv /\ ALT_LSEEK => Inv'
<1> SUFFICES ASSUME Inv, ALT_LSEEK PROVE Inv'
  OBVIOUS
<1>1. UNCHANGED <<lists, table, pc>>
  BY DEF ALT_LSEEK, Call, lists
<1>2. DOMAIN held' = DOMAIN held
  BY DEF ALT_LSEEK, MovedTo
<1>3. QED BY <1>1, <1>2, SameTable

(* A step that changes the flags of one descriptor, but neither its mode    *)
(* nor whether it is that of a device.                                      *)
LEMMA FlagsChange ==
  ASSUME Inv, NEW fd \in Fd, NEW flags \in Flags,
         flags.mode = alt_fd_list[fd].fd_flags.mode,
         flags.dev = alt_fd_list[fd].fd_flags.dev,
         alt_fd_list' = [alt_fd_list EXCEPT ![fd].fd_flags = flags],
         UNCHANGED <<lists, alt_max_fd, pc>>, DOMAIN held' = DOMAIN held
  PROVE  /\ TableTyped' /\ BoundInv' /\ DescriptorsAccounted' /\ DOMAIN held' \subseteq Fd
         /\ \A other \in Fd : alt_fd_list'[other].dev = alt_fd_list[other].dev
         /\ \A other \in Fd \ {fd} : alt_fd_list'[other] = alt_fd_list[other]
         /\ alt_fd_list'[fd].fd_flags = flags
         /\ pc \in {"main", "exit"} => BootInv'
<1>1. alt_fd_list \in [Fd -> alt_fd]
  BY DEF Inv, TableTyped
<1>2. /\ alt_fd_list' \in [Fd -> alt_fd]
      /\ \A other \in Fd \ {fd} : alt_fd_list'[other] = alt_fd_list[other]
      /\ alt_fd_list'[fd].fd_flags = flags /\ alt_fd_list'[fd].dev = alt_fd_list[fd].dev
  <2>1. alt_fd_list' = [alt_fd_list EXCEPT ![fd] = [alt_fd_list[fd] EXCEPT !.fd_flags = flags]]
    BY <1>1
  <2>2. /\ [alt_fd_list[fd] EXCEPT !.fd_flags = flags] \in alt_fd
        /\ [alt_fd_list[fd] EXCEPT !.fd_flags = flags].fd_flags = flags
        /\ [alt_fd_list[fd] EXCEPT !.fd_flags = flags].dev = alt_fd_list[fd].dev
    BY <1>1 DEF alt_fd
  <2>3. QED BY <1>1, <2>1, <2>2
<1>3. \A other \in Fd : /\ alt_fd_list'[other].dev = alt_fd_list[other].dev
                        /\ alt_fd_list'[other].fd_flags.mode = alt_fd_list[other].fd_flags.mode
  BY <1>2
<1>4. Stdio \subseteq Fd /\ 0 \in Fd /\ 1 \in Fd /\ 2 \in Fd
  BY TableAssumption DEF Stdio, Fd
<1>5. TableTyped'
  BY <1>2 DEF Inv, TableTyped, lists
<1>6. BoundInv' /\ DescriptorsAccounted'
  BY <1>3, <1>4 DEF Inv, BoundInv, DescriptorsAccounted
<1>7. pc \in {"main", "exit"} => BootInv'
  BY <1>3, <1>4 DEF Inv, BootInv, Std, lists
<1>8. QED BY <1>2, <1>3, <1>5, <1>6, <1>7 DEF Inv

LEMMA FcntlCall == Inv /\ ALT_FCNTL => Inv'
<1> SUFFICES ASSUME Inv, ALT_FCNTL PROVE Inv'
  OBVIOUS
<1>1. PICK fd \in Usable, nonblock \in BOOLEAN :
        /\ Call(fd)
        /\ alt_fd_list' = [alt_fd_list EXCEPT ![fd].fd_flags =
                             SetFlags(alt_fd_list[fd].fd_flags, nonblock)]
        /\ held' = IF fd \in Stdio THEN held ELSE [held EXCEPT ![fd].nonblock = nonblock]
        /\ UNCHANGED alt_max_fd
  BY DEF ALT_FCNTL
<1>2. pc = "main" /\ UNCHANGED <<lists, pc>> /\ fd \in Fd
  BY <1>1, UsableInUse DEF Call
<1> DEFINE old == alt_fd_list[fd].fd_flags
           flags == SetFlags(old, nonblock)
<1>3. old \in Flags
  BY <1>2 DEF Inv, TableTyped, alt_fd
<1>4. /\ flags \in Flags /\ flags.mode = old.mode /\ flags.dev = old.dev
      /\ flags.excl = old.excl
  BY <1>3 DEF SetFlags, Flags
<1>5. DOMAIN held' = DOMAIN held
  BY <1>1
<1> HIDE DEF flags
<1>6. /\ TableTyped' /\ BoundInv' /\ DescriptorsAccounted' /\ DOMAIN held' \subseteq Fd
      /\ \A other \in Fd : alt_fd_list'[other].dev = alt_fd_list[other].dev
      /\ \A other \in Fd \ {fd} : alt_fd_list'[other] = alt_fd_list[other]
      /\ alt_fd_list'[fd].fd_flags = flags
      /\ pc \in {"main", "exit"} => BootInv'
  <2>1. alt_fd_list' = [alt_fd_list EXCEPT ![fd].fd_flags = flags]
    BY <1>1 DEF flags
  <2>2. QED BY <1>1, <1>2, <1>4, <1>5, <2>1, FlagsChange
<1>7. \A other \in Fd : /\ alt_fd_list'[other].fd_flags.excl = alt_fd_list[other].fd_flags.excl
                        /\ alt_fd_list'[other].fd_flags.dev = alt_fd_list[other].fd_flags.dev
  BY <1>4, <1>6
<1>8. HostInv' /\ LockInv'
  BY <1>6, <1>7 DEF Inv, HostInv, LockInv
<1>9. QED BY <1>2, <1>6, <1>8 DEF Inv

(* The lock is given although the highest descriptor may share the device:  *)
(* that one is above the new owner.                                         *)
LEMMA IoctlCall == Inv /\ ALT_IOCTL => Inv'
<1> SUFFICES ASSUME Inv, ALT_IOCTL PROVE Inv'
  OBVIOUS
<1>1. PICK fd \in Usable :
        /\ Call(fd) /\ alt_fd_list[fd].fd_flags.dev
        /\ alt_fd_list' \in {alt_fd_lock(fd), alt_fd_unlock(fd)}
        /\ UNCHANGED <<alt_max_fd, held>>
  BY DEF ALT_IOCTL, entry
<1>2. /\ pc = "main" /\ UNCHANGED <<lists, pc>>
      /\ fd \in Fd /\ alt_fd_list[fd].dev # "none" /\ fd <= alt_max_fd
  BY <1>1, UsableInUse DEF Call
<1> DEFINE old == alt_fd_list[fd].fd_flags
<1>3. old \in Flags
  BY <1>2 DEF Inv, TableTyped, alt_fd
<1>4. alt_fd_list[fd].dev # "host"
  BY <1>1, <1>2 DEF Inv, HostInv
<1>5. ASSUME NEW lock \in BOOLEAN, alt_fd_list' = [alt_fd_list EXCEPT ![fd].fd_flags.excl = lock]
      PROVE  /\ TableTyped' /\ BootInv' /\ BoundInv' /\ DescriptorsAccounted'
             /\ DOMAIN held' \subseteq Fd /\ HostInv'
             /\ \A other \in Fd : alt_fd_list'[other].dev = alt_fd_list[other].dev
             /\ \A other \in Fd \ {fd} : alt_fd_list'[other] = alt_fd_list[other]
             /\ alt_fd_list'[fd].fd_flags.excl = lock
  <2> DEFINE flags == [old EXCEPT !.excl = lock]
  <2>1. /\ flags \in Flags /\ flags.mode = old.mode /\ flags.dev = old.dev
        /\ flags.excl = lock
    BY <1>3 DEF Flags
  <2>2. alt_fd_list' = [alt_fd_list EXCEPT ![fd].fd_flags = flags]
    BY <1>2, <1>5 DEF Inv, TableTyped
  <2> HIDE DEF flags
  <2>3. /\ TableTyped' /\ BoundInv' /\ DescriptorsAccounted' /\ DOMAIN held' \subseteq Fd
        /\ \A other \in Fd : alt_fd_list'[other].dev = alt_fd_list[other].dev
        /\ \A other \in Fd \ {fd} : alt_fd_list'[other] = alt_fd_list[other]
        /\ alt_fd_list'[fd].fd_flags = flags
        /\ pc \in {"main", "exit"} => BootInv'
    BY <1>1, <1>2, <2>1, <2>2, FlagsChange
  <2>4. HostInv'
    BY <1>4, <2>3 DEF Inv, HostInv
  <2>5. QED BY <1>2, <2>1, <2>3, <2>4
<1>6. CASE UNCHANGED alt_fd_list
  BY <1>1, <1>2, <1>6, SameTable DEF table
<1>7. CASE alt_fd_list' = alt_fd_unlock(fd)
  <2>1. alt_fd_list' = [alt_fd_list EXCEPT ![fd].fd_flags.excl = FALSE]
    BY <1>7 DEF alt_fd_unlock
  <2>2. LockInv'
    BY <1>2, <1>5, <2>1 DEF Inv, LockInv
  <2>3. QED BY <1>5, <2>1, <2>2 DEF Inv
<1>8. CASE /\ ~\E i \in 0 .. alt_max_fd - 1 : i # fd /\ alt_fd_list[i].dev = alt_fd_list[fd].dev
           /\ alt_fd_list' = [alt_fd_list EXCEPT ![fd].fd_flags.excl = TRUE]
  <2>1. ASSUME NEW other \in Fd, other # fd, alt_fd_list[other].dev = alt_fd_list[fd].dev
        PROVE  fd < other
    <3>1. other <= alt_max_fd
      <4>1. CASE other \in Stdio
        BY <1>2, <2>1, <4>1, TableAssumption DEF Inv, TableTyped, BootInv, Stdio
      <4>2. CASE other \notin Stdio
        BY <1>2, <2>1, <4>2 DEF Inv, BoundInv
      <4>3. QED BY <4>1, <4>2
    <3>2. other \notin 0 .. alt_max_fd - 1
      BY <1>8, <2>1
    <3>3. QED BY <1>2, <2>1, <3>1, <3>2, TableAssumption DEF Inv, TableTyped, Fd
  <2>2. ASSUME NEW one \in Fd, NEW other \in Fd, one # other,
               alt_fd_list[one].dev # "none", alt_fd_list[one].dev = alt_fd_list[other].dev,
               alt_fd_list'[one].fd_flags.excl
        PROVE  one < other
    <3>1. CASE one = fd
      BY <2>1, <2>2, <3>1
    <3>2. CASE one # fd
      BY <1>5, <1>8, <2>2, <3>2 DEF Inv, LockInv
    <3>3. QED BY <3>1, <3>2
  <2>3. LockInv'
    BY <1>5, <1>8, <2>2 DEF LockInv
  <2>4. QED BY <1>5, <1>8, <2>3 DEF Inv
<1>9. QED BY <1>1, <1>6, <1>7, <1>8 DEF alt_fd_lock

LEMMA NextInv == Inv /\ [Next]_vars => Inv'
<1> SUFFICES ASSUME Inv, [Next]_vars PROVE Inv'
  OBVIOUS
<1>1. ASSUME ALT_READ PROVE Inv'
  BY <1>1, TransferCall DEF ALT_READ
<1>2. ASSUME ALT_WRITE PROVE Inv'
  BY <1>2, TransferCall DEF ALT_WRITE
<1>3. ASSUME UNCHANGED vars PROVE Inv'
  BY <1>3, SameTable DEF vars
<1>4. QED BY <1>1, <1>2, <1>3, SysInit, IoRedirect, ExitCall, Opens, CloseCall, LseekCall,
             IoctlCall, FcntlCall DEF Next

LEMMA InvAlways == Spec => []Inv
BY InitInv, NextInv, PTL DEF Spec

----------------------------------------------------------------------------
(* What the descriptors reach.                                             *)

(* A name on the host is neither empty nor that of a device.                *)
LEMMA HostNames ==
  ASSUME NEW name, IsPrefix(DeviceName.host, name)
  PROVE  name # <<>> /\ name # DeviceName.null /\ name # DeviceName.jtag
<1> DEFINE host == <<"mnt", "host">>
<1>1. Len(host) = 2 /\ host[1] = "mnt"
  OBVIOUS
<1>2. Len(host) <= Len(name) /\ SubSeq(host, 1, 2) = SubSeq(name, 1, 2)
  BY <1>1 DEF IsPrefix, DeviceName
<1>3. name # <<>>
  BY <1>1, <1>2
<1>4. ASSUME NEW one, NEW other, name = <<one, other>> PROVE one = "mnt"
  <2>1. SubSeq(host, 1, 2)[1] = "mnt"
    BY <1>1
  <2>2. SubSeq(<<one, other>>, 1, 2)[1] = one
    OBVIOUS
  <2>3. QED BY <1>2, <1>4, <2>1, <2>2
<1>5. QED BY <1>3, <1>4 DEF DeviceName

(* A name is found as that of a device, or below that of the host.          *)
LEMMA FoundNames ==
  ASSUME Inv, NEW name, NEW dev \in Found(name)
  PROVE  IF dev = "host" THEN IsPrefix(DeviceName.host, name) ELSE DeviceName[dev] = name
<1>1. alt_dev_list \subseteq {"null", "jtag"} /\ alt_fs_list \subseteq {"host"}
  BY DEF Inv, TableTyped
<1>2. dev \in alt_find_dev(name) \/ dev \in alt_find_file(name)
  BY DEF Found
<1>3. CASE dev \in alt_find_dev(name)
  BY <1>1, <1>3 DEF alt_find_dev
<1>4. CASE dev \in alt_find_file(name)
  BY <1>1, <1>4 DEF alt_find_file, DeviceName
<1>5. QED BY <1>2, <1>3, <1>4

(* The descriptors of the program are beyond the standard ones and in use.  *)
LEMMA HeldInUse ==
  ASSUME Inv, NEW fd \in DOMAIN held
  PROVE  /\ fd \in Fd \ Stdio /\ alt_fd_list[fd] \in alt_fd
         /\ alt_fd_list[fd].dev \in Device /\ alt_fd_list[fd].dev # "none"
<1>1. fd \in Fd \ Stdio /\ alt_fd_list[fd].dev # "none"
  BY DEF Inv, DescriptorsAccounted
<1>2. alt_fd_list[fd] \in alt_fd
  BY <1>1 DEF Inv, TableTyped
<1>3. QED BY <1>1, <1>2 DEF alt_fd

(* A step that leaves what the program has, and what its descriptors reach. *)
LEMMA SameFiles ==
  ASSUME Inv, FilesInv, UNCHANGED <<file, held>>, StdioInv',
         \A fd \in DOMAIN held :
           /\ alt_fd_list'[fd].dev = alt_fd_list[fd].dev
           /\ alt_fd_list'[fd].priv = alt_fd_list[fd].priv
           /\ alt_fd_list'[fd].fd_flags.mode = alt_fd_list[fd].fd_flags.mode
           /\ alt_fd_list'[fd].fd_flags.nonblock = alt_fd_list[fd].fd_flags.nonblock
  PROVE  FilesInv'
BY DEF FilesInv, FilesTyped, Reached, OnFile, HandlesApart

LEMMA InitFiles == Init => FilesInv
<1> SUFFICES ASSUME Init PROVE FilesInv
  OBVIOUS
<1>1. StdioInv
  BY TableAssumption DEF Init, StdioInv, Entry, Stdio, Fd
<1>2. DOMAIN held = {} /\ held \in [{} -> Held]
  BY DEF Init
<1>3. Closed \in File
  BY DEF Closed, File
<1>4. FilesTyped
  BY <1>2, <1>3 DEF Init, FilesTyped
<1>5. QED BY <1>1, <1>2, <1>4 DEF FilesInv, Reached, HandlesApart

(* The boot opens no file.                                                  *)
LEMMA RedirectFiles ==
  ASSUME Inv, FilesInv, NEW k \in Stdio, NEW mode \in Mode, NEW from, NEW to,
         from \in {"stdout", "stdin", "stderr"}, Redirect(from, k, mode, to)
  PROVE  FilesInv'
<1>1. /\ pc \in {"stdout", "stdin", "stderr"} /\ alt_open_fd(k, DeviceName.jtag, mode)
      /\ held' = held /\ DOMAIN held = {}
  BY DEF Redirect, Inv, BootInv
<1>2. /\ alt_fd_list'[k].dev = "jtag"
      /\ \A fd \in Stdio \ {k} : alt_fd_list'[fd] = alt_fd_list[fd]
  BY <1>1, RedirectOutcome
<1>3. StdioInv'
  BY <1>2 DEF FilesInv, StdioInv
<1>4. PICK o \in open(DeviceName.jtag, mode, FALSE) : file' = o.file
  BY <1>1 DEF alt_open_fd
<1>5. OpenShape(o, DeviceName.jtag, mode) /\ OpenFiles(o, DeviceName.jtag, FALSE)
  BY OpenOutcome
<1>6. Found(DeviceName.jtag) = {"jtag"}
  BY <1>1, JtagFound DEF Inv, BootInv
<1>7. o.file = file
  <2>1. CASE o.fd \in FreeFds
    <3>1. o.fd > 2 /\ o.fd \in Int
      BY <2>1, FreeAboveStdio
    <3>2. o.list[o.fd].dev \in Found(DeviceName.jtag)
      BY <1>5, <3>1 DEF OpenShape, OpenFailed, OpenDone
    <3>3. QED BY <1>5, <1>6, <3>1, <3>2 DEF OpenFiles
  <2>2. CASE o.fd \notin FreeFds
    BY <1>5, <2>2 DEF OpenFiles
  <2>3. QED BY <2>1, <2>2
<1>8. QED BY <1>1, <1>3, <1>4, <1>7, SameFiles

(* open: a handle that was free is that of no other descriptor.             *)
LEMMA OpenCall == Inv /\ FilesInv /\ ALT_OPEN => FilesInv'
<1> SUFFICES ASSUME Inv, FilesInv, ALT_OPEN PROVE FilesInv'
  OBVIOUS
<1> DEFINE new(name, mode, nonblock) ==
             [name |-> name, mode |-> mode, nonblock |-> nonblock, position |-> 0]
           Opened(name, mode, nonblock, o) ==
             /\ alt_fd_list' = o.list
             /\ file' = o.file
             /\ held' = IF o.fd < 0 THEN held
                        ELSE [fd \in DOMAIN held \union {o.fd} |->
                                IF fd = o.fd THEN new(name, mode, nonblock) ELSE held[fd]]
<1>0. PICK name \in Names, mode \in Modes, nonblock \in BOOLEAN :
        \E o \in open(name, mode, nonblock) : Opened(name, mode, nonblock, o)
  BY Zenon DEF ALT_OPEN
<1>1. PICK o \in open(name, mode, nonblock) : Opened(name, mode, nonblock, o)
  BY <1>0
<1>2. mode \in Mode
  BY TableAssumption
<1>3. OpenShape(o, name, mode) /\ OpenFiles(o, name, nonblock)
  BY <1>2, OpenOutcome
<1>4. Stdio \subseteq Fd
  BY TableAssumption DEF Stdio, Fd
<1>5. CASE OpenFailed(o)
  <2>1. UNCHANGED <<file, held>>
    <3>1. o.fd = -1 /\ o.fd \notin FreeFds
      BY <1>5, FreeAboveStdio DEF OpenFailed
    <3>2. QED BY <1>1, <1>3, <3>1 DEF OpenFiles
  <2>2. \A fd \in Fd : alt_fd_list[fd].dev # "none" => alt_fd_list'[fd] = alt_fd_list[fd]
    BY <1>1, <1>5 DEF OpenFailed
  <2>3. StdioInv'
    BY <1>4, <2>2 DEF Inv, DescriptorsAccounted, FilesInv, StdioInv
  <2>4. QED BY <2>1, <2>2, <2>3, HeldInUse, SameFiles
<1>6. CASE OpenDone(o, name, mode)
  <2>1. o.fd \in FreeFds
    BY <1>6 DEF OpenDone
  <2>2. o.fd \in Fd \ Stdio /\ o.fd > 2 /\ o.fd \in Int /\ alt_fd_list[o.fd].dev = "none"
    BY <2>1, FreeAboveStdio
  <2>3. /\ \A fd \in Fd \ {o.fd} : alt_fd_list'[fd] = alt_fd_list[fd]
        /\ alt_fd_list'[o.fd].dev \in Found(name)
        /\ alt_fd_list'[o.fd].fd_flags.mode = mode
    BY <1>1, <1>6 DEF OpenDone
  <2>4. o.fd \notin DOMAIN held
    BY <2>2, HeldInUse
  <2>5. /\ DOMAIN held' = DOMAIN held \union {o.fd}
        /\ held'[o.fd] = new(name, mode, nonblock)
        /\ \A fd \in DOMAIN held : held'[fd] = held[fd]
        /\ held' = [fd \in DOMAIN held' |-> held'[fd]]
    BY <1>1, <2>2, <2>4
  <2>6. /\ alt_fd_list'[o.fd].fd_flags.nonblock = nonblock
        /\ \/ alt_fd_list'[o.fd].dev # "host" /\ file' = file
           \/ /\ alt_fd_list'[o.fd].dev = "host" /\ alt_fd_list'[o.fd].priv \in FreeHandles
              /\ file' = [file EXCEPT ![alt_fd_list'[o.fd].priv] =
                                        [name |-> name, position |-> 0]]
    BY <1>1, <1>3, <2>2 DEF OpenFiles
  <2>7. new(name, mode, nonblock) \in Held
    BY <1>2 DEF Held
  <2>8. FilesTyped'
    <3>1. [name |-> name, position |-> 0] \in File
      BY DEF File
    <3>2. file' \in [Handles -> File]
      BY <2>6, <3>1 DEF FilesInv, FilesTyped
    <3>3. held' \in [DOMAIN held' -> Held]
      BY <2>5, <2>7 DEF FilesInv, FilesTyped
    <3>4. QED BY <3>2, <3>3 DEF FilesTyped
  <2>9. StdioInv'
    BY <1>4, <2>2, <2>3 DEF FilesInv, StdioInv
  <2>10. ASSUME NEW fd \in DOMAIN held
         PROVE  /\ fd # o.fd /\ alt_fd_list'[fd] = alt_fd_list[fd] /\ held'[fd] = held[fd]
                /\ alt_fd_list[fd].dev = "host" =>
                     /\ alt_fd_list[fd].priv \notin FreeHandles
                     /\ file'[alt_fd_list[fd].priv] = file[alt_fd_list[fd].priv]
    <3>1. fd # o.fd /\ alt_fd_list'[fd] = alt_fd_list[fd] /\ held'[fd] = held[fd]
      BY <2>3, <2>4, <2>5, HeldInUse
    <3>2. ASSUME alt_fd_list[fd].dev = "host"
          PROVE  /\ alt_fd_list[fd].priv \in Handles \ FreeHandles
      <4>1. OnFile(fd)
        BY <3>2 DEF FilesInv, Reached
      <4>2. held[fd].name # <<>>
        BY <4>1, HostNames DEF OnFile
      <4>3. QED BY <4>1, <4>2 DEF OnFile, FreeHandles, Closed
    <3>3. QED BY <2>6, <3>1, <3>2 DEF FilesInv, FilesTyped
  <2>11. Reached'
    <3>1. ASSUME NEW fd \in DOMAIN held
          PROVE  /\ alt_fd_list'[fd].fd_flags.mode = held'[fd].mode
                 /\ alt_fd_list'[fd].fd_flags.nonblock = held'[fd].nonblock
                 /\ IF alt_fd_list'[fd].dev = "host" THEN OnFile(fd)'
                    ELSE DeviceName[alt_fd_list'[fd].dev] = held'[fd].name
      BY <2>10 DEF FilesInv, Reached, OnFile
    <3>2. IF alt_fd_list'[o.fd].dev = "host" THEN OnFile(o.fd)'
          ELSE DeviceName[alt_fd_list'[o.fd].dev] = held'[o.fd].name
      <4>1. IF alt_fd_list'[o.fd].dev = "host" THEN IsPrefix(DeviceName.host, name)
            ELSE DeviceName[alt_fd_list'[o.fd].dev] = name
        BY <2>3, FoundNames
      <4>2. held'[o.fd].name = name /\ held'[o.fd].position = 0
        BY <2>5
      <4>3. ASSUME alt_fd_list'[o.fd].dev = "host"
            PROVE  /\ alt_fd_list'[o.fd].priv \in Handles
                   /\ file'[alt_fd_list'[o.fd].priv] = [name |-> name, position |-> 0]
        BY <2>6, <4>3 DEF FilesInv, FilesTyped, FreeHandles
      <4>4. QED BY <4>1, <4>2, <4>3 DEF OnFile
    <3>3. alt_fd_list'[o.fd].fd_flags.mode = held'[o.fd].mode
          /\ alt_fd_list'[o.fd].fd_flags.nonblock = held'[o.fd].nonblock
      BY <2>3, <2>5, <2>6
    <3>4. QED BY <2>5, <3>1, <3>2, <3>3 DEF Reached
  <2>12. HandlesApart'
    <3>1. ASSUME NEW fd \in DOMAIN held, alt_fd_list'[fd].dev = "host",
                 alt_fd_list'[o.fd].dev = "host"
          PROVE  alt_fd_list'[fd].priv # alt_fd_list'[o.fd].priv
      BY <2>6, <2>10, <3>1
    <3>2. ASSUME NEW fd \in DOMAIN held, NEW other \in DOMAIN held, fd # other,
                 alt_fd_list'[fd].dev = "host", alt_fd_list'[other].dev = "host"
          PROVE  alt_fd_list'[fd].priv # alt_fd_list'[other].priv
      BY <2>10, <3>2 DEF FilesInv, HandlesApart
    <3>3. QED BY <2>5, <3>1, <3>2 DEF HandlesApart
  <2>13. QED BY <2>8, <2>9, <2>11, <2>12 DEF FilesInv
<1>7. QED BY <1>3, <1>5, <1>6 DEF OpenShape

(* close gives the handle back, or the host keeps it: it is that of no      *)
(* other descriptor.                                                        *)
LEMMA CloseFiles == Inv /\ FilesInv /\ ALT_CLOSE => FilesInv'
<1> SUFFICES ASSUME Inv, FilesInv, ALT_CLOSE PROVE FilesInv'
  OBVIOUS
<1>1. PICK fd \in Usable :
        Close(fd) /\ held' = [other \in DOMAIN held \ {fd} |-> held[other]]
  BY DEF ALT_CLOSE
<1>2. fd \in Fd /\ alt_fd_list[fd].dev # "none" /\ alt_fd_list \in [Fd -> alt_fd]
  BY <1>1, UsableInUse DEF ALT_CLOSE, Inv, TableTyped
<1>3. /\ \A other \in Fd \ {fd} : alt_fd_list'[other] = alt_fd_list[other]
      /\ ~(fd > 2) => alt_fd_list' = alt_fd_list
      /\ fd > 2 => alt_fd_list'[fd].dev = "none"
  BY <1>1, <1>2, ReleaseTyped DEF Close
<1>4. StdioInv'
  BY <1>3, TableAssumption DEF FilesInv, StdioInv, Stdio, Fd
<1>5. \A other \in DOMAIN held' :
         /\ other \in DOMAIN held \ {fd} /\ held'[other] = held[other]
         /\ alt_fd_list'[other] = alt_fd_list[other]
  <2>1. DOMAIN held' = DOMAIN held \ {fd}
    BY <1>1
  <2>2. DOMAIN held \subseteq Fd
    BY HeldInUse
  <2>3. QED BY <1>1, <1>3, <2>1, <2>2
<1>6. /\ file' \in [Handles -> File]
      /\ \A other \in DOMAIN held' :
           alt_fd_list[other].dev = "host" =>
             file'[alt_fd_list[other].priv] = file[alt_fd_list[other].priv]
  <2>1. CASE file' = file
    BY <2>1 DEF FilesInv, FilesTyped
  <2>2. ASSUME NEW h \in Handles \intersect {alt_fd_list[fd].priv}, alt_fd_list[fd].dev = "host",
               file' = [file EXCEPT ![h] = Closed]
        PROVE  /\ file' \in [Handles -> File]
               /\ \A other \in DOMAIN held' :
                    alt_fd_list[other].dev = "host" =>
                      file'[alt_fd_list[other].priv] = file[alt_fd_list[other].priv]
    <3>1. fd \in DOMAIN held
      BY <1>2, <2>2 DEF FilesInv, StdioInv, Inv, DescriptorsAccounted
    <3>2. \A other \in DOMAIN held' :
             alt_fd_list[other].dev = "host" => alt_fd_list[other].priv # h
      BY <1>5, <2>2, <3>1 DEF FilesInv, HandlesApart
    <3>3. Closed \in File
      BY DEF Closed, File
    <3>4. \A other \in DOMAIN held' :
             alt_fd_list[other].dev = "host" => alt_fd_list[other].priv \in Handles
      BY <1>5 DEF FilesInv, Reached, OnFile
    <3>5. QED BY <2>2, <3>2, <3>3, <3>4 DEF FilesInv, FilesTyped
  <2>3. QED BY <1>1, <2>1, <2>2 DEF Close, OnHost, entry
<1>7. FilesTyped'
  BY <1>1, <1>5, <1>6 DEF FilesInv, FilesTyped
<1>8. Reached'
  BY <1>5, <1>6 DEF FilesInv, Reached, OnFile
<1>9. HandlesApart'
  BY <1>5 DEF FilesInv, HandlesApart
<1>10. QED BY <1>4, <1>7, <1>8, <1>9 DEF FilesInv

(* exit() closes standard output, and no file.                              *)
LEMMA ExitFiles == Inv /\ FilesInv /\ Exit => FilesInv'
<1> SUFFICES ASSUME Inv, FilesInv, Exit PROVE FilesInv'
  OBVIOUS
<1>1. alt_fd_list' = alt_fd_list /\ held' = held
  BY DEF Exit, Close, alt_release_fd
<1>2. file' = file
  BY DEF Exit, Close, OnHost, entry, FilesInv, StdioInv, Stdio
<1>3. StdioInv'
  BY <1>1 DEF FilesInv, StdioInv
<1>4. QED BY <1>1, <1>2, <1>3, SameFiles

(* The position of one file moves, and what the program knows of it; the    *)
(* files of the other descriptors are others.                               *)
LEMMA Moves ==
  ASSUME Inv, FilesInv, UNCHANGED alt_fd_list, NEW fd \in DOMAIN held,
         alt_fd_list[fd].dev = "host", NEW position \in Int,
         file' = [file EXCEPT ![alt_fd_list[fd].priv].position = position],
         held' = [held EXCEPT ![fd].position = position]
  PROVE  FilesInv'
<1> DEFINE h == alt_fd_list[fd].priv
<1>1. h \in Handles /\ file[h] \in File /\ held[fd] \in Held
  BY DEF FilesInv, FilesTyped, Reached, OnFile
<1>2. /\ DOMAIN held' = DOMAIN held
      /\ held' = [held EXCEPT ![fd] = [held[fd] EXCEPT !.position = position]]
      /\ file' = [file EXCEPT ![h] = [file[h] EXCEPT !.position = position]]
  BY <1>1 DEF FilesInv, FilesTyped
<1>3. /\ [held[fd] EXCEPT !.position = position] \in Held
      /\ [file[h] EXCEPT !.position = position] \in File
  BY <1>1 DEF Held, File
<1>4. FilesTyped'
  BY <1>1, <1>2, <1>3 DEF FilesInv, FilesTyped
<1>5. /\ held'[fd].name = held[fd].name /\ held'[fd].mode = held[fd].mode
      /\ held'[fd].nonblock = held[fd].nonblock /\ held'[fd].position = position
      /\ file'[h].name = file[h].name /\ file'[h].position = position
  BY <1>1, <1>2 DEF Held, File, FilesInv, FilesTyped
<1>6. ASSUME NEW other \in DOMAIN held, other # fd
      PROVE  /\ held'[other] = held[other]
             /\ alt_fd_list[other].dev = "host" =>
                  file'[alt_fd_list[other].priv] = file[alt_fd_list[other].priv]
  <2>1. held'[other] = held[other]
    BY <1>2, <1>6
  <2>2. ASSUME alt_fd_list[other].dev = "host"
        PROVE  alt_fd_list[other].priv \in Handles /\ alt_fd_list[other].priv # h
    BY <1>6, <2>2 DEF FilesInv, Reached, OnFile, HandlesApart
  <2>3. QED BY <1>2, <2>1, <2>2 DEF FilesInv, FilesTyped
<1>7. Reached'
  <2>1. OnFile(fd)'
    BY <1>1, <1>5 DEF FilesInv, Reached, OnFile
  <2>2. ASSUME NEW other \in DOMAIN held, other # fd, alt_fd_list[other].dev = "host"
        PROVE  OnFile(other)'
    <3>1. OnFile(other)
      BY <2>2 DEF FilesInv, Reached
    <3>2. QED BY <1>6, <2>2, <3>1 DEF OnFile
  <2>3. QED BY <1>2, <1>5, <1>6, <2>1, <2>2 DEF FilesInv, Reached
<1>8. StdioInv' /\ HandlesApart'
  BY <1>2 DEF FilesInv, StdioInv, HandlesApart
<1>9. QED BY <1>4, <1>7, <1>8 DEF FilesInv

(* A file is that of a descriptor the program has opened.                   *)
LEMMA HostHeld ==
  ASSUME Inv, FilesInv, pc = "main", NEW fd \in Usable, alt_fd_list[fd].dev = "host"
  PROVE  fd \in DOMAIN held
BY UsableInUse DEF FilesInv, StdioInv, Inv, DescriptorsAccounted

(* read and write: what the host has moved is what the program counts.      *)
LEMMA TransferFiles ==
  ASSUME Inv, FilesInv, NEW fd \in Usable, NEW function, NEW forbidden,
         Transfer(fd, function, forbidden)
  PROVE  FilesInv'
<1>1. pc = "main" /\ alt_fd_list' = alt_fd_list
  BY DEF Transfer, Call, table
<1>2. CASE UNCHANGED <<file, held>>
  <2>1. StdioInv'
    BY <1>1 DEF FilesInv, StdioInv
  <2>2. QED BY <1>1, <1>2, <2>1, SameFiles
<1>3. CASE OnHost(fd) /\ HostTransfer(fd)
  <2>1. alt_fd_list[fd].dev = "host" /\ fd \in DOMAIN held
    BY <1>1, <1>3, HostHeld DEF OnHost, entry
  <2> DEFINE h == alt_fd_list[fd].priv
  <2> DEFINE Moved(rc, error) ==
               /\ file' = IF error = 0 THEN [file EXCEPT ![h].position = @ + rc] ELSE file
               /\ MovedTo(fd, held[fd].position + IF HostResult(rc, error) < 0 THEN 0
                                                  ELSE HostResult(rc, error))
  <2>0. PICK size \in Sizes, error \in {0, 1} : \E rc \in 0 .. size : Moved(rc, error)
    BY <1>3 DEF HostTransfer, entry
  <2>2. PICK rc \in 0 .. size : Moved(rc, error)
    BY <2>0
  <2>3. rc \in Nat
    BY <2>0, <2>2, TableAssumption
  <2>4. /\ h \in Handles /\ file[h] \in File /\ held[fd] \in Held
        /\ file[h].position = held[fd].position
    BY <2>1 DEF FilesInv, FilesTyped, Reached, OnFile
  <2>5. held[fd].position \in Int
    BY <2>4 DEF Held
  <2>6. CASE error = 0
    <3>1. ~(HostResult(rc, error) < 0) /\ HostResult(rc, error) = rc
      BY <2>3, <2>6 DEF HostResult
    <3>2. MovedTo(fd, held[fd].position + rc)
      BY <2>2, <3>1
    <3>3. file' = [file EXCEPT ![h].position = held[fd].position + rc]
      BY <2>2, <2>4, <2>6
    <3>4. held[fd].position + rc \in Int
      BY <2>3, <2>5
    <3>5. QED BY <1>1, <2>1, <3>2, <3>3, <3>4, Moves DEF MovedTo
  <2>7. CASE error = 1
    <3>1. HostResult(rc, error) < 0
      BY <2>7 DEF HostResult
    <3>2. MovedTo(fd, held[fd].position)
      BY <2>2, <2>5, <3>1
    <3>3. file' = file
      BY <2>2, <2>7
    <3>4. held' = held
      <4>1. [held[fd] EXCEPT !.position = held[fd].position] = held[fd]
        BY <2>4 DEF Held
      <4>2. held' = [held EXCEPT ![fd] = held[fd]]
        BY <2>1, <3>2, <4>1 DEF MovedTo
      <4>3. QED BY <2>1, <4>2 DEF FilesInv, FilesTyped
    <3>5. QED BY <1>2, <3>3, <3>4
  <2>8. QED BY <2>0, <2>6, <2>7
<1>4. QED BY <1>2, <1>3 DEF Transfer

(* lseek: both go where the host says, or neither.                          *)
LEMMA LseekFiles == Inv /\ FilesInv /\ ALT_LSEEK => FilesInv'
<1> SUFFICES ASSUME Inv, FilesInv, ALT_LSEEK PROVE FilesInv'
  OBVIOUS
<1>1. PICK fd \in Usable, position \in 0 .. MaxPosition, error \in {0, 1} :
        /\ Call(fd)
        /\ IF "lseek" \in Provides[alt_fd_list[fd].dev]
           THEN /\ file' = IF error = 0
                           THEN [file EXCEPT ![alt_fd_list[fd].priv].position = position]
                           ELSE file
                /\ IF HostResult(position, error) < 0 THEN UNCHANGED held
                   ELSE MovedTo(fd, HostResult(position, error))
           ELSE UNCHANGED <<file, held>>
        /\ UNCHANGED table
  BY DEF ALT_LSEEK, entry
<1>2. pc = "main" /\ alt_fd_list' = alt_fd_list
  BY <1>1 DEF Call, table
<1>3. position \in Int /\ position >= 0
  BY <1>1
<1>4. CASE UNCHANGED <<file, held>>
  <2>1. StdioInv'
    BY <1>2 DEF FilesInv, StdioInv
  <2>2. QED BY <1>2, <1>4, <2>1, SameFiles
<1>5. CASE "lseek" \in Provides[alt_fd_list[fd].dev] /\ error = 0
  <2>1. alt_fd_list[fd].dev \in Device
    BY <1>2, UsableInUse DEF Inv, TableTyped, alt_fd
  <2>2. alt_fd_list[fd].dev = "host"
    BY <1>5, <2>1 DEF Device, Provides
  <2>3. fd \in DOMAIN held
    BY <1>2, <2>2, HostHeld
  <2>4. HostResult(position, error) = position /\ ~(HostResult(position, error) < 0)
    BY <1>3, <1>5 DEF HostResult
  <2>5. MovedTo(fd, position) /\ file' = [file EXCEPT ![alt_fd_list[fd].priv].position = position]
    BY <1>1, <1>5, <2>4
  <2>6. QED BY <1>2, <1>3, <2>2, <2>3, <2>5, Moves DEF MovedTo
<1>6. CASE "lseek" \in Provides[alt_fd_list[fd].dev] /\ error = 1
  <2>1. HostResult(position, error) < 0
    BY <1>6 DEF HostResult
  <2>2. QED BY <1>1, <1>4, <1>6, <2>1
<1>7. QED BY <1>1, <1>4, <1>5, <1>6

(* A lock and its release leave what the program has asked for.             *)
LEMMA IoctlFiles == Inv /\ FilesInv /\ ALT_IOCTL => FilesInv'
<1> SUFFICES ASSUME Inv, FilesInv, ALT_IOCTL PROVE FilesInv'
  OBVIOUS
<1>1. PICK fd \in Usable :
        /\ Call(fd) /\ alt_fd_list' \in {alt_fd_lock(fd), alt_fd_unlock(fd)}
        /\ UNCHANGED <<file, held>>
  BY DEF ALT_IOCTL
<1>2. fd \in Fd /\ alt_fd_list \in [Fd -> alt_fd]
  BY <1>1, UsableInUse DEF Call, Inv, TableTyped
<1>3. ASSUME NEW other \in Fd
      PROVE  /\ alt_fd_list'[other].dev = alt_fd_list[other].dev
             /\ alt_fd_list'[other].priv = alt_fd_list[other].priv
             /\ alt_fd_list'[other].fd_flags.mode = alt_fd_list[other].fd_flags.mode
             /\ alt_fd_list'[other].fd_flags.nonblock = alt_fd_list[other].fd_flags.nonblock
  <2>1. ASSUME NEW lock, alt_fd_list' = [alt_fd_list EXCEPT ![fd].fd_flags.excl = lock]
        PROVE  /\ alt_fd_list'[other].dev = alt_fd_list[other].dev
               /\ alt_fd_list'[other].priv = alt_fd_list[other].priv
               /\ alt_fd_list'[other].fd_flags.mode = alt_fd_list[other].fd_flags.mode
               /\ alt_fd_list'[other].fd_flags.nonblock = alt_fd_list[other].fd_flags.nonblock
    BY <1>2, <2>1 DEF alt_fd, Flags
  <2>2. QED BY <1>1, <2>1 DEF alt_fd_lock, alt_fd_unlock
<1>4. StdioInv'
  BY <1>3, TableAssumption DEF FilesInv, StdioInv, Stdio, Fd
<1>5. QED BY <1>1, <1>3, <1>4, HeldInUse, SameFiles

(* fcntl: the program knows that it has changed the flag of its descriptor; *)
(* the standard ones are not its own.                                       *)
LEMMA FcntlFiles == Inv /\ FilesInv /\ ALT_FCNTL => FilesInv'
<1> SUFFICES ASSUME Inv, FilesInv, ALT_FCNTL PROVE FilesInv'
  OBVIOUS
<1>1. PICK fd \in Usable, nonblock \in BOOLEAN :
        /\ Call(fd)
        /\ alt_fd_list' = [alt_fd_list EXCEPT ![fd].fd_flags =
                             SetFlags(alt_fd_list[fd].fd_flags, nonblock)]
        /\ held' = IF fd \in Stdio THEN held ELSE [held EXCEPT ![fd].nonblock = nonblock]
        /\ UNCHANGED file
  BY DEF ALT_FCNTL
<1>2. fd \in Fd /\ alt_fd_list \in [Fd -> alt_fd]
  BY <1>1, UsableInUse DEF Call, Inv, TableTyped
<1>3. /\ \A other \in Fd \ {fd} : alt_fd_list'[other] = alt_fd_list[other]
      /\ \A other \in Fd : /\ alt_fd_list'[other].dev = alt_fd_list[other].dev
                           /\ alt_fd_list'[other].priv = alt_fd_list[other].priv
                           /\ alt_fd_list'[other].fd_flags.mode = alt_fd_list[other].fd_flags.mode
      /\ alt_fd_list'[fd].fd_flags.nonblock = nonblock
  BY <1>1, <1>2 DEF alt_fd, Flags, SetFlags
<1>4. StdioInv'
  BY <1>3, TableAssumption DEF FilesInv, StdioInv, Stdio, Fd
<1>5. CASE fd \in Stdio
  <2>1. \A other \in DOMAIN held : alt_fd_list'[other] = alt_fd_list[other]
    BY <1>3, <1>5, HeldInUse
  <2>2. QED BY <1>1, <1>4, <1>5, <2>1, SameFiles
<1>6. CASE fd \notin Stdio
  <2>1. fd \in DOMAIN held
    BY <1>6, TableAssumption DEF Usable
  <2>2. held[fd] \in Held /\ held \in [DOMAIN held -> Held]
    BY <2>1 DEF FilesInv, FilesTyped
  <2>3. held' = [held EXCEPT ![fd] = [held[fd] EXCEPT !.nonblock = nonblock]]
        /\ DOMAIN held' = DOMAIN held
    BY <1>1, <1>6, <2>2
  <2>4. [held[fd] EXCEPT !.nonblock = nonblock] \in Held
    BY <1>1, <2>2 DEF Held
  <2>5. FilesTyped'
    BY <1>1, <2>2, <2>3, <2>4 DEF FilesInv, FilesTyped
  <2>6. \A other \in DOMAIN held : /\ held'[other].name = held[other].name
                                   /\ held'[other].mode = held[other].mode
                                   /\ held'[other].position = held[other].position
                                   /\ other # fd => held'[other] = held[other]
    BY <2>1, <2>2, <2>3 DEF Held
  <2>7. held'[fd].nonblock = nonblock
    BY <2>1, <2>2, <2>3 DEF Held
  <2>8. \A other \in DOMAIN held : other \in Fd
    BY HeldInUse
  <2>9. Reached'
    BY <1>1, <1>3, <2>3, <2>6, <2>7, <2>8 DEF FilesInv, Reached, OnFile
  <2>10. HandlesApart'
    BY <1>3, <2>3, <2>8 DEF FilesInv, HandlesApart
  <2>11. QED BY <1>4, <2>5, <2>9, <2>10 DEF FilesInv
<1>7. QED BY <1>5, <1>6

LEMMA NextFiles == Inv /\ FilesInv /\ [Next]_vars => FilesInv'
<1> SUFFICES ASSUME Inv, FilesInv, [Next]_vars PROVE FilesInv'
  OBVIOUS
<1>1. CASE UNCHANGED <<alt_fd_list, file, held>>
  <2>1. StdioInv'
    BY <1>1 DEF FilesInv, StdioInv
  <2>2. QED BY <1>1, <2>1, SameFiles
<1>2. CASE alt_sys_init
  BY <1>1, <1>2 DEF alt_sys_init, table
<1>3. CASE UNCHANGED vars
  BY <1>1, <1>3 DEF vars, table
<1>4. CASE alt_io_redirect
  <2>1. /\ 0 \in Stdio /\ 1 \in Stdio /\ 2 \in Stdio
        /\ "O_WRONLY" \in Mode /\ "O_RDONLY" \in Mode
    BY DEF Stdio, Mode
  <2>2. QED BY <1>4, <2>1, RedirectFiles DEF alt_io_redirect
<1>5. CASE ALT_READ
  BY <1>5, TransferFiles DEF ALT_READ
<1>6. CASE ALT_WRITE
  BY <1>6, TransferFiles DEF ALT_WRITE
<1>7. QED BY <1>2, <1>3, <1>4, <1>5, <1>6, OpenCall, CloseFiles, ExitFiles, LseekFiles,
             IoctlFiles, FcntlFiles DEF Next

LEMMA FilesAlways == Spec => [](Inv /\ FilesInv)
BY InitInv, NextInv, InitFiles, NextFiles, PTL DEF Spec

----------------------------------------------------------------------------
(* The theorems.                                                           *)

(* The table holds what it should, and alt_max_fd bounds what is in use.    *)
THEOREM TypeCorrect == Spec => []TypeOK
<1>1. Inv => TypeOK
  <2> SUFFICES ASSUME Inv PROVE TypeOK
    OBVIOUS
  <2>1. alt_dev_list \subseteq Device /\ alt_fs_list \subseteq Device
    BY DEF Inv, TableTyped, Device
  <2>2. \A fd \in DOMAIN held : fd <= alt_max_fd
    BY DEF Inv, BoundInv, DescriptorsAccounted
  <2>3. QED BY <2>1, <2>2 DEF Inv, TableTyped, TypeOK
<1>2. QED BY <1>1, InvAlways, PTL

(* No descriptor leaks and none is given out twice, whatever open, close    *)
(* and the host do.                                                         *)
THEOREM DescriptorsAccountedCorrect == Spec => []DescriptorsAccounted
<1>1. Inv => DescriptorsAccounted
  BY DEF Inv
<1>2. QED BY <1>1, InvAlways, PTL

(* Standard input, output and error stay on the JTAG UART.                  *)
THEOREM StdioKeptCorrect == Spec => []StdioKept
<1>1. Inv => StdioKept
  BY DEF Inv, BootInv, Std, StdioKept, Stdio, entry
<1>2. QED BY <1>1, InvAlways, PTL

(* One descriptor at a time has the lock of a device.                       *)
OneOwner == \A dev \in Device : \A fd, other \in Locked(dev) : fd = other

LEMMA OneLock == Inv => OneOwner
<1> SUFFICES ASSUME Inv, NEW dev \in Device, NEW fd \in Locked(dev), NEW other \in Locked(dev)
             PROVE  fd = other
  BY DEF OneOwner
<1>1. fd \in Fd /\ other \in Fd /\ alt_fd_list[fd].dev = alt_fd_list[other].dev
      /\ alt_fd_list[fd].dev # "none"
      /\ alt_fd_list[fd].fd_flags.excl /\ alt_fd_list[other].fd_flags.excl
  BY DEF Locked, InUse, Device
<1>2. fd # other => fd < other /\ other < fd
  BY <1>1 DEF Inv, LockInv
<1>3. QED BY <1>1, <1>2, TableAssumption DEF Fd

(* While a device is locked, no step gives it another descriptor.           *)
LEMMA LockKeeps ==
  ASSUME Inv, [Next]_vars, NEW dev \in Device, Locked(dev) # {}
  PROVE  InUse(dev)' \subseteq InUse(dev)
<1>1. PICK locked \in Fd : alt_fd_list[locked].dev = dev /\ alt_fd_list[locked].fd_flags.excl
  BY DEF Locked, InUse
<1>2. dev # "none"
  BY DEF Device
<1>3. pc \in {"main", "exit"} /\ ~alt_io_redirect
  BY <1>1 DEF Inv, BootInv, alt_io_redirect, Redirect
<1>4. CASE \A fd \in Fd : alt_fd_list'[fd].dev \in {alt_fd_list[fd].dev, "none"}
  BY <1>2, <1>4 DEF InUse
<1>5. CASE UNCHANGED alt_fd_list
  BY <1>5 DEF InUse
<1>6. ASSUME NEW fd \in Usable, pc = "main", Close(fd)
      PROVE  \A other \in Fd : alt_fd_list'[other].dev \in {alt_fd_list[other].dev, "none"}
  <2>1. fd \in Fd /\ alt_fd_list \in [Fd -> alt_fd] /\ alt_fd_list' = alt_release_fd(alt_fd_list, fd)
    BY <1>6, UsableInUse DEF Close, Inv, TableTyped
  <2>2. QED BY <2>1, ReleaseTyped, TableAssumption DEF Fd
<1>7. ASSUME NEW fd \in Usable, pc = "main", NEW flags,
             \/ alt_fd_list' = [alt_fd_list EXCEPT ![fd].fd_flags = flags]
             \/ alt_fd_list' = [alt_fd_list EXCEPT ![fd].fd_flags.excl = flags]
      PROVE  \A other \in Fd : alt_fd_list'[other].dev \in {alt_fd_list[other].dev, "none"}
  <2>1. fd \in Fd /\ alt_fd_list \in [Fd -> alt_fd]
    BY <1>7, UsableInUse DEF Inv, TableTyped
  <2>2. QED BY <1>7, <2>1 DEF alt_fd
<1>8. CASE ALT_OPEN
  <2>1. PICK name \in Names, mode \in Modes, nonblock \in BOOLEAN :
          \E o \in open(name, mode, nonblock) : alt_fd_list' = o.list /\ alt_max_fd' = o.max
    BY <1>8, Zenon DEF ALT_OPEN
  <2>2. PICK o \in open(name, mode, nonblock) : alt_fd_list' = o.list /\ alt_max_fd' = o.max
    BY <2>1
  <2>3. OpenShape(o, name, mode)
    BY <2>2, OpenOutcome, TableAssumption
  <2>4. CASE OpenFailed(o)
    BY <1>4, <2>2, <2>4 DEF OpenFailed
  <2>5. CASE OpenDone(o, name, mode)
    <3>1. pc = "main"
      BY <1>8 DEF ALT_OPEN
    <3>2. locked <= alt_max_fd'
      <4>1. CASE locked \in Stdio
        BY <1>1, <2>2, <2>3, <3>1, <4>1, TableAssumption
           DEF OpenShape, Inv, TableTyped, BootInv, Stdio
      <4>2. CASE locked \notin Stdio
        BY <1>1, <1>2, <2>2, <2>3, <4>2, TableAssumption
           DEF OpenShape, Inv, TableTyped, BoundInv, Fd
      <4>3. QED BY <4>1, <4>2
    <3>3. o.fd \in Fd /\ alt_fd_list[o.fd].dev = "none"
      BY <2>5, FreeAboveStdio DEF OpenDone
    <3>4. alt_fd_list'[o.fd].dev # dev
      BY <1>1, <1>2, <2>2, <2>5, <3>2, <3>3 DEF OpenDone
    <3>5. QED BY <2>2, <2>5, <3>3, <3>4 DEF OpenDone, InUse
  <2>6. QED BY <2>3, <2>4, <2>5 DEF OpenShape
<1>9. CASE ALT_CLOSE
  BY <1>4, <1>6, <1>9 DEF ALT_CLOSE
<1>10. CASE Exit
  BY <1>5, <1>10 DEF Exit, Close, alt_release_fd
<1>11. CASE ALT_IOCTL
  BY <1>4, <1>5, <1>7, <1>11 DEF ALT_IOCTL, Call, alt_fd_lock, alt_fd_unlock
<1>12. CASE ALT_FCNTL
  BY <1>4, <1>7, <1>12 DEF ALT_FCNTL, Call
<1>13. CASE alt_sys_init \/ ALT_READ \/ ALT_WRITE \/ ALT_LSEEK \/ UNCHANGED vars
  BY <1>5, <1>13 DEF alt_sys_init, ALT_READ, ALT_WRITE, Transfer, ALT_LSEEK, table, vars
<1>14. QED BY <1>3, <1>8, <1>9, <1>10, <1>11, <1>12, <1>13 DEF Next

(* One descriptor at a time has the lock of a device, and while it has it   *)
(* nobody else opens the device, however many descriptors there are.        *)
THEOREM LockExclusiveCorrect == Spec => LockExclusive
<1> DEFINE Keeps == \A dev \in Device :
             /\ Locked(dev) # {} => InUse(dev)' \subseteq InUse(dev)
             /\ \A fd, other \in Locked(dev)' : fd = other
<1>1. Inv' => OneOwner'
  BY OneLock, PTL
<1>2. Inv /\ Inv' /\ [Next]_vars => [Keeps]_vars
  <2> SUFFICES ASSUME Inv, Inv', [Next]_vars PROVE Keeps
    OBVIOUS
  <2>1. \A dev \in Device : Locked(dev) # {} => InUse(dev)' \subseteq InUse(dev)
    BY LockKeeps
  <2>2. QED BY <1>1, <2>1 DEF OneOwner
<1>3. QED BY <1>2, InvAlways, PTL DEF Spec, LockExclusive

(* Each descriptor of the program reaches what it was opened for, with the  *)
(* flags it was opened with, and no other descriptor has its handle.        *)
THEOREM DescriptorsTrueCorrect == Spec => []DescriptorsTrue
<1>1. Inv /\ FilesInv => DescriptorsTrue
  <2> SUFFICES ASSUME Inv, FilesInv, NEW fd \in DOMAIN held
               PROVE  /\ alt_fd_list[fd].fd_flags.mode = held[fd].mode
                      /\ alt_fd_list[fd].fd_flags.nonblock = held[fd].nonblock
                      /\ IF alt_fd_list[fd].dev = "host"
                         THEN /\ file[alt_fd_list[fd].priv].name = held[fd].name
                              /\ \A other \in InUse("host") \ {fd} :
                                   alt_fd_list[other].priv # alt_fd_list[fd].priv
                         ELSE DeviceName[alt_fd_list[fd].dev] = held[fd].name
    BY DEF DescriptorsTrue, OnHost, entry
  <2>1. InUse("host") \subseteq DOMAIN held
    BY DEF InUse, Inv, DescriptorsAccounted, FilesInv, StdioInv
  <2>2. ASSUME alt_fd_list[fd].dev = "host", NEW other \in InUse("host") \ {fd}
        PROVE  alt_fd_list[other].priv # alt_fd_list[fd].priv
    BY <2>1, <2>2 DEF FilesInv, HandlesApart, InUse
  <2>3. QED BY <2>2 DEF FilesInv, Reached, OnFile
<1>2. QED BY <1>1, FilesAlways, PTL

(* The program that adds up the results of its calls knows where it is in   *)
(* the file, whatever the host refuses or cuts short.                       *)
THEOREM PositionKnownCorrect == Spec => []PositionKnown
<1>1. FilesInv => PositionKnown
  BY DEF FilesInv, Reached, OnFile, PositionKnown, OnHost, entry
<1>2. QED BY <1>1, FilesAlways, PTL

LEMMA PlainFlags ==
  ASSUME NEW flags \in Flags
  PROVE  [flags EXCEPT !.dev = FALSE, !.excl = FALSE]
           = [NoFlags EXCEPT !.mode = flags.mode, !.nonblock = flags.nonblock]
<1> DEFINE plain == [flags EXCEPT !.dev = FALSE, !.excl = FALSE]
           set == [NoFlags EXCEPT !.mode = flags.mode, !.nonblock = flags.nonblock]
<1>1. /\ plain \in Flags /\ plain.mode = flags.mode /\ plain.nonblock = flags.nonblock
      /\ plain.dev = FALSE /\ plain.excl = FALSE
  BY DEF Flags
<1>2. NoFlags \in Flags
  BY DEF NoFlags, Flags, Mode
<1>3. /\ set \in Flags /\ set.mode = flags.mode /\ set.nonblock = flags.nonblock
      /\ set.dev = FALSE /\ set.excl = FALSE
  BY <1>2 DEF Flags, NoFlags
<1> HIDE DEF plain, set
<1>4. ASSUME NEW f \in Flags
      PROVE  f = [mode |-> f.mode, nonblock |-> f.nonblock, dev |-> f.dev, excl |-> f.excl]
  BY DEF Flags
<1>5. /\ plain = [mode |-> plain.mode, nonblock |-> plain.nonblock,
                  dev |-> plain.dev, excl |-> plain.excl]
      /\ set = [mode |-> set.mode, nonblock |-> set.nonblock, dev |-> set.dev, excl |-> set.excl]
  BY <1>1, <1>3, <1>4
<1>6. plain = set
  BY <1>1, <1>3, <1>5, Zenon
<1>7. QED BY <1>6 DEF plain, set

(* Whatever the host does, F_GETFL answers with the flags the program has   *)
(* set; isatty errs for a file alone, only to call it a terminal, and only  *)
(* after a refused fstat.                                                   *)
THEOREM AnswersUpToRefusalCorrect == Spec => []AnswersUpToRefusal
<1>1. Inv /\ FilesInv => AnswersUpToRefusal
  <2> SUFFICES ASSUME Inv, FilesInv, NEW fd \in DOMAIN held
               PROVE  /\ GetFlags(fd) = [NoFlags EXCEPT !.mode = held[fd].mode,
                                                        !.nonblock = held[fd].nonblock]
                      /\ \A stat \in ALT_FSTAT(fd) : \A tty \in ALT_ISATTY(fd, stat) :
                           \/ tty <=> Terminal(fd)
                           \/ tty /\ ~Terminal(fd) /\ stat = "error"
    BY DEF AnswersUpToRefusal
  <2>1. /\ alt_fd_list[fd] \in alt_fd
        /\ alt_fd_list[fd].dev \in Device /\ alt_fd_list[fd].dev # "none"
    BY HeldInUse
  <2>2. /\ alt_fd_list[fd].fd_flags.mode = held[fd].mode
        /\ alt_fd_list[fd].fd_flags.nonblock = held[fd].nonblock
        /\ IF alt_fd_list[fd].dev = "host" THEN OnFile(fd)
           ELSE DeviceName[alt_fd_list[fd].dev] = held[fd].name
    BY DEF FilesInv, Reached
  <2>3. GetFlags(fd) = [NoFlags EXCEPT !.mode = held[fd].mode, !.nonblock = held[fd].nonblock]
    <3>1. alt_fd_list[fd].fd_flags \in Flags
      BY <2>1 DEF alt_fd
    <3>2. QED BY <2>2, <3>1, PlainFlags DEF GetFlags, entry
  <2>4. CASE alt_fd_list[fd].dev = "host"
    <3>1. held[fd].name # DeviceName.null /\ held[fd].name # DeviceName.jtag
      BY <2>2, <2>4, HostNames DEF OnFile
    <3>2. ~Terminal(fd)
      BY <3>1 DEF Terminal, Device
    <3>3. ASSUME NEW stat \in ALT_FSTAT(fd), NEW tty \in ALT_ISATTY(fd, stat)
          PROVE  ~tty \/ (tty /\ stat = "error")
      <4>1. stat \in {"file", "error"}
        BY <2>4, <3>3 DEF ALT_FSTAT, entry, Provides
      <4>2. CASE stat = "error"
        <5>1. tty \in BOOLEAN
          BY <3>3, <4>2 DEF ALT_ISATTY
        <5>2. QED BY <4>2, <5>1, Zenon
      <4>3. CASE stat = "file"
        <5>1. tty \in {FALSE}
          BY <3>3, <4>3 DEF ALT_ISATTY
        <5>2. QED BY <5>1, Zenon
      <4>4. QED BY <4>1, <4>2, <4>3
    <3>4. QED BY <2>3, <3>2, <3>3, Zenon
  <2>5. CASE alt_fd_list[fd].dev # "host"
    <3>1. ALT_FSTAT(fd) = {"character"}
      BY <2>1, <2>5 DEF ALT_FSTAT, entry, Provides, Device
    <3>2. ALT_ISATTY(fd, "character") = {TRUE}
      BY DEF ALT_ISATTY
    <3>3. Terminal(fd)
      BY <2>1, <2>2, <2>5 DEF Terminal
    <3>4. ASSUME NEW stat \in ALT_FSTAT(fd), NEW tty \in ALT_ISATTY(fd, stat)
          PROVE  tty
      <4>1. tty \in {TRUE}
        BY <3>1, <3>2, <3>4
      <4>2. QED BY <4>1, Zenon
    <3>5. QED BY <2>3, <3>3, <3>4, Zenon
  <2>6. QED BY <2>4, <2>5
<1>2. QED BY <1>1, FilesAlways, PTL

=============================================================================
