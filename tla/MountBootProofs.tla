--------------------------- MODULE MountBootProofs ---------------------------
(***************************************************************************)
(* Proofs about MountBoot, for every set of machines and commands.         *)
(***************************************************************************)
EXTENDS MountBoot, FiniteSetTheorems, SequenceTheorems, TLAPS

-----------------------------------------------------------------------------
(* The inductive invariant.                                                *)

\* A command is under way and has not ended.
Running == pc \notin {"off", "done"}

\* The steps of a native update between its two calls of detect_and_mount_boot.
NativeUpdate == op = "update" /\ ~image

\* How many calls are under way, and what the first has to unmount.
Depth == Len(frames)
Outer == frames[1]

\* At most two calls are under way, and the second never mounts.
StackInv ==
    /\ frames \in Seq(Dirs \cup {"none"}) /\ Depth \in {0, 1, 2}
    /\ frames = <<>> <=> Depth = 0
    /\ Depth # 0 => Outer \in Dirs \cup {"none"}
    /\ Depth = 2 => frames[2] = "none"

\* The second is inside a native update: the steps of a command have the calls
\* under way that the code has.
FramesInv ==
    /\ StackInv
    /\ pc \in {"off", "done", "image", "detect", "reinit", "loader", "kernels", "setdef",
               "getdef", "remove", "gc", "umount"}
    /\ pc # "off" => op \in Ops
    /\ pc \in {"off", "done"} /\ op # "mount" => Depth = 0
    /\ pc \in {"image", "reinit"} => Depth = 0
    /\ pc = "image" => op = "update" /\ image
    /\ pc \in {"loader", "kernels"} => op = "update" /\ Depth = IF image THEN 0 ELSE 1
    /\ pc = "detect" => Depth = 0 \/ (NativeUpdate /\ Depth = 1)
    /\ pc = "setdef" => op \in {"update", "set"} /\ Depth = IF NativeUpdate THEN 2 ELSE 1
    /\ pc \in {"getdef", "remove"} => Depth = 1 /\ ~NativeUpdate /\ op # "mount"
    /\ pc = "gc" => Depth = 1 /\ NativeUpdate
    /\ pc = "umount" => Depth # 0 /\ op # "mount" /\ (Depth = 2 => NativeUpdate)

\* Nothing has failed while a command runs, and the loader's paths are those of
\* the boot directory.
LoaderInv ==
    Running =>
        /\ ~fault /\ ldr = "up" /\ base = BootDir /\ BootDir \in {"boot", "other"}
        /\ pc # "reinit" => probed = Place(base)

\* The mount table differs from the one found by what is left to unmount.
TableInv ==
    op # "mount" /\ ~fault =>
        /\ Depth = 0 /\ pc # "reinit" => at = at0
        /\ Depth # 0 /\ Outer = "none" => at = at0
        /\ Depth # 0 /\ Outer # "none" =>
              at0[Outer] = "none" /\ at = [at0 EXCEPT ![Outer] = BootDevice(image)]
        /\ pc = "reinit" =>
              at0[BootDir] = "none" /\ at = [at0 EXCEPT ![BootDir] = BootDevice(image)]

\* What the first call of detect_and_mount_boot found or did answers the second.
Found ==
    \/ NothingToMount
    \/ at[BootDir] # "none"
    \/ Partitionless
    \/ BootDir = "boot" /\ "prefix" \in Premounted

\* A native command writes to one place, the one behind its boot directory.
PlaceInv ==
    /\ Running /\ Depth # 0 => Found
    /\ Running /\ Depth = 0 => bdir \in {"none", "boot"} /\ (~image => hit = {})
    /\ pc = "reinit" => at[BootDir] = BootDevice(image) /\ at[BootDir] # "none"
    /\ Running /\ ~image => hit \subseteq {Place(BootDir)}
    /\ ~image => \E x \in Devices \cup {"foreign", "root"} : hit \subseteq {x}

\* The machine has a boot device and nothing else is in its place.
Clear ==
    /\ ~image /\ BootDevice(FALSE) # "none" /\ at0["boot"] \in {"none", BootDevice(FALSE)}
    /\ ~OwnPartition

\* That place is then the boot device; before the first call nothing was written
\* that could make the directory look like its own partition.
DeviceInv ==
    /\ Clear => hit \subseteq {BootDevice(FALSE)}
    /\ Clear /\ Running /\ Depth # 0 => Place(BootDir) = BootDevice(FALSE)
    /\ Running /\ ~image /\ Depth = 0 => full = full0

TableType == at0 \in [Dirs -> Devices \cup {"foreign", "none"}]

Inv ==
    /\ PlacesOK /\ FlagsOK /\ TableType
    /\ FramesInv /\ LoaderInv /\ TableInv /\ PlaceInv /\ DeviceInv

-----------------------------------------------------------------------------
(* Lemmas about the operators.                                             *)

\* Calls are stacked and unstacked.
LEMMA FirstOfSeq ==
    ASSUME NEW S, NEW s, s[1] \in S
    PROVE  SubSeq(s, 1, 1) \in Seq(S) /\ Len(SubSeq(s, 1, 1)) = 1 /\ SubSeq(s, 1, 1)[1] = s[1]
<1>1. PICK t : t = SubSeq(s, 1, 1)
  OBVIOUS
<1>2. \A i \in 1..1 : s[i] \in S
  OBVIOUS
<1>3. /\ t \in Seq(S)
      /\ Len(t) = IF 1 <= 1 THEN 1 - 1 + 1 ELSE 0
      /\ \A i \in 1..(1 - 1 + 1) : t[i] = s[1 + i - 1]
  BY <1>1, <1>2, SubSeqProperties
<1>4. Len(t) = 1 /\ t[1] = s[1]
  BY <1>3
<1> QED
  BY <1>1, <1>3, <1>4, Zenon

\* No call is under way.
LEMMA Empty == ASSUME frames' = <<>> PROVE StackInv' /\ Depth' = 0
BY DEF StackInv, Depth

\* A call of detect_and_mount_boot has returned, with d to unmount.
LEMMA Push ==
    ASSUME StackInv, Depth \in {0, 1}, NEW d \in Dirs \cup {"none"},
           frames' = Append(frames, d), Depth = 1 => d = "none"
    PROVE  StackInv' /\ Depth' = Depth + 1 /\ Outer' = IF Depth = 0 THEN d ELSE Outer
<1>1. /\ frames' \in Seq(Dirs \cup {"none"}) /\ Len(frames') = Len(frames) + 1
      /\ frames' # <<>>
      /\ frames'[Len(frames) + 1] = d
      /\ \A i \in 1..Len(frames) : frames'[i] = frames[i]
  BY AppendProperties DEF StackInv
<1>2. CASE Depth = 0
  BY <1>1, <1>2 DEF StackInv, Depth, Outer
<1>3. CASE Depth = 1
  BY <1>1, <1>3 DEF StackInv, Depth, Outer
<1> QED
  BY <1>2, <1>3

\* Its caller has unmounted.
LEMMA Pop ==
    ASSUME StackInv, Depth # 0, frames' = SubSeq(frames, 1, Len(frames) - 1)
    PROVE  StackInv' /\ Depth' = Depth - 1 /\ (Depth = 2 => Outer' = Outer)
<1>2. CASE Depth = 1
  <2>1. frames' = <<>>
    BY <1>2, SubSeqEmpty DEF Depth
  <2> QED
    BY <1>2, <2>1, Empty
<1>3. CASE Depth = 2
  <2>1. frames[1] \in Dirs \cup {"none"}
    BY <1>3 DEF StackInv, Outer
  <2>2. frames' = SubSeq(frames, 1, 1)
    BY <1>3 DEF Depth
  <2>3. /\ SubSeq(frames, 1, 1) \in Seq(Dirs \cup {"none"})
        /\ Len(SubSeq(frames, 1, 1)) = 1 /\ SubSeq(frames, 1, 1)[1] = frames[1]
    BY <2>1, FirstOfSeq
  <2>4. Len(frames') = 1 /\ frames'[1] = frames[1]
    BY <2>2, <2>3, Zenon
  <2>5. frames' \in Seq(Dirs \cup {"none"}) /\ Depth' = 1 /\ Outer' = Outer
    BY <2>2, <2>3, <2>4, Zenon DEF Depth, Outer
  <2>6. frames' # <<>>
    <3>1. Len(<<>>) = 0 /\ 1 # 0
      OBVIOUS
    <3> QED
      BY <2>4, <3>1, Zenon
  <2> QED
    BY <1>3, <2>1, <2>5, <2>6 DEF StackInv, Outer
<1> QED
  BY <1>2, <1>3 DEF StackInv

\* What was found out about the system stays while a command runs.
LEMMA SameCaps == ASSUME UNCHANGED <<sys, loader>> PROVE Caps(loader)' = Caps(loader)
BY Zenon DEF Caps

\* ... and so does what is asked of the loader, and the boot device.
LEMMA SameWanted ==
    ASSUME UNCHANGED <<sys, image>>
    PROVE  /\ Wanted(image)' = Wanted(image) /\ BootDevice(image)' = BootDevice(image)
           /\ BootDevice(FALSE)' = BootDevice(FALSE)
           /\ NothingToMount' = NothingToMount /\ NoPartition' = NoPartition
<1>1. Firmware(image)' = Firmware(image) /\ FsCap' = FsCap
  BY DEF Firmware, FsCap
<1>2. BootDevice(image)' = BootDevice(image) /\ BootDevice(FALSE)' = BootDevice(FALSE)
  BY DEF BootDevice
<1>3. Wanted(image)' = Wanted(image)
  BY <1>1, <1>2 DEF Wanted
<1>4. NoPartition' = NoPartition
  BY DEF NoPartition
<1> QED
  BY <1>2, <1>3, <1>4 DEF NothingToMount

\* The boot device is one of the two partitions, or there is none.
LEMMA BootDeviceType == ASSUME NEW im PROVE BootDevice(im) \in Devices \cup {"none"}
BY DEF BootDevice, Devices

\* A loader is selected from the known ones.
LEMMA SelectedType ==
    ASSUME NEW im PROVE Selected(im) \in {"none", "uefi", "grub2", "syslinux", "extlinux"}
<1> DEFINE fit == {i \in 1..4 : Wanted(im) \subseteq Caps(KnownLoaders[i])}
           m == CHOOSE i \in fit : \A j \in fit : i <= j
<1>1. CASE fit = {}
  BY <1>1 DEF Selected
<1>2. CASE fit # {}
  <2>1. \E i \in fit : \A j \in fit : i <= j
    <3> HIDE DEF fit
    <3>1. fit \subseteq 1..4
      BY DEF fit
    <3>2. \A j \in fit : j \in {1, 2, 3, 4}
      BY <3>1
    <3>3. CASE 1 \in fit
      BY <3>2, <3>3
    <3>4. CASE 1 \notin fit /\ 2 \in fit
      BY <3>2, <3>4
    <3>5. CASE 1 \notin fit /\ 2 \notin fit /\ 3 \in fit
      BY <3>2, <3>5
    <3>6. CASE 1 \notin fit /\ 2 \notin fit /\ 3 \notin fit
      <4>1. 4 \in fit /\ \A j \in fit : j = 4
        BY <1>2, <3>2, <3>6
      <4> QED
        BY <4>1
    <3> QED
      BY <3>3, <3>4, <3>5, <3>6
  <2>2. m \in 1..4
    BY <2>1
  <2>3. KnownLoaders[m] \in {"uefi", "grub2", "syslinux", "extlinux"}
    <3> HIDE DEF m
    <3> QED
      BY <2>2 DEF KnownLoaders
  <2> QED
    BY <1>2, <2>3 DEF Selected
<1> QED
  BY <1>1, <1>2

\* The file system behind a directory.
LEMMA PlaceType ==
    ASSUME PlacesOK, NEW d \in Dirs PROVE Place(d) \in Devices \cup {"foreign", "root"}
BY DEF PlacesOK, Place, Dirs

\* The boot directory is one of the directories.
LEMMA BootDirType == ASSUME PlacesOK PROVE BootDir \in Dirs
BY DEF PlacesOK, BootDir, Dirs
-----------------------------------------------------------------------------
(* Types.                                                                  *)

\* Every step keeps the types of the machine, the directories and the places.
LEMMA PlacesStep == ASSUME PlacesOK, LoaderInv, [Next]_vars PROVE PlacesOK'
<1> USE BootDirType DEF PlacesOK, Segfault, SetBootDir, SetBootDirFails, invocation
<1>1. ASSUME NEW o \in Ops, NEW im \in BOOLEAN, Begin(o, im) PROVE PlacesOK'
  <2>1. loader' \in {"none", "uefi", "grub2", "syslinux", "extlinux"} /\ op' = o
    BY <1>1, SelectedType DEF Begin
  <2>2. /\ bdir' = "none" /\ base' \in {"none", "boot"} /\ ldr' \in {"none", "up", "freed"}
        /\ UNCHANGED <<sys, at>> /\ hit' = {}
    BY <1>1 DEF Begin
  <2> QED
    BY <2>1, <2>2 DEF Dirs
<1>2. CASE Detect
  BY <1>2 DEF Detect, context, Premounted
<1>3. CASE Mount
  BY <1>3, BootDeviceType DEF Mount, context
<1>4. CASE Reinit
  BY <1>4 DEF Reinit
<1>5. CASE Umount
  BY <1>5 DEF Umount, context
<1>6. CASE ImagePrepare
  BY <1>6 DEF ImagePrepare, context
<1>7. CASE UpdateLoader
  BY <1>7, PlaceType DEF UpdateLoader, Write, context
<1>8. CASE InstallKernels
  BY <1>8, PlaceType DEF InstallKernels, Write, context
<1>9. CASE LoaderDefault
  BY <1>9, PlaceType DEF LoaderDefault, Write, context, LoaderInv, Running
<1>10. CASE RemoveKernels
  BY <1>10, PlaceType DEF RemoveKernels, Write, context
<1>11. CASE Exit
  BY <1>11 DEF Exit, context
<1>12. CASE UNCHANGED vars
  BY <1>12 DEF vars
<1> QED
  BY <1>1, <1>2, <1>3, <1>4, <1>5, <1>6, <1>7, <1>8, <1>9, <1>10, <1>11, <1>12,
       Zenon DEF Next, Mounting

\* The flags stay flags.
LEMMA FlagsStep == ASSUME FlagsOK, [Next]_vars PROVE FlagsOK'
<1> USE DEF FlagsOK, Segfault, SetBootDir, SetBootDirFails, invocation
<1>1. ASSUME NEW o \in Ops, NEW im \in BOOLEAN, Begin(o, im) PROVE FlagsOK'
  BY <1>1, Zenon DEF Begin
<1>2. CASE Detect
  BY <1>2, Zenon DEF Detect, Mounted, NotMounted
<1>3. CASE Mount
  BY <1>3, Zenon DEF Mount, Mounted, NotMounted
<1>4. CASE Reinit
  BY <1>4, Zenon DEF Reinit, Mounted
<1>5. CASE Umount
  BY <1>5, Zenon DEF Umount
<1>6. CASE ImagePrepare
  BY <1>6, Zenon DEF ImagePrepare
<1>7. CASE UpdateLoader
  BY <1>7 DEF UpdateLoader, Write
<1>8. CASE InstallKernels
  BY <1>8 DEF InstallKernels, Write
<1>9. CASE LoaderDefault
  BY <1>9 DEF LoaderDefault, Write
<1>10. CASE RemoveKernels
  BY <1>10 DEF RemoveKernels, Write
<1>11. CASE Exit
  BY <1>11, Zenon DEF Exit
<1>12. CASE UNCHANGED vars
  BY <1>12, Zenon DEF vars
<1> QED
  BY <1>1, <1>2, <1>3, <1>4, <1>5, <1>6, <1>7, <1>8, <1>9, <1>10, <1>11, <1>12,
       Zenon DEF Next, Mounting
-----------------------------------------------------------------------------
(* The calls of detect_and_mount_boot.                                     *)

\* Where a command goes on.
LEMMA ContinueCases ==
    ASSUME NEW d
    PROVE  /\ NativeUpdate /\ d = 1 => Continue(d) = "loader"
           /\ op \in {"update", "set"} /\ ~(NativeUpdate /\ d = 1) => Continue(d) = "setdef"
           /\ op = "remove" => Continue(d) = "remove"
           /\ op = "list" => Continue(d) = "getdef"
           /\ op = "mount" => Continue(d) = "done"
<1>1. CASE op = "update" /\ ~image /\ d = 1
  BY <1>1, Zenon DEF Continue, NativeUpdate
<1>2. CASE op \in {"update", "set"} /\ ~(op = "update" /\ ~image /\ d = 1)
  BY <1>2, Zenon DEF Continue, NativeUpdate
<1>3. CASE op = "remove"
  BY <1>3, Zenon DEF Continue, NativeUpdate
<1>4. CASE op = "list"
  BY <1>4, Zenon DEF Continue, NativeUpdate
<1>5. CASE op = "mount"
  BY <1>5, Zenon DEF Continue, NativeUpdate
<1> QED
  BY <1>1, <1>2, <1>3, <1>4, <1>5 DEF NativeUpdate

\* The second call never mounts: what the first found or did answers it.
LEMMA SecondNeverMounts ==
    ASSUME FramesInv, PlaceInv, Mount PROVE Depth = 0
BY DEF FramesInv, PlaceInv, Mount, Running, Found, AlreadyMounted

\* Steps between the calls.
LEMMA SameCalls ==
    ASSUME UNCHANGED frames PROVE Depth' = Depth /\ Outer' = Outer /\ StackInv' = StackInv
BY DEF Depth, Outer, StackInv

\* A call returns with directory d to unmount, or none.
LEMMA MountedCalls ==
    ASSUME FramesInv, pc \in {"detect", "reinit"}, NEW d \in Dirs \cup {"none"}, Mounted(d),
           Depth = 1 => d = "none", UNCHANGED <<op, image>>
    PROVE  /\ FramesInv' /\ Depth' = Depth + 1 /\ Outer' = IF Depth = 0 THEN d ELSE Outer
           /\ pc' \in {"done", "loader", "setdef", "getdef", "remove"}
           /\ pc' = "done" => op = "mount"
<1>1. StackInv /\ Depth \in {0, 1} /\ op \in Ops
  BY DEF FramesInv
<1>2. StackInv' /\ Depth' = Depth + 1 /\ Outer' = IF Depth = 0 THEN d ELSE Outer
  BY <1>1, Push DEF Mounted
<1>3. pc' = Continue(Depth + 1)
  BY DEF Mounted, Depth
<1>4. CASE Depth = 0
  <2>1. pc' = Continue(1) /\ Depth' = 1
    BY <1>2, <1>3, <1>4
  <2> QED
    BY <1>1, <1>2, <1>4, <2>1, ContinueCases, OpsAssumption DEF FramesInv, NativeUpdate
<1>5. CASE Depth = 1
  <2>1. pc' = Continue(2) /\ Depth' = 2 /\ NativeUpdate
    BY <1>2, <1>3, <1>5 DEF FramesInv
  <2> QED
    BY <1>1, <1>2, <1>5, <2>1, ContinueCases, OpsAssumption DEF FramesInv, NativeUpdate
<1> QED
  BY <1>1, <1>4, <1>5

\* Every step keeps the calls where the code has them.
LEMMA FramesStep == ASSUME FramesInv, PlaceInv, PlacesOK, [Next]_vars PROVE FramesInv'
<1>1. ASSUME NEW o \in Ops, NEW im \in BOOLEAN, Begin(o, im) PROVE FramesInv'
  BY <1>1, Empty DEF Begin, FramesInv, NativeUpdate, Segfault
<1>2. CASE Detect
  <2>1. CASE Mounted("none")
    BY <1>2, <2>1, MountedCalls DEF Detect, invocation
  <2>2. CASE NotMounted
    BY <1>2, <2>2, SameCalls DEF Detect, NotMounted, FramesInv, StackInv, NativeUpdate,
         invocation
  <2>3. CASE Segfault
    BY <1>2, <2>3, Empty DEF Detect, Segfault, FramesInv, invocation
  <2> QED
    BY <1>2, <2>1, <2>2, <2>3 DEF Detect, SetBootDirFails
<1>3. CASE Mount
  <2>1. Depth = 0
    BY <1>3, SecondNeverMounts
  <2>2. UNCHANGED <<frames, op, image>> /\ pc' \in {"reinit", "done"}
    BY <1>3, <2>1 DEF Mount, NotMounted, FramesInv, StackInv, invocation
  <2> QED
    BY <1>3, <2>1, <2>2, SameCalls DEF Mount, FramesInv, NativeUpdate
<1>4. CASE Reinit
  <2>1. CASE Mounted(BootDir)
    BY <1>4, <2>1, MountedCalls, BootDirType DEF Reinit, FramesInv, invocation
  <2>2. CASE Segfault
    BY <1>4, <2>2, Empty DEF Reinit, Segfault, FramesInv, invocation
  <2> QED
    BY <1>4, <2>1, <2>2 DEF Reinit, SetBootDirFails
<1>5. CASE Umount
  <2>1. Depth # 0 /\ StackInv
    BY <1>5 DEF Umount, FramesInv
  <2>2. StackInv' /\ Depth' = Depth - 1
    BY <1>5, <2>1, Pop DEF Umount
  <2>3. IF Depth = 1 THEN pc' = "done" ELSE pc' \in {"gc", "umount"}
    BY <1>5 DEF Umount, Depth
  <2>4. CASE Depth = 1
    BY <1>5, <2>2, <2>3, <2>4 DEF FramesInv, Umount, invocation
  <2>5. CASE Depth = 2
    BY <1>5, <2>2, <2>3, <2>5 DEF FramesInv, Umount, invocation, NativeUpdate
  <2> QED
    BY <2>1, <2>4, <2>5 DEF StackInv
<1>6. CASE ImagePrepare
  <2>1. CASE Segfault
    BY <1>6, <2>1, Empty DEF ImagePrepare, Segfault, FramesInv, invocation
  <2>2. CASE UNCHANGED frames
    BY <1>6, <2>2, SameCalls DEF ImagePrepare, Segfault, SetBootDirFails, FramesInv,
         NativeUpdate, invocation
  <2> QED
    BY <1>6, <2>1, <2>2 DEF ImagePrepare, SetBootDirFails
<1>7. CASE UpdateLoader
  <2>1. CASE Segfault
    BY <1>7, <2>1, Empty DEF UpdateLoader, Segfault, FramesInv, invocation
  <2>2. CASE pc' = "kernels" /\ UNCHANGED frames
    BY <1>7, <2>2, SameCalls DEF UpdateLoader, FramesInv, NativeUpdate, invocation
  <2> QED
    BY <1>7, <2>1, <2>2, Zenon DEF UpdateLoader, SetBootDirFails
<1>8. CASE InstallKernels
  BY <1>8, SameCalls DEF InstallKernels, FramesInv, NativeUpdate, invocation
<1>9. CASE LoaderDefault
  BY <1>9, SameCalls DEF LoaderDefault, FramesInv, NativeUpdate, invocation
<1>10. CASE RemoveKernels
  BY <1>10, SameCalls DEF RemoveKernels, FramesInv, NativeUpdate, invocation
<1>11. CASE Exit
  BY <1>11, SameCalls DEF Exit, FramesInv, NativeUpdate, invocation
<1>12. CASE UNCHANGED vars
  BY <1>12, SameCalls DEF vars, FramesInv, NativeUpdate
<1> QED
  BY <1>1, <1>2, <1>3, <1>4, <1>5, <1>6, <1>7, <1>8, <1>9, <1>10, <1>11, <1>12,
       Zenon DEF Next, Mounting
\* The second call unmounts nothing, the first what it mounted, if it can.
LEMMA UmountCases ==
    ASSUME FramesInv, Umount
    PROVE  /\ Depth \in {1, 2} /\ Depth' = Depth - 1
           /\ Depth = 2 => UNCHANGED <<at, fault>> /\ Outer' = Outer /\ pc' \in {"gc", "umount"}
           /\ Depth = 1 => /\ pc' = "done"
                           /\ \/ Outer = "none" /\ UNCHANGED <<at, fault>>
                              \/ Outer # "none" /\ at' = [at EXCEPT ![Outer] = "none"]
                              \/ fault'
<1>1. Depth # 0 /\ StackInv /\ Depth \in {1, 2}
  BY DEF Umount, FramesInv, StackInv
<1>2. Depth' = Depth - 1 /\ (Depth = 2 => Outer' = Outer)
  BY <1>1, Pop DEF Umount
<1>3. CASE Depth = 1
  <2>1. frames[Len(frames)] = Outer
    BY <1>3 DEF Depth, Outer
  <2>2. pc' = "done"
    BY <1>3 DEF Umount, Depth
  <2> QED
    BY <1>1, <1>2, <1>3, <2>1, <2>2 DEF Umount
<1>4. CASE Depth = 2
  <2>1. frames[Len(frames)] = "none"
    BY <1>1, <1>4 DEF Depth, StackInv
  <2>2. pc' \in {"gc", "umount"}
    BY <1>4 DEF Umount, Depth
  <2> QED
    BY <1>1, <1>2, <1>4, <2>1, <2>2 DEF Umount
<1> QED
  BY <1>1, <1>3, <1>4

-----------------------------------------------------------------------------
(* The loader's paths and the mount table.                                 *)

\* Every step that changes what is behind the boot directory initialises the
\* loader before it is used.
LEMMA LoaderStep ==
    ASSUME PlacesOK, FramesInv, LoaderInv, [Next]_vars PROVE LoaderInv'
<1> USE DEF PlacesOK, LoaderInv, Running, BootDir, Place, Dirs
<1>1. ASSUME NEW o \in Ops, NEW im \in BOOLEAN, Begin(o, im) PROVE LoaderInv'
  BY <1>1 DEF Begin, Segfault
<1>2. CASE Detect
  BY <1>2 DEF Detect, SetBootDir, SetBootDirFails, Segfault, Mounted, NotMounted,
       Premounted, context
<1>3. CASE Mount
  BY <1>3 DEF Mount, NotMounted, context
<1>4. CASE Reinit
  BY <1>4 DEF Reinit, Mounted, SetBootDir, SetBootDirFails, Segfault
<1>5. CASE Umount
  BY <1>5, UmountCases DEF Umount, context
<1>6. CASE ImagePrepare
  BY <1>6 DEF ImagePrepare, SetBootDir, SetBootDirFails, Segfault, context
<1>7. CASE UpdateLoader
  BY <1>7 DEF UpdateLoader, SetBootDir, SetBootDirFails, Segfault, context
<1>8. CASE InstallKernels
  BY <1>8 DEF InstallKernels, context
<1>9. CASE LoaderDefault
  BY <1>9 DEF LoaderDefault, context
<1>10. CASE RemoveKernels
  BY <1>10 DEF RemoveKernels, context
<1>11. CASE Exit
  BY <1>11 DEF Exit, context
<1>12. CASE UNCHANGED vars
  BY <1>12 DEF vars
<1> QED
  BY <1>1, <1>2, <1>3, <1>4, <1>5, <1>6, <1>7, <1>8, <1>9, <1>10, <1>11, <1>12,
       Zenon DEF Next, Mounting

\* The table is what it was, but for what is left to unmount.
LEMMA TableStep ==
    ASSUME PlacesOK, TableType, FramesInv, LoaderInv, TableInv, PlaceInv, [Next]_vars
    PROVE  TableInv'
<1> USE SameWanted DEF PlacesOK, TableType, TableInv, invocation, BootDir
<1>1. ASSUME NEW o \in Ops, NEW im \in BOOLEAN, Begin(o, im) PROVE TableInv'
  BY <1>1, Empty DEF Begin, Segfault
<1>2. CASE Detect
  <2>1. CASE Mounted("none")
    BY <1>2, <2>1, MountedCalls DEF Detect, invocation, Mounted, FramesInv
  <2>2. CASE NotMounted
    BY <1>2, <2>2, SameCalls DEF Detect, NotMounted, invocation, context
  <2>3. CASE Segfault
    BY <1>2, <2>3 DEF Segfault
  <2> QED
    BY <1>2, <2>1, <2>2, <2>3 DEF Detect, SetBootDirFails
<1>3. CASE Mount
  <2>1. Depth = 0 /\ UNCHANGED <<op, image, sys, at0, bdir, fault, frames>>
    BY <1>3, SecondNeverMounts DEF Mount, NotMounted, invocation, context
  <2>2. Depth' = 0 /\ BootDir' = BootDir
    BY <2>1, SameCalls DEF BootDir
  <2>3. CASE NotMounted /\ UNCHANGED at
    BY <1>3, <2>1, <2>2, <2>3 DEF NotMounted, Mount, FramesInv, StackInv
  <2>4. CASE at' = [at EXCEPT ![BootDir] = BootDevice(image)] /\ pc' = "reinit"
    BY <1>3, <2>1, <2>2, <2>4 DEF Mount, AlreadyMounted
  <2> QED
    BY <1>3, <2>3, <2>4 DEF Mount
<1>4. CASE Reinit
  <2>1. CASE Mounted(BootDir)
    <3>1. Depth = 0 /\ Depth' = 1 /\ Outer' = BootDir /\ BootDir # "none"
      BY <1>4, <2>1, MountedCalls, BootDirType DEF Reinit, invocation, FramesInv, Dirs
    <3>2. pc' # "reinit" /\ UNCHANGED <<at, at0, op, image, sys, fault>>
      BY <1>4, <2>1, MountedCalls, BootDirType DEF Reinit, invocation, Mounted, FramesInv
    <3> QED
      BY <1>4, <3>1, <3>2 DEF Reinit
  <2>3. CASE Segfault
    BY <1>4, <2>3 DEF Segfault
  <2> QED
    BY <1>4, <2>1, <2>3 DEF Reinit, SetBootDirFails
<1>5. CASE Umount
  <2>1. pc = "umount" /\ UNCHANGED <<op, image, sys, at0, bdir>>
    BY <1>5 DEF Umount, context
  <2>2. Depth \in {1, 2} /\ Depth' = Depth - 1 /\ ~fault
    BY <1>5, <2>1, UmountCases DEF LoaderInv, Running
  <2>3. CASE Depth = 2
    <3>1. UNCHANGED <<at, fault>> /\ Outer' = Outer /\ pc' # "reinit" /\ Depth' = 1
      BY <1>5, <2>2, <2>3, UmountCases
    <3> QED
      BY <2>1, <2>2, <2>3, <3>1
  <2>4. CASE Depth = 1
    <3>1. Depth' = 0 /\ pc' = "done"
      BY <1>5, <2>4, UmountCases
    <3>2. CASE op = "mount" \/ fault'
      BY <2>1, <3>2
    <3>3. CASE Outer = "none" /\ UNCHANGED at
      BY <2>1, <2>2, <2>4, <3>1, <3>3
    <3>4. CASE op # "mount" /\ Outer # "none" /\ at' = [at EXCEPT ![Outer] = "none"]
      <4>1. Outer \in Dirs
        BY <2>4, <3>4 DEF FramesInv, StackInv
      <4>2. at0[Outer] = "none" /\ at = [at0 EXCEPT ![Outer] = BootDevice(image)]
        BY <2>2, <2>4, <3>4
      <4>3. at' = at0
        BY <3>4, <4>1, <4>2
      <4> QED
        BY <2>1, <3>1, <4>3
    <3> QED
      BY <1>5, <2>4, <3>2, <3>3, <3>4, UmountCases
  <2> QED
    BY <2>2, <2>3, <2>4
<1>6. CASE ImagePrepare
  <2>1. CASE Segfault
    BY <1>6, <2>1 DEF Segfault
  <2>2. CASE UNCHANGED <<frames, fault>> /\ pc' # "reinit"
    BY <1>6, <2>2, SameCalls DEF ImagePrepare
  <2> QED
    BY <1>6, <2>1, <2>2 DEF ImagePrepare, SetBootDirFails
<1>7. CASE UpdateLoader
  <2>1. CASE Segfault
    BY <1>7, <2>1 DEF Segfault
  <2>2. CASE UNCHANGED <<frames, fault>> /\ pc' # "reinit"
    BY <1>7, <2>2, SameCalls DEF UpdateLoader
  <2> QED
    BY <1>7, <2>1, <2>2 DEF UpdateLoader, SetBootDirFails
<1>8. CASE InstallKernels
  BY <1>8, SameCalls DEF InstallKernels, context, FramesInv
<1>9. CASE LoaderDefault
  BY <1>9, SameCalls DEF LoaderDefault, context, FramesInv
<1>10. CASE RemoveKernels
  BY <1>10, SameCalls DEF RemoveKernels, context, FramesInv
<1>11. CASE Exit
  BY <1>11, SameCalls DEF Exit, context, FramesInv
<1>12. CASE UNCHANGED vars
  BY <1>12, SameCalls DEF vars, BootDir
<1> HIDE DEF TableInv
<1> QED
  BY <1>1, <1>2, <1>3, <1>4, <1>5, <1>6, <1>7, <1>8, <1>9, <1>10, <1>11, <1>12,
       Zenon DEF Next, Mounting
-----------------------------------------------------------------------------
(* Where is written.                                                       *)

\* Steps that mount nothing and stay with the boot directory leave everything
\* that was found out about it.
LEMMA SameGround ==
    ASSUME UNCHANGED <<invocation, at>>, full => full', BootDir' = BootDir
    PROVE  /\ Place(BootDir)' = Place(BootDir) /\ Clear' = Clear
           /\ (Found => Found') /\ (Partitionless => Partitionless')
           /\ BootDevice(image)' = BootDevice(image) /\ BootDevice(FALSE)' = BootDevice(FALSE)
<1>1. UNCHANGED <<sys, image, loader, at0, full0, at>>
  BY DEF invocation
<1>2. Place(BootDir)' = Place(BootDir)
  BY <1>1 DEF Place
<1>3. Partitionless => Partitionless'
  BY <1>1, SameCaps, SameWanted DEF Partitionless
<1>4. Clear' = Clear
  BY <1>1, SameCaps, SameWanted DEF Clear, OwnPartition
<1>5. Premounted' = Premounted
  BY <1>1, SameWanted DEF Premounted
<1>6. Found => Found'
  BY <1>1, <1>3, <1>5, SameWanted DEF Found
<1> QED
  BY <1>1, <1>2, <1>3, <1>4, <1>6, SameWanted

\* What detect_and_mount_boot finds when the boot device is mounted elsewhere.
LEMMA PremountedCase ==
    ASSUME PlaceInv, pc = "detect", ~NothingToMount, ~AlreadyMounted
    PROVE  /\ ~Partitionless /\ at[BootDir] = "none" /\ BootDir = "boot"
           /\ Depth # 0 => "prefix" \in Premounted
           /\ "prefix" \in Premounted => Place(BootDir) = BootDevice(image)
BY DEF PlaceInv, AlreadyMounted, Found, Running, BootDir, Place, Premounted

\* The five ways detect_and_mount_boot takes without mounting.
LEMMA DetectCases ==
    ASSUME Detect
    PROVE  \/ NothingToMount /\ Mounted("none") /\ UNCHANGED context
           \/ ~NothingToMount /\ AlreadyMounted /\ Mounted("none") /\ UNCHANGED context
           \/ /\ ~NothingToMount /\ ~AlreadyMounted
              /\ \/ BootDevice(image) = "none" /\ NotMounted /\ UNCHANGED context
                 \/ "prefix" \in Premounted /\ Mounted("none") /\ UNCHANGED context
                 \/ \E d \in Premounted \ {"prefix"} :
                       (Mounted("none") /\ SetBootDir(d)) \/ Segfault
BY DEF Detect, SetBootDirFails
\* A step that mounts nothing, stays with the boot directory and writes, if it
\* writes, there and inside a call or in an image.
GroundStep ==
    /\ UNCHANGED <<invocation, at>> /\ (full => full') /\ bdir' \in {bdir, BootDir}
    /\ (pc' = "reinit" => pc = "reinit") /\ (Running' => Running)
    /\ Running' => (Depth' = 0 <=> Depth = 0)
    /\ \/ UNCHANGED hit
       \/ Running /\ (Depth # 0 \/ image) /\ hit' = hit \cup {Place(BootDir)}
    /\ Depth # 0 \/ image \/ ~Running' \/ UNCHANGED full

\* Such a step keeps both invariants.
LEMMA GroundKeeps ==
    ASSUME PlacesOK, PlaceInv, DeviceInv, GroundStep PROVE PlaceInv' /\ DeviceInv'
<1>1. BootDir' = BootDir /\ UNCHANGED <<invocation, at>> /\ (full => full')
  BY DEF GroundStep, BootDir
<1>2. /\ Place(BootDir)' = Place(BootDir) /\ Clear' = Clear /\ (Clear => ~image)
      /\ (Found => Found') /\ (Partitionless => Partitionless')
      /\ BootDevice(FALSE)' = BootDevice(FALSE) /\ BootDevice(image)' = BootDevice(image)
      /\ UNCHANGED image
  BY <1>1, SameGround DEF invocation, Clear
<1>3. Place(BootDir) \in Devices \cup {"foreign", "root"}
  BY PlaceType, BootDirType
<1>4. PlaceInv'
  <2>1. Running' /\ Depth' # 0 => Found'
    BY <1>2 DEF GroundStep, PlaceInv
  <2>2. Running' /\ Depth' = 0 => bdir' \in {"none", "boot"} /\ (~image' => hit' = {})
    BY <1>2 DEF GroundStep, PlaceInv, BootDir
  <2>3. pc' = "reinit" => at'[BootDir'] = BootDevice(image)' /\ at'[BootDir'] # "none"
    BY <1>1, <1>2 DEF GroundStep, PlaceInv
  <2>4. Running' /\ ~image' => hit' \subseteq {Place(BootDir)'}
    BY <1>2 DEF GroundStep, PlaceInv
  <2>5. ~image' => \E x \in Devices \cup {"foreign", "root"} : hit' \subseteq {x}
    BY <1>2, <1>3 DEF GroundStep, PlaceInv
  <2> QED
    BY <2>1, <2>2, <2>3, <2>4, <2>5, Zenon DEF PlaceInv
<1>5. DeviceInv'
  <2>1. Clear' => hit' \subseteq {BootDevice(FALSE)'}
    BY <1>2 DEF GroundStep, DeviceInv
  <2>2. Clear' /\ Running' /\ Depth' # 0 => Place(BootDir)' = BootDevice(FALSE)'
    BY <1>2 DEF GroundStep, DeviceInv
  <2>3. Running' /\ ~image' /\ Depth' = 0 => full' = full0'
    BY <1>1, <1>2 DEF GroundStep, DeviceInv, invocation
  <2> QED
    BY <2>1, <2>2, <2>3, Zenon DEF DeviceInv
<1> QED
  BY <1>4, <1>5

\* The end of a command, whatever happens to the mount table.
LEMMA EndKeeps ==
    ASSUME PlaceInv, DeviceInv, UNCHANGED <<invocation, full, hit>>, pc' = "done"
    PROVE  PlaceInv' /\ DeviceInv'
<1>1. UNCHANGED <<sys, image, loader, at0, full0, full, hit>>
  BY DEF invocation
<1>2. Clear' = Clear /\ BootDevice(FALSE)' = BootDevice(FALSE)
  BY <1>1, SameCaps, SameWanted DEF Clear, OwnPartition
<1>4. ~Running' /\ pc' # "reinit"
  BY DEF Running
<1>5. PlaceInv'
  BY <1>1, <1>4 DEF PlaceInv
<1>6. DeviceInv'
  <2>1. Clear' => hit' \subseteq {BootDevice(FALSE)'}
    BY <1>1, <1>2 DEF DeviceInv
  <2> QED
    BY <1>4, <2>1, Zenon DEF DeviceInv
<1> QED
  BY <1>5, <1>6
\* detect_and_mount_boot returns where the boot directory is settled: what it
\* found holds for the next call, and its place is the boot device.
LEMMA ReturnKeeps ==
    ASSUME PlacesOK, PlaceInv, DeviceInv, UNCHANGED <<invocation, at, full, hit>>,
           pc' # "reinit", Depth' # 0, Running,
           Running' => Found',
           ~image => hit \subseteq {Place(BootDir)'},
           Clear /\ Running' => Place(BootDir)' = BootDevice(FALSE)
    PROVE  PlaceInv' /\ DeviceInv'
<1>1. UNCHANGED <<sys, image, loader, at0, full0, full, hit>>
  BY DEF invocation
<1>2. Clear' = Clear /\ BootDevice(FALSE)' = BootDevice(FALSE)
  BY <1>1, SameCaps, SameWanted DEF Clear, OwnPartition
<1>4. PlaceInv'
  BY <1>1 DEF PlaceInv
<1>5. DeviceInv'
  <2>1. Clear' => hit' \subseteq {BootDevice(FALSE)'}
    BY <1>1, <1>2 DEF DeviceInv
  <2>2. Clear' /\ Running' /\ Depth' # 0 => Place(BootDir)' = BootDevice(FALSE)'
    BY <1>2
  <2> QED
    BY <2>1, <2>2, Zenon DEF DeviceInv
<1> QED
  BY <1>4, <1>5

\* A native command looks for the boot device of the installed system.
LEMMA SameFirmware == ASSUME FlagsOK, ~image PROVE BootDevice(image) = BootDevice(FALSE)
BY Zenon DEF FlagsOK

\* Where nothing is to be mounted there is no boot device.
LEMMA NoDevice == ASSUME NothingToMount PROVE BootDevice(FALSE) = "none"
BY DEF NothingToMount, NoPartition, BootDevice

\* Every step keeps a command's writes in one place, the boot device if it is clear.
LEMMA PlaceStep ==
    ASSUME PlacesOK, FramesInv, LoaderInv, TableInv, PlaceInv, DeviceInv, FlagsOK,
           [Next]_vars
    PROVE  PlaceInv' /\ DeviceInv'
<1>1. ASSUME NEW o \in Ops, NEW im \in BOOLEAN, Begin(o, im) PROVE PlaceInv' /\ DeviceInv'
  <2>1. pc' # "reinit" /\ bdir' = "none" /\ frames' = <<>> /\ hit' = {}
    BY <1>1 DEF Begin, Segfault
  <2>2. Depth' = 0
    BY <2>1, Empty
  <2>3. PlaceInv'
    BY <2>1, <2>2 DEF PlaceInv
  <2>4. DeviceInv'
    BY <1>1, <2>1, <2>2 DEF Begin, DeviceInv
  <2> QED
    BY <2>3, <2>4
<1>2. CASE Detect
  <2>1. pc = "detect" /\ Running /\ UNCHANGED <<invocation, at, full, hit>>
    BY <1>2 DEF Detect, Running
  <2>2. ASSUME UNCHANGED context
        PROVE  BootDir' = BootDir /\ Place(BootDir)' = Place(BootDir) /\ (Found => Found')
    <3>1. BootDir' = BootDir
      BY <2>2 DEF context, BootDir
    <3> QED
      BY <2>1, <3>1, SameGround
  <2>3. ~image => hit \subseteq {Place(BootDir)}
    BY <2>1 DEF PlaceInv
  <2>4. ASSUME Mounted("none")
        PROVE  Depth' # 0 /\ pc' # "reinit" /\ (op = "mount" => ~Running')
    <3>1. Depth' = Depth + 1 /\ Depth \in {0, 1} /\ pc' # "reinit"
      BY <2>1, <2>4, MountedCalls DEF FramesInv, StackInv, invocation
    <3>2. op = "mount" => pc' = "done"
      BY <2>1, <2>4, ContinueCases DEF Mounted
    <3> QED
      BY <3>1, <3>2 DEF Running
  <2>5. CASE NothingToMount /\ Mounted("none") /\ UNCHANGED context
    <3>1. Found
      BY <2>5 DEF Found
    <3>2. ~Clear
      BY <2>5, NoDevice DEF Clear
    <3> QED
      BY <2>1, <2>2, <2>3, <2>4, <2>5, <3>1, <3>2, ReturnKeeps
  <2>6. CASE AlreadyMounted /\ Mounted("none") /\ UNCHANGED context
    <3>1. Found
      BY <2>6 DEF Found, AlreadyMounted
    <3>2. ASSUME Clear, op # "mount" PROVE Place(BootDir) = BootDevice(FALSE)
      <4>1. CASE Depth # 0
        BY <2>1, <3>2, <4>1 DEF DeviceInv
      <4>2. CASE Depth = 0
        <5>1. BootDir = "boot" /\ at = at0
          BY <2>1, <3>2, <4>2 DEF PlaceInv, BootDir, TableInv, LoaderInv
        <5> QED
          BY <2>1, <2>6, <3>2, <4>2, <5>1 DEF Clear, OwnPartition, AlreadyMounted,
               Partitionless, Place, DeviceInv
      <4> QED
        BY <4>1, <4>2
    <3> QED
      BY <2>1, <2>2, <2>3, <2>4, <2>6, <3>1, <3>2, ReturnKeeps
  <2>7. CASE NotMounted /\ UNCHANGED context
    <3>1. GroundStep
      BY <2>1, <2>7, SameCalls DEF GroundStep, NotMounted, context, FramesInv, StackInv,
           Running
    <3> QED
      BY <3>1, GroundKeeps
  <2>8. CASE /\ ~NothingToMount /\ ~AlreadyMounted /\ "prefix" \in Premounted
             /\ Mounted("none") /\ UNCHANGED context
    <3>1. BootDir = "boot" /\ Place(BootDir) = BootDevice(image)
      BY <2>1, <2>8, PremountedCase
    <3>2. Found
      BY <2>8, <3>1 DEF Found
    <3>3. Clear => Place(BootDir) = BootDevice(FALSE)
      BY <3>1, SameFirmware DEF Clear
    <3> QED
      BY <2>1, <2>2, <2>3, <2>4, <2>8, <3>2, <3>3, ReturnKeeps
  <2>9. ASSUME ~NothingToMount, ~AlreadyMounted, NEW d \in Premounted \ {"prefix"},
               Mounted("none"), SetBootDir(d)
        PROVE  PlaceInv' /\ DeviceInv'
    <3>1. at[d] = BootDevice(image) /\ at[d] # "none" /\ d # "none"
      BY <2>9 DEF Premounted, Dirs
    <3>2. BootDir' = d
      BY <2>9, <3>1 DEF SetBootDir, BootDir
    <3>3. Found' /\ Place(BootDir)' = BootDevice(image)
      BY <2>1, <3>1, <3>2 DEF Found, Place
    <3>4. ~Partitionless /\ (Depth # 0 => Place(BootDir) = BootDevice(image))
      BY <2>1, <2>9, PremountedCase
    <3>5. ~image => hit \subseteq {BootDevice(image)}
      BY <2>1, <2>3, <3>4 DEF PlaceInv
    <3>6. Clear => BootDevice(image) = BootDevice(FALSE)
      BY SameFirmware DEF Clear
    <3> QED
      BY <2>1, <2>4, <2>9, <3>3, <3>4, <3>5, <3>6, ReturnKeeps
  <2>10. CASE ~NothingToMount /\ ~AlreadyMounted /\ Segfault
    BY <2>1, <2>10, PremountedCase, EndKeeps DEF Segfault
  <2> QED
    BY <1>2, <2>5, <2>6, <2>7, <2>8, <2>9, <2>10, DetectCases
<1>3. CASE Mount
  <2>1. Depth = 0 /\ UNCHANGED <<invocation, context, full, hit>> /\ pc = "detect"
    BY <1>3, SecondNeverMounts DEF Mount
  <2>2. BootDir' = BootDir /\ UNCHANGED <<bdir, image, sys>>
    BY <2>1 DEF context, BootDir, invocation
  <2>3. CASE NotMounted
    <3>1. pc' = "done"
      BY <2>1, <2>3 DEF NotMounted, FramesInv, StackInv
    <3> QED
      BY <2>1, <2>2, <3>1, EndKeeps
  <2>4. CASE pc' = "reinit" /\ at' = [at EXCEPT ![BootDir] = BootDevice(image)] /\ UNCHANGED frames
    <3>1. Depth' = 0
      BY <2>1, <2>4, SameCalls
    <3>2. at'[BootDir] = BootDevice(image) /\ BootDevice(image) # "none"
      BY <1>3, <2>4, BootDirType DEF Mount, PlacesOK
    <3>3. BootDevice(image)' = BootDevice(image) /\ BootDevice(FALSE)' = BootDevice(FALSE)
      BY <2>2, SameWanted
    <3>4. PlaceInv'
      BY <2>1, <2>2, <2>4, <3>1, <3>2, <3>3 DEF PlaceInv, Running
    <3>5. Clear' = Clear
      BY <2>1, <3>3, SameCaps, SameWanted DEF Clear, OwnPartition, invocation
    <3>6. Clear' => hit' \subseteq {BootDevice(FALSE)'}
      BY <2>1, <3>3, <3>5 DEF DeviceInv
    <3>7. full = full0 \/ image
      BY <2>1 DEF DeviceInv, Running
    <3>8. DeviceInv'
      BY <2>1, <3>1, <3>6, <3>7 DEF DeviceInv, invocation
    <3> QED
      BY <3>4, <3>8
  <2> QED
    BY <1>3, <2>3, <2>4 DEF Mount
<1>4. CASE Reinit
  <2>1. CASE Segfault /\ SetBootDirFails(BootDir)
    <3>1. BootDir' = BootDir /\ pc' = "done" /\ UNCHANGED <<invocation, full, hit>>
      BY <1>4, <2>1 DEF Reinit, Segfault, SetBootDirFails, BootDir
    <3> QED
      BY <3>1, EndKeeps
  <2>2. CASE SetBootDir(BootDir) /\ Mounted(BootDir)
    <3>1. Depth = 0 /\ pc = "reinit" /\ UNCHANGED <<invocation, at, full, hit>>
      BY <1>4 DEF Reinit, FramesInv
    <3>2. Depth' = 1 /\ pc' # "reinit"
      BY <2>2, <3>1, MountedCalls, BootDirType DEF invocation
    <3>3. BootDir' = BootDir
      BY <2>2 DEF SetBootDir, BootDir
    <3>4. at[BootDir] = BootDevice(image) /\ at[BootDir] # "none" /\ Running
      BY <3>1 DEF PlaceInv, Running
    <3>5. Found'
      BY <3>1, <3>3, <3>4 DEF Found
    <3>6. ~image => hit = {}
      BY <3>1, <3>4 DEF PlaceInv
    <3>7. Place(BootDir)' = BootDevice(image)
      BY <3>1, <3>3, <3>4 DEF Place
    <3>8. Clear => Place(BootDir)' = BootDevice(FALSE)
      BY <3>7, SameFirmware DEF Clear
    <3>9. Depth' # 0 /\ (~image => hit \subseteq {Place(BootDir)'})
      BY <3>2, <3>6
    <3> QED
      BY <3>1, <3>2, <3>3, <3>4, <3>5, <3>8, <3>9, ReturnKeeps
  <2> QED
    BY <1>4, <2>1, <2>2 DEF Reinit, SetBootDirFails
<1>5. CASE Umount
  <2>1. UNCHANGED <<invocation, context, full, hit>> /\ pc = "umount"
    BY <1>5 DEF Umount
  <2>2. BootDir' = BootDir
    BY <2>1 DEF context, BootDir
  <2>3. CASE Depth = 1
    BY <1>5, <2>1, <2>2, <2>3, UmountCases, EndKeeps
  <2>4. CASE Depth = 2
    <3>1. Depth' = 1 /\ UNCHANGED at /\ pc' \in {"gc", "umount"}
      BY <1>5, <2>4, UmountCases
    <3>2. GroundStep
      BY <2>1, <2>4, <3>1 DEF GroundStep, Running, context
    <3> QED
      BY <3>2, GroundKeeps
  <2> QED
    BY <1>5, <2>3, <2>4, UmountCases
<1>6. CASE ImagePrepare
  <2>1. CASE Segfault /\ SetBootDirFails(BootDir)
    <3>1. BootDir' = BootDir /\ pc' = "done" /\ UNCHANGED <<invocation, full, hit>>
      BY <1>6, <2>1 DEF ImagePrepare, Segfault, SetBootDirFails, BootDir
    <3> QED
      BY <3>1, EndKeeps
  <2>2. CASE pc' # "reinit" /\ UNCHANGED frames
    <3>1. GroundStep
      BY <1>6, <2>2, SameCalls DEF ImagePrepare, SetBootDir, SetBootDirFails, context,
           GroundStep, Running
    <3> QED
      BY <3>1, GroundKeeps
  <2> QED
    BY <1>6, <2>1, <2>2 DEF ImagePrepare, SetBootDirFails
<1>7. CASE UpdateLoader
  <2>1. CASE Segfault /\ SetBootDirFails(BootDir)
    <3>1. BootDir' = BootDir /\ pc' = "done" /\ UNCHANGED <<invocation, full, hit>>
      BY <1>7, <2>1 DEF UpdateLoader, Segfault, SetBootDirFails, BootDir
    <3> QED
      BY <3>1, EndKeeps
  <2>2. CASE pc' = "kernels" /\ UNCHANGED frames
    <3>1. UNCHANGED hit \/ hit' = hit \cup {Place(BootDir)}
      BY <1>7 DEF UpdateLoader, Write, SetBootDirFails
    <3>2. bdir' \in {bdir, BootDir} /\ UNCHANGED <<invocation, at>>
      BY <1>7, <2>2 DEF UpdateLoader, SetBootDir, SetBootDirFails, Segfault, context
    <3>3. full => full'
      BY <1>7, Zenon DEF UpdateLoader, Write
    <3>4. GroundStep
      BY <1>7, <2>2, <3>1, <3>2, <3>3, SameCalls DEF UpdateLoader, GroundStep, Running,
           FramesInv
    <3> QED
      BY <3>4, GroundKeeps
  <2> QED
    BY <1>7, <2>1, <2>2, Zenon DEF UpdateLoader, SetBootDirFails
<1>8. CASE InstallKernels
  <2>1. full => full'
    BY <1>8, Zenon DEF InstallKernels, Write
  <2>2. UNCHANGED <<invocation, at, bdir, frames>> /\ pc' # "reinit" /\ Running
    BY <1>8 DEF InstallKernels, context, Running
  <2>3. UNCHANGED hit \/ hit' = hit \cup {Place(BootDir)}
    BY <1>8 DEF InstallKernels, Write
  <2>4. Depth # 0 \/ image
    BY <1>8 DEF InstallKernels, FramesInv
  <2>5. GroundStep
    BY <2>1, <2>2, <2>3, <2>4, SameCalls DEF GroundStep
  <2> QED
    BY <2>5, GroundKeeps
<1>9. CASE LoaderDefault
  <2>1. full => full'
    BY <1>9, Zenon DEF LoaderDefault, Write
  <2>2. UNCHANGED <<invocation, at, bdir, frames>> /\ pc' # "reinit" /\ Running
    BY <1>9 DEF LoaderDefault, context, Running
  <2>3. UNCHANGED hit \/ hit' = hit \cup {Place(BootDir)}
    BY <1>9, <2>2 DEF LoaderDefault, Write, LoaderInv
  <2>4. Depth # 0 \/ image
    BY <1>9 DEF LoaderDefault, FramesInv
  <2>5. GroundStep
    BY <2>1, <2>2, <2>3, <2>4, SameCalls DEF GroundStep
  <2> QED
    BY <2>5, GroundKeeps
<1>10. CASE RemoveKernels
  <2>1. full => full'
    BY <1>10, Zenon DEF RemoveKernels, Write
  <2>2. UNCHANGED <<invocation, at, bdir, frames>> /\ pc' # "reinit" /\ Running
    BY <1>10 DEF RemoveKernels, context, Running
  <2>3. UNCHANGED hit \/ hit' = hit \cup {Place(BootDir)}
    BY <1>10 DEF RemoveKernels, Write
  <2>4. Depth # 0 \/ image
    BY <1>10 DEF RemoveKernels, FramesInv
  <2>5. GroundStep
    BY <2>1, <2>2, <2>3, <2>4, SameCalls DEF GroundStep
  <2> QED
    BY <2>5, GroundKeeps
<1>11. CASE Exit
  <2>1. GroundStep
    BY <1>11, SameCalls DEF Exit, context, invocation, GroundStep, Running
  <2> QED
    BY <2>1, GroundKeeps
<1>12. CASE UNCHANGED vars
  <2>1. GroundStep
    BY <1>12, SameCalls DEF vars, context, invocation, GroundStep, Running
  <2> QED
    BY <2>1, GroundKeeps
<1> QED
  BY <1>1, <1>2, <1>3, <1>4, <1>5, <1>6, <1>7, <1>8, <1>9, <1>10, <1>11, <1>12,
       Zenon DEF Next, Mounting
-----------------------------------------------------------------------------
(* The theorems.                                                           *)

\* Every step keeps the type of the table that was found.
LEMMA TableTypeStep == ASSUME PlacesOK, TableType, [Next]_vars PROVE TableType'
<1> USE DEF PlacesOK, TableType, invocation
<1>1. ASSUME NEW o \in Ops, NEW im \in BOOLEAN, Begin(o, im) PROVE TableType'
  BY <1>1 DEF Begin
<1>2. CASE Detect
  BY <1>2 DEF Detect
<1>3. CASE Mount
  BY <1>3 DEF Mount
<1>4. CASE Reinit
  BY <1>4 DEF Reinit
<1>5. CASE Umount
  BY <1>5 DEF Umount
<1>6. CASE ImagePrepare
  BY <1>6 DEF ImagePrepare
<1>7. CASE UpdateLoader
  BY <1>7 DEF UpdateLoader
<1>8. CASE InstallKernels
  BY <1>8 DEF InstallKernels
<1>9. CASE LoaderDefault
  BY <1>9 DEF LoaderDefault
<1>10. CASE RemoveKernels
  BY <1>10 DEF RemoveKernels
<1>11. CASE Exit
  BY <1>11 DEF Exit
<1>12. CASE UNCHANGED vars
  BY <1>12 DEF vars
<1> QED
  BY <1>1, <1>2, <1>3, <1>4, <1>5, <1>6, <1>7, <1>8, <1>9, <1>10, <1>11, <1>12,
       Zenon DEF Next, Mounting

\* The invariant holds before the first command.
LEMMA InvInit == Init => Inv
<1> SUFFICES ASSUME Init PROVE Inv
  OBVIOUS
<1>1. StackInv /\ Depth = 0
  BY DEF Init, StackInv, Depth
<1>2. PlacesOK /\ TableType
  BY DEF Init, PlacesOK, TableType
<1>3. FlagsOK
  BY Zenon DEF Init, FlagsOK
<1>4. FramesInv
  BY <1>1 DEF Init, FramesInv
<1>5. ~Running /\ LoaderInv
  BY DEF Init, LoaderInv, Running
<1>6. TableInv
  BY <1>1 DEF Init, TableInv
<1>7. PlaceInv
  BY <1>5 DEF Init, PlaceInv
<1>8. DeviceInv
  BY <1>5 DEF Init, DeviceInv
<1> QED
  BY <1>2, <1>3, <1>4, <1>5, <1>6, <1>7, <1>8 DEF Inv

\* Whatever the machine and the commands, and wherever one of them fails: the
\* calls of detect_and_mount_boot nest, at most two deep, the loader's paths
\* follow the boot directory, the mount table differs from the one found by what
\* is left to unmount, and what was written is in one place.
THEOREM MountInvariant == Spec => []Inv
<1>1. Inv /\ [Next]_vars => Inv'
  <2> SUFFICES ASSUME Inv, [Next]_vars PROVE Inv'
    OBVIOUS
  <2>1. PlacesOK' /\ FlagsOK' /\ TableType'
    BY PlacesStep, FlagsStep, TableTypeStep DEF Inv
  <2>2. FramesInv' /\ LoaderInv'
    BY FramesStep, LoaderStep DEF Inv
  <2>3. TableInv'
    BY TableStep DEF Inv
  <2>4. PlaceInv' /\ DeviceInv'
    BY PlaceStep DEF Inv
  <2> QED
    BY <2>1, <2>2, <2>3, <2>4 DEF Inv
<1> QED
  BY <1>1, InvInit, PTL DEF Spec

\* Every variable has its type; in particular no third call of
\* detect_and_mount_boot is ever under way.
THEOREM TypeCorrect == Spec => []TypeOK
<1>1. Inv => TypeOK
  <2> SUFFICES ASSUME Inv PROVE TypeOK
    OBVIOUS
  <2>1. frames \in Seq(Dirs \cup {"none"}) /\ Len(frames) \in {0, 1, 2}
    BY DEF Inv, FramesInv, StackInv, Depth
  <2>2. \A i \in 1..Len(frames) : frames[i] \in Dirs \cup {"none"}
    BY <2>1, ElementOfSeq
  <2> QED
    BY <2>1, <2>2 DEF Inv, TypeOK, CallsOK
<1> QED
  BY <1>1, MountInvariant, PTL

\* The loader is only ever used with the paths of the boot directory, looked up
\* on the file system that is there (bootman.c:598-603).
THEOREM LoaderPathsFresh == Spec => []PathsFresh
<1>1. Inv => PathsFresh
  BY DEF Inv, LoaderInv, Running, PathsFresh
<1> QED
  BY <1>1, MountInvariant, PTL

\* A command leaves the mount table as it found it, unless it is mount-boot or
\* an unmounting or an initialisation failed (update.c:45-50).
THEOREM TableRestored == Spec => []Restored
<1>1. Inv => Restored
  BY DEF Inv, FramesInv, TableInv, Restored
<1> QED
  BY <1>1, MountInvariant, PTL

\* A native command never splits what it writes over two file systems, although
\* setting the default looks for the boot partition once more (bootman.c:402-465).
THEOREM WritesOnePlace == Spec => []OnePlace
<1>1. Inv => OnePlace
  <2> SUFFICES ASSUME Inv, ~image PROVE Cardinality(hit) <= 1
    BY DEF OnePlace
  <2>1. PICK x : hit \subseteq {x}
    BY DEF Inv, PlaceInv
  <2>2. hit = {} \/ hit = {x}
    BY <2>1
  <2>3. Cardinality({}) = 0 /\ Cardinality({x}) = 1
    BY FS_EmptySet, FS_Singleton
  <2> QED
    BY <2>2, <2>3
<1> QED
  BY <1>1, MountInvariant, PTL

\* A native command on a machine with a boot device writes there and nowhere
\* else, unless it found something else on the boot directory or, with a legacy
\* loader, something in it before it wrote anything itself (bootman.c:535-570,
\* 1109-1115).
THEOREM BootDeviceReached == Spec => []ReachesBootDevice
<1>1. Inv => ReachesBootDevice
  BY DEF Inv, DeviceInv, Clear, ReachesBootDevice
<1> QED
  BY <1>1, MountInvariant, PTL
=============================================================================
