-------------------------- MODULE NativeUpdateProofs --------------------------
(***************************************************************************)
(* Proofs about NativeUpdate for every set of kernels, types, releases and *)
(* bounds: type correctness, part by part of TypeOK, and what the garbage  *)
(* collection spares.  GcInv is inductive together with TypeOK; it has one *)
(* lemma per conjunct, and one step per group of actions in each.  The two *)
(* theorems on the collection are step properties: only a removal discards *)
(* anything, only of the kernel at hand, and GcInv says why it may go.     *)
(***************************************************************************)
EXTENDS NativeUpdate, WellFoundedInduction, TLAPS

-----------------------------------------------------------------------------
(* Types.                                                                  *)

\* The budget of outside events is never overdrawn.
LEMMA EventCounted ==
  ASSUME MachineTypes, events < MaxEvents, events' = events + 1
  PROVE  events' \in 0..MaxEvents
BY KernelAssumption DEF MachineTypes

\* The kernel update takes for the running one is one it discovered.
LEMMA RunningKnown == \A S : RunningKernels(S) \subseteq S
BY DEF RunningKernels

\* The tip of a type and its last booted kernel come from the kernel array.
LEMMA SelectionKnown ==
  /\ \A t : Tips(t) \subseteq OfType(snap, t)
  /\ \A S : LastBooted(S) \subseteq S \cap boots
BY DEF Tips, LastBooted, Highest, OfType, DefaultForType

\* A step of NativeUpdate: the directories and the ESP keep their shape.
LEMMA FileTypesKept == ASSUME TypeOK, [Next]_vars PROVE FileTypes'
<1> USE DEF TypeOK, rootfs, bootfs, disk, machine, plan, lists, Steady, Fails,
       FileTypes, MachineTypes, ControlTypes
<1>1. CASE Install
  BY <1>1 DEF Install, InstallBlob, inInstall, RenameBlob, CompareEntry, Segfault,
     AfterInstall, CreateEntry, FlushEntry, InstallFails
<1>2. CASE Remove
  BY <1>2 DEF Remove, RemoveBlob, inRemove, RemoveCmdline, RemoveKboot, RemoveSource,
     RemoveReturns, RemoveEntry
<1>3. CASE SetDefault
  BY <1>3 DEF SetDefault, CompareDefault, inDefault, DefaultDone, DefaultTarget,
     NewDefault, Segfault, CreateDefault, FlushDefault, DefaultFails, DefaultForType
<1>4. CASE Update
  BY RunningKnown, SelectionKnown, <1>4 DEF Update, Discover, inUpdate,
     AvailableKernels, Types, UpdateBootloader, CopyFreestanding, RepairRunning,
     StartInstall, InstallTip, OfType, Highest, InstallLastGood, ProposeRemovals,
     Unprotected, CollectNext, Cleanup
<1>5. CASE Exit
  BY <1>5 DEF Exit, Gone
<1>6. CASE Command
  BY <1>6 DEF Command, RunUpdate, Launch, SetKernel, Event, AvailableKernels,
     RemoveKernel
<1>7. CASE Report
  BY <1>7 DEF Report, ReportUnlink, process, Event, ReportWrite
<1>8. CASE World
  BY <1>8 DEF World, EditCmdline, process, Event, PowerLoss, Gone, Kill, PkgInstall,
     Types, PkgRemove, Damage
<1>9. CASE UNCHANGED vars
  BY <1>9 DEF vars
<1>10. QED
  BY <1>1, <1>2, <1>3, <1>4, <1>5, <1>6, <1>7, <1>8, <1>9 DEF Next, Process

\* A step of NativeUpdate: the machine's state keeps its type; the event budget is kept.
LEMMA MachineTypesKept == ASSUME TypeOK, [Next]_vars PROVE MachineTypes'
<1> USE DEF TypeOK, rootfs, bootfs, disk, machine, plan, lists, Steady, Fails,
       MachineTypes
<1>1. CASE Install
  BY <1>1 DEF Install, InstallBlob, inInstall, RenameBlob, CompareEntry, Segfault,
     AfterInstall, CreateEntry, FlushEntry, InstallFails
<1>2. CASE Remove
  BY <1>2 DEF Remove, RemoveBlob, inRemove, RemoveCmdline, RemoveKboot, RemoveSource,
     RemoveReturns, RemoveEntry
<1>3. CASE SetDefault
  BY <1>3 DEF SetDefault, CompareDefault, inDefault, DefaultDone, DefaultTarget,
     NewDefault, Segfault, CreateDefault, FlushDefault, DefaultFails, DefaultForType
<1>4. CASE Update
  BY RunningKnown, SelectionKnown, <1>4 DEF Update, Discover, inUpdate,
     AvailableKernels, Types, UpdateBootloader, CopyFreestanding, RepairRunning,
     StartInstall, InstallTip, OfType, Highest, InstallLastGood, ProposeRemovals,
     Unprotected, CollectNext, Cleanup
<1>5. CASE Exit
  BY <1>5 DEF Exit, Gone
<1>6. CASE Command
  BY EventCounted, <1>6 DEF Command, RunUpdate, Launch, SetKernel, Event,
     AvailableKernels, RemoveKernel
<1>7. CASE Report
  BY EventCounted, <1>7 DEF Report, ReportUnlink, process, Event, ReportWrite
<1>8. CASE World
  BY EventCounted, <1>8 DEF World, EditCmdline, process, Event, PowerLoss, Gone, Kill,
     PkgInstall, Types, PkgRemove, Damage
<1>9. CASE UNCHANGED vars
  BY <1>9 DEF vars
<1>10. QED
  BY <1>1, <1>2, <1>3, <1>4, <1>5, <1>6, <1>7, <1>8, <1>9 DEF Next, Process

\* A step of NativeUpdate: every step leads to a step.
LEMMA ControlTypesKept == ASSUME TypeOK, [Next]_vars PROVE ControlTypes'
<1> USE DEF TypeOK, rootfs, bootfs, disk, machine, plan, lists, Steady, Fails,
       ControlTypes, PlanTypes, Steps, Installing, Removing
<1>1. CASE Install
  BY <1>1 DEF Install, InstallBlob, inInstall, RenameBlob, CompareEntry, Segfault,
     AfterInstall, CreateEntry, FlushEntry, InstallFails
<1>2. CASE Remove
  BY <1>2 DEF Remove, RemoveBlob, inRemove, RemoveCmdline, RemoveKboot, RemoveSource,
     RemoveReturns, RemoveEntry
<1>3. CASE SetDefault
  BY <1>3 DEF SetDefault, CompareDefault, inDefault, DefaultDone, DefaultTarget,
     NewDefault, Segfault, CreateDefault, FlushDefault, DefaultFails, DefaultForType
<1>4. CASE Update
  BY RunningKnown, SelectionKnown, <1>4 DEF Update, Discover, inUpdate,
     AvailableKernels, Types, UpdateBootloader, CopyFreestanding, RepairRunning,
     StartInstall, InstallTip, OfType, Highest, InstallLastGood, ProposeRemovals,
     Unprotected, CollectNext, Cleanup
<1>5. CASE Exit
  BY <1>5 DEF Exit, Gone
<1>6. CASE Command
  BY <1>6 DEF Command, RunUpdate, Launch, SetKernel, Event, AvailableKernels,
     RemoveKernel
<1>7. CASE Report
  BY <1>7 DEF Report, ReportUnlink, process, Event, ReportWrite
<1>8. CASE World
  BY <1>8 DEF World, EditCmdline, process, Event, PowerLoss, Gone, Kill, PkgInstall,
     Types, PkgRemove, Damage
<1>9. CASE UNCHANGED vars
  BY <1>9 DEF vars
<1>10. QED
  BY <1>1, <1>2, <1>3, <1>4, <1>5, <1>6, <1>7, <1>8, <1>9 DEF Next, Process

\* A step of NativeUpdate: the arrays only hold kernels that were discovered.
LEMMA PlanTypesKept == ASSUME TypeOK, [Next]_vars PROVE PlanTypes'
<1> USE DEF TypeOK, rootfs, bootfs, disk, machine, plan, lists, Steady, Fails,
       PlanTypes, FileTypes, ControlTypes
<1>1. CASE Install
  BY <1>1 DEF Install, InstallBlob, inInstall, RenameBlob, CompareEntry, Segfault,
     AfterInstall, CreateEntry, FlushEntry, InstallFails
<1>2. CASE Remove
  BY <1>2 DEF Remove, RemoveBlob, inRemove, RemoveCmdline, RemoveKboot, RemoveSource,
     RemoveReturns, RemoveEntry
<1>3. CASE SetDefault
  BY <1>3 DEF SetDefault, CompareDefault, inDefault, DefaultDone, DefaultTarget,
     NewDefault, Segfault, CreateDefault, FlushDefault, DefaultFails, DefaultForType
<1>4. CASE Update
  BY RunningKnown, SelectionKnown, <1>4 DEF Update, Discover, inUpdate,
     AvailableKernels, Types, UpdateBootloader, CopyFreestanding, RepairRunning,
     StartInstall, InstallTip, OfType, Highest, InstallLastGood, ProposeRemovals,
     Unprotected, CollectNext, Cleanup
<1>5. CASE Exit
  BY <1>5 DEF Exit, Gone
<1>6. CASE Command
  BY <1>6 DEF Command, RunUpdate, Launch, SetKernel, Event, AvailableKernels,
     RemoveKernel
<1>7. CASE Report
  BY <1>7 DEF Report, ReportUnlink, process, Event, ReportWrite
<1>8. CASE World
  BY <1>8 DEF World, EditCmdline, process, Event, PowerLoss, Gone, Kill, PkgInstall,
     Types, PkgRemove, Damage
<1>9. CASE UNCHANGED vars
  BY <1>9 DEF vars
<1>10. QED
  BY <1>1, <1>2, <1>3, <1>4, <1>5, <1>6, <1>7, <1>8, <1>9 DEF Next, Process

\* A step of NativeUpdate: the flags stay Boolean.
LEMMA FlagTypesKept == ASSUME TypeOK, [Next]_vars PROVE FlagTypes'
<1> USE DEF TypeOK, rootfs, bootfs, disk, machine, plan, lists, Steady, Fails, FlagTypes
<1>1. CASE Install
  BY <1>1 DEF Install, InstallBlob, inInstall, RenameBlob, CompareEntry, Segfault,
     AfterInstall, CreateEntry, FlushEntry, InstallFails
<1>2. CASE Remove
  BY <1>2 DEF Remove, RemoveBlob, inRemove, RemoveCmdline, RemoveKboot, RemoveSource,
     RemoveReturns, RemoveEntry
<1>3. CASE SetDefault
  BY <1>3 DEF SetDefault, CompareDefault, inDefault, DefaultDone, DefaultTarget,
     NewDefault, Segfault, CreateDefault, FlushDefault, DefaultFails, DefaultForType
<1>4. CASE Update
  BY RunningKnown, SelectionKnown, <1>4 DEF Update, Discover, inUpdate,
     AvailableKernels, Types, UpdateBootloader, CopyFreestanding, RepairRunning,
     StartInstall, InstallTip, OfType, Highest, InstallLastGood, ProposeRemovals,
     Unprotected, CollectNext, Cleanup
<1>5. CASE Exit
  BY <1>5 DEF Exit, Gone
<1>6. CASE Command
  BY <1>6 DEF Command, RunUpdate, Launch, SetKernel, Event, AvailableKernels,
     RemoveKernel
<1>7. CASE Report
  BY <1>7 DEF Report, ReportUnlink, process, Event, ReportWrite
<1>8. CASE World
  BY <1>8 DEF World, EditCmdline, process, Event, PowerLoss, Gone, Kill, PkgInstall,
     Types, PkgRemove, Damage
<1>9. CASE UNCHANGED vars
  BY <1>9 DEF vars
<1>10. QED
  BY <1>1, <1>2, <1>3, <1>4, <1>5, <1>6, <1>7, <1>8, <1>9 DEF Next, Process

\* The type invariant holds initially.
LEMMA TypeInit == Init => TypeOK
<1>1. Installed \subseteq Kernels /\ 0 \in 0..MaxEvents
  BY KernelAssumption
<1>2. QED
  BY <1>1 DEF Init, TypeOK, FileTypes, MachineTypes, ControlTypes, PlanTypes, FlagTypes, Steps

\* ... and is inductive.
LEMMA TypeStep == TypeOK /\ [Next]_vars => TypeOK'
BY FileTypesKept, MachineTypesKept, ControlTypesKept, PlanTypesKept, FlagTypesKept DEF TypeOK

\* Every variable keeps its type, whatever the interleaving of update, the other
\* commands, report-booted, failing system calls and power losses.
THEOREM TypeCorrect == Spec => []TypeOK
BY TypeInit, TypeStep, PTL DEF Spec

-----------------------------------------------------------------------------
(* The garbage collection.                                                 *)

\* A release survives the cast to int16_t as an integer of that range.
LEMMA RelType == \A k \in Kernels : Rel(k) \in Int /\ Rel(k) <= 32767
<1>1. \A x \in Int : ((x + 32768) % 65536) - 32768 \in Int
  OBVIOUS
<1>2. \A x \in Int : ((x + 32768) % 65536) - 32768 <= 32767
  OBVIOUS
<1>3. \A k \in Kernels : KRelease[k] \in Int
  BY KernelAssumption
<1>4. QED
  BY <1>1, <1>2, <1>3 DEF Rel

\* A release that fits is not changed by the cast.
LEMMA CastExact == \A x \in Nat : x <= 32767 => ((x + 32768) % 65536) - 32768 = x
OBVIOUS

\* ... so that a kernel's release is the one its file name gives.
LEMMA RelExact ==
  ASSUME ReleasesFit
  PROVE  \A k \in Kernels : Rel(k) = KRelease[k] /\ Rel(k) \in Nat
BY CastExact DEF ReleasesFit, Rel

\* If the running kernel is in the array, update identifies it exactly.
LEMMA RunningIsUname ==
  ASSUME NEW S, S \subseteq Kernels, uname \in S, None \notin Kernels
  PROVE  RunningKernels(S) = {uname}
BY IdentityAssumption DEF RunningKernels

\* The vendor selection, if present, is the only tip of its type.
LEMMA TipIsSelection ==
  ASSUME NEW k \in snap, None \notin snap, link[KType[k]] = k
  PROVE  Tips(KType[k]) = {k}
BY DEF Tips, DefaultForType, OfType

\* boot_manager_get_last_booted finds a kernel whenever one is eligible, and it
\* is as recent as any. (A non-empty set of integers bounded above has a maximum.)
LEMMA LastBootedHighest ==
  ASSUME NEW S, S \subseteq Kernels, NEW k \in S \cap boots, Rel(k) >= -1
  PROVE  /\ LastBooted(S) # {}
         /\ \A j \in LastBooted(S) : Rel(j) >= Rel(k)
<1> DEFINE X == {j \in S : j \in boots /\ Rel(j) >= -1}
           T == {n \in Nat : \E j \in X : n = 32767 - Rel(j)}
<1>1. k \in X /\ X \subseteq Kernels
  OBVIOUS
<1> HIDE DEF X
<1>2. \A j \in X : 32767 - Rel(j) \in T
  BY <1>1, RelType
<1>3. T \subseteq Nat /\ T # {}
  BY <1>1, <1>2
<1>4. PICK x \in T : \A y \in T : ~(<<y, x>> \in OpToRel(<, Nat))
  <2> HIDE DEF T
  <2> QED
    BY <1>3, NatLessThanWellFounded, WFMin
<1>5. \A y \in T : ~(y < x)
  <2> HIDE DEF T
  <2> SUFFICES ASSUME NEW y \in T, y < x PROVE FALSE
    OBVIOUS
  <2>1. <<y, x>> \in Nat \X Nat
    BY <1>3
  <2>2. <<y, x>>[1] = y /\ <<y, x>>[2] = x
    OBVIOUS
  <2>3. <<y, x>> \in OpToRel(<, Nat)
    BY <2>1, <2>2 DEF OpToRel
  <2>4. QED
    BY <2>3, <1>4
<1>6. PICK j \in X : x = 32767 - Rel(j)
  OBVIOUS
<1>7. \A i \in X : Rel(i) <= Rel(j)
  <2> SUFFICES ASSUME NEW i \in X PROVE Rel(i) <= Rel(j)
    OBVIOUS
  <2>1. ~(32767 - Rel(i) < 32767 - Rel(j))
    BY <1>2, <1>5, <1>6
  <2>2. Rel(i) \in Int /\ Rel(j) \in Int
    BY <1>1, RelType
  <2>3. QED
    BY <2>1, <2>2
<1>8. LastBooted(S) = {i \in X : \A h \in X : Rel(h) <= Rel(i)}
  BY DEF LastBooted, Highest, X
<1>9. QED
  BY <1>1, <1>7, <1>8, RelType

\* Every step keeps the control state consistent: the operation a program
\* counter belongs to and the kernel at hand (update.c:149-377).
LEMMA ControlInvKept ==
  ASSUME TypeOK, ControlInv, [Next]_vars
  PROVE  ControlInv'
<1> USE DEF TypeOK, rootfs, bootfs, disk, machine, plan, lists, Steady, Fails,
       PlanTypes, ControlTypes, ControlInv, Installing, Removing
<1>1. CASE Install
  BY <1>1 DEF Install, InstallBlob, inInstall, RenameBlob, CompareEntry, Segfault,
     AfterInstall, CreateEntry, FlushEntry, InstallFails
<1>2. CASE Remove
  BY <1>2 DEF Remove, RemoveBlob, inRemove, RemoveCmdline, RemoveKboot, RemoveSource,
     RemoveReturns, RemoveEntry
<1>3. CASE SetDefault
  BY <1>3 DEF SetDefault, CompareDefault, inDefault, DefaultDone, DefaultTarget,
     NewDefault, DefaultForType, Segfault, CreateDefault, FlushDefault, DefaultFails
<1>4. CASE Update
  BY SelectionKnown, RunningKnown, <1>4 DEF Update, Discover, inUpdate,
     AvailableKernels, Types, UpdateBootloader, CopyFreestanding, RepairRunning,
     StartInstall, InstallTip, OfType, DefaultForType, Highest, InstallLastGood,
     ProposeRemovals, Unprotected, CollectNext, Cleanup
<1>5. CASE Exit
  BY <1>5 DEF Exit, Gone
<1>6. CASE Command
  BY <1>6 DEF Command, RunUpdate, Launch, SetKernel, Event, AvailableKernels,
     RemoveKernel
<1>7. CASE Report
  BY <1>7 DEF Report, ReportUnlink, process, Event, ReportWrite
<1>8. CASE World
  BY <1>8 DEF World, EditCmdline, process, Event, PowerLoss, Gone, Kill, PkgInstall,
     Types, PkgRemove, Damage
<1>9. CASE UNCHANGED vars
  BY <1>9 DEF vars
<1>10. QED
  BY <1>1, <1>2, <1>3, <1>4, <1>5, <1>6, <1>7, <1>8, <1>9 DEF Next, Process

\* While an update is underway nothing but Discover changes its arrays, the
\* running kernel or the vendor selections.
LEMMA Underway ==
  ASSUME TypeOK, ControlInv, [Next]_vars, (Selecting \/ Collecting)'
  PROVE  \/ Discover
         \/ /\ Selecting \/ Collecting
            /\ UNCHANGED <<uname, link, snap, boots, run>>
<1> USE DEF rootfs, bootfs, disk, machine, plan, lists, Steady, ControlInv, Installing,
       Removing, Selecting, Collecting
<1>1. CASE Install
  BY <1>1 DEF Install, InstallBlob, inInstall, RenameBlob, CompareEntry, Segfault,
     AfterInstall, CreateEntry, FlushEntry, Fails, InstallFails
<1>2. CASE Remove
  BY <1>2 DEF Remove, RemoveBlob, inRemove, Fails, RemoveCmdline, RemoveKboot,
     RemoveSource, RemoveReturns, RemoveEntry
<1>3. CASE SetDefault
  BY <1>3 DEF SetDefault, CompareDefault, inDefault, DefaultDone, DefaultTarget,
     Segfault, CreateDefault, FlushDefault, Fails, DefaultFails
<1>4. CASE Update
  <2>1. CASE Discover
    BY <2>1
  <2>2. CASE UpdateBootloader
    BY <2>2 DEF UpdateBootloader, inUpdate, Fails
  <2>3. CASE CopyFreestanding
    BY <2>3 DEF CopyFreestanding, inUpdate, Fails
  <2>4. CASE RepairRunning
    BY <2>4 DEF RepairRunning, inUpdate, StartInstall
  <2>5. CASE InstallTip
    BY <2>5 DEF InstallTip, inUpdate, StartInstall, Tips, OfType, DefaultForType,
       Highest
  <2>6. CASE InstallLastGood
    BY <2>6 DEF InstallLastGood, inUpdate, StartInstall, LastBooted, OfType, Highest
  <2>7. CASE ProposeRemovals
    BY <2>7 DEF ProposeRemovals, inUpdate, Unprotected, OfType
  <2>8. CASE CollectNext
    BY <2>8 DEF CollectNext, inUpdate, Highest, OfType
  <2>9. CASE Cleanup
    BY <2>9 DEF Cleanup, inUpdate, Fails
  <2>10. QED
    BY <2>1, <2>2, <2>3, <2>4, <2>5, <2>6, <2>7, <2>8, <2>9, <1>4 DEF Update
<1>5. CASE Exit
  BY <1>5 DEF Exit, Gone
<1>6. CASE Command
  BY <1>6 DEF Command, RunUpdate, Launch, SetKernel, Event, RemoveKernel
<1>7. CASE Report
  BY <1>7 DEF Report, ReportUnlink, process, Event, ReportWrite
<1>8. CASE World
  BY <1>8 DEF World, EditCmdline, process, Event, PowerLoss, Gone, Kill, PkgInstall,
     Types, PkgRemove, Damage
<1>9. CASE UNCHANGED vars
  BY <1>9 DEF vars
<1>10. QED
  BY <1>1, <1>2, <1>3, <1>4, <1>5, <1>6, <1>7, <1>8, <1>9 DEF Next, Process

\* The arrays of a running update stay in agreement with the disk, report-booted
\* and the removals included (update.c:166-201, report_booted.c:30-70).
LEMMA PlanOnDiskKept ==
  ASSUME TypeOK, GcInv, [Next]_vars, (Selecting \/ Collecting)'
  PROVE  PlanOnDisk'
<1> USE Underway DEF TypeOK, FileTypes, PlanTypes, ControlTypes, MachineTypes, GcInv,
       ControlInv, rootfs, bootfs, disk, machine, plan, lists, Steady, Fails, Selecting,
       Collecting, Installing, Removing, PlanOnDisk, AvailableKernels, Booted,
       RemovalsSpare
<1>1. CASE Install
  BY <1>1 DEF Install, InstallBlob, inInstall, RenameBlob, CompareEntry, Segfault,
     AfterInstall, CreateEntry, FlushEntry, InstallFails
<1>2. CASE Remove
  BY <1>2 DEF Remove, RemoveBlob, inRemove, RemoveCmdline, RemoveKboot, RemoveSource,
     RemoveReturns, RemoveEntry
<1>3. CASE SetDefault
  BY <1>3 DEF SetDefault, CompareDefault, inDefault, DefaultDone, DefaultTarget,
     Segfault, CreateDefault, FlushDefault, DefaultFails
<1>4. CASE Update
  <2>1. CASE Discover
    <3>1. /\ snap' = AvailableKernels /\ boots' = AvailableKernels \cap kboot
          /\ UNCHANGED <<src, cmdl, kboot, uname, rb, keep>>
      BY <2>1 DEF Discover, inUpdate
    <3>2. keep = {}
      BY <2>1 DEF Discover
    <3>3. uname \in AvailableKernels => run' = uname
      <4>1. ASSUME uname \in AvailableKernels
            PROVE  RunningKernels(AvailableKernels) = {uname} /\ AvailableKernels # {}
        BY <4>1, RunningIsUname, KernelAssumption
      <4>2. QED
        BY <2>1, <4>1 DEF Discover
    <3>4. QED
      BY <3>1, <3>2, <3>3
  <2>2. CASE UpdateBootloader
    BY <2>2 DEF UpdateBootloader, inUpdate
  <2>3. CASE CopyFreestanding
    BY <2>3 DEF CopyFreestanding, inUpdate
  <2>4. CASE RepairRunning
    BY <2>4 DEF RepairRunning, inUpdate, StartInstall
  <2>5. CASE InstallTip
    <3>1. PICK t \in todo : \E k \in Tips(t) :
             StartInstall(k, "tip") /\ keep' = keep \cup {k} /\ todo' = todo \ {t}
      BY <2>5 DEF InstallTip
    <3>2. PICK k \in Tips(t) :
             StartInstall(k, "tip") /\ keep' = keep \cup {k} /\ todo' = todo \ {t}
      BY <3>1
    <3>3. k \in snap /\ KType[k] = t
      BY <3>2, SelectionKnown DEF OfType
    <3>4. QED
      BY <2>5, <3>2, <3>3 DEF InstallTip, inUpdate
  <2>6. CASE InstallLastGood
    BY SelectionKnown, <2>6 DEF InstallLastGood, inUpdate, StartInstall
  <2>7. CASE ProposeRemovals
    BY <2>7 DEF ProposeRemovals, inUpdate
  <2>8. CASE CollectNext
    BY <2>8 DEF CollectNext, inUpdate
  <2>9. CASE Cleanup
    BY <2>9 DEF Cleanup, inUpdate
  <2>10. QED
    BY <2>1, <2>2, <2>3, <2>4, <2>5, <2>6, <2>7, <2>8, <2>9, <1>4 DEF Update
<1>5. CASE Exit
  BY <1>5 DEF Exit, Gone
<1>6. CASE Command
  BY <1>6 DEF Command, RunUpdate, Launch, SetKernel, Event, RemoveKernel
<1>7. CASE Report
  BY <1>7 DEF Report, ReportUnlink, process, Event, ReportWrite
<1>8. CASE World
  BY <1>8 DEF World, EditCmdline, process, Event, PowerLoss, Gone, Kill, PkgInstall,
     Types, PkgRemove, Damage
<1>9. CASE UNCHANGED vars
  BY <1>9 DEF vars
<1>10. QED
  BY <1>1, <1>2, <1>3, <1>4, <1>5, <1>6, <1>7, <1>8, <1>9 DEF Next, Process

\* A type that is worked off has its selection among the kept kernels, and keeps
\* it to the end (update.c:236-257).
LEMMA SelectionKeptStays ==
  ASSUME TypeOK, GcInv, [Next]_vars, (Selecting \/ Collecting)'
  PROVE  SelectionKept'
<1> USE Underway DEF TypeOK, FileTypes, PlanTypes, ControlTypes, MachineTypes, GcInv,
       ControlInv, rootfs, bootfs, disk, machine, plan, lists, Steady, Fails, Selecting,
       Collecting, Installing, Removing, SelectionKept, OfType
<1>1. CASE Install
  BY <1>1 DEF Install, InstallBlob, inInstall, RenameBlob, CompareEntry, Segfault,
     AfterInstall, CreateEntry, FlushEntry, InstallFails
<1>2. CASE Remove
  BY <1>2 DEF Remove, RemoveBlob, inRemove, RemoveCmdline, RemoveKboot, RemoveSource,
     RemoveReturns, RemoveEntry
<1>3. CASE SetDefault
  BY <1>3 DEF SetDefault, CompareDefault, inDefault, DefaultDone, DefaultTarget,
     Segfault, CreateDefault, FlushDefault, DefaultFails
<1>4. CASE Update
  <2>1. CASE Discover
    BY <2>1 DEF Discover, inUpdate, Types
  <2>2. CASE UpdateBootloader
    BY <2>2 DEF UpdateBootloader, inUpdate
  <2>3. CASE CopyFreestanding
    BY <2>3 DEF CopyFreestanding, inUpdate
  <2>4. CASE RepairRunning
    BY <2>4 DEF RepairRunning, inUpdate, StartInstall
  <2>5. CASE InstallTip
    <3>1. PICK t \in todo : \E k \in Tips(t) :
             StartInstall(k, "tip") /\ keep' = keep \cup {k} /\ todo' = todo \ {t}
      BY <2>5 DEF InstallTip
    <3>2. PICK k \in Tips(t) :
             StartInstall(k, "tip") /\ keep' = keep \cup {k} /\ todo' = todo \ {t}
      BY <3>1
    <3>3. k \in snap /\ KType[k] = t
      BY <3>2, SelectionKnown DEF OfType
    <3>4. \A j \in snap : KType[j] = t /\ link[t] = j => j = k
      BY <3>2, TipIsSelection, KernelAssumption
    <3>5. snap' = snap /\ link' = link
      BY <2>5 DEF InstallTip, inUpdate
    <3>6. SelectionKept
      BY <2>5 DEF InstallTip
    <3>7. QED
      BY <3>2, <3>3, <3>4, <3>5, <3>6
  <2>6. CASE InstallLastGood
    BY SelectionKnown, <2>6 DEF InstallLastGood, inUpdate, StartInstall
  <2>7. CASE ProposeRemovals
    BY <2>7 DEF ProposeRemovals, inUpdate
  <2>8. CASE CollectNext
    BY <2>8 DEF CollectNext, inUpdate
  <2>9. CASE Cleanup
    BY <2>9 DEF Cleanup, inUpdate
  <2>10. QED
    BY <2>1, <2>2, <2>3, <2>4, <2>5, <2>6, <2>7, <2>8, <2>9, <1>4 DEF Update
<1>5. CASE Exit
  BY <1>5 DEF Exit, Gone
<1>6. CASE Command
  BY <1>6 DEF Command, RunUpdate, Launch, SetKernel, Event, RemoveKernel
<1>7. CASE Report
  BY <1>7 DEF Report, ReportUnlink, process, Event, ReportWrite
<1>8. CASE World
  BY <1>8 DEF World, EditCmdline, process, Event, PowerLoss, Gone, Kill, PkgInstall,
     Types, PkgRemove, Damage
<1>9. CASE UNCHANGED vars
  BY <1>9 DEF vars
<1>10. QED
  BY <1>1, <1>2, <1>3, <1>4, <1>5, <1>6, <1>7, <1>8, <1>9 DEF Next, Process

\* The removal array never comes to hold a kept or the running kernel, although
\* it is filled type by type while kernels are still being kept (update.c:276-317).
LEMMA RemovalsSpareKept ==
  ASSUME TypeOK, GcInv, [Next]_vars, (Selecting \/ Collecting)'
  PROVE  RemovalsSpare'
<1> USE Underway DEF TypeOK, FileTypes, PlanTypes, ControlTypes, MachineTypes, GcInv,
       ControlInv, rootfs, bootfs, disk, machine, plan, lists, Steady, Fails, Selecting,
       Collecting, Installing, Removing, RemovalsSpare, OfType, Unprotected, InProgress
<1>1. CASE Install
  BY <1>1 DEF Install, InstallBlob, inInstall, RenameBlob, CompareEntry, Segfault,
     AfterInstall, CreateEntry, FlushEntry, InstallFails
<1>2. CASE Remove
  BY <1>2 DEF Remove, RemoveBlob, inRemove, RemoveCmdline, RemoveKboot, RemoveSource,
     RemoveReturns, RemoveEntry
<1>3. CASE SetDefault
  BY <1>3 DEF SetDefault, CompareDefault, inDefault, DefaultDone, DefaultTarget,
     Segfault, CreateDefault, FlushDefault, DefaultFails
<1>4. CASE Update
  <2>1. CASE Discover
    BY <2>1 DEF Discover, inUpdate, Types
  <2>2. CASE UpdateBootloader
    BY <2>2 DEF UpdateBootloader, inUpdate
  <2>3. CASE CopyFreestanding
    BY <2>3 DEF CopyFreestanding, inUpdate
  <2>4. CASE RepairRunning
    BY <2>4 DEF RepairRunning, inUpdate, StartInstall
  <2>5. CASE InstallTip
    BY SelectionKnown, <2>5 DEF InstallTip, inUpdate, StartInstall
  <2>6. CASE InstallLastGood
    <3>1. job \in snap /\ pc = "lastgood" /\ snap' = snap /\ boots' = boots /\ run' = run
      BY <2>6 DEF InstallLastGood, inUpdate
    <3>2. removals' = removals /\ todo' = todo /\ RemovalsSpare
      BY <2>6 DEF InstallLastGood
    <3>3. CASE LastBooted(OfType(snap, KType[job])) = {}
      BY <2>6, <3>1, <3>2, <3>3 DEF InstallLastGood, inUpdate
    <3>4. CASE \E k \in LastBooted(OfType(snap, KType[job])) :
                  StartInstall(k, "good") /\ keep' = keep \cup {k}
      <4>1. PICK k \in LastBooted(OfType(snap, KType[job])) :
                  StartInstall(k, "good") /\ keep' = keep \cup {k}
        BY <3>4
      <4>2. KType[k] = KType[job]
        BY <4>1, SelectionKnown
      <4>3. QED
        BY <3>1, <3>2, <4>1, <4>2 DEF StartInstall
    <3>5. QED
      BY <2>6, <3>3, <3>4 DEF InstallLastGood
  <2>7. CASE ProposeRemovals
    <3>1. /\ removals' \subseteq removals \cup Unprotected(KType[job])
          /\ pc = "propose" /\ pc' = "types"
          /\ UNCHANGED <<todo, keep, run, job, after>>
      BY <2>7 DEF ProposeRemovals
    <3>2. RemovalsSpare /\ op = "update"
      BY <2>7 DEF ProposeRemovals
    <3>3. after # "repair" /\ KType[job] \notin todo
      BY <2>7 DEF ProposeRemovals
    <3>4. QED
      BY <3>1, <3>2, <3>3
  <2>8. CASE CollectNext
    <3>1. RemovalsSpare
      BY <2>8 DEF CollectNext
    <3>2. /\ removals' \subseteq removals
          /\ pc' = "rm_esp" => job' \in removals
          /\ pc' \in {"rm_esp", "cleanup"}
          /\ UNCHANGED <<todo, keep, snap, run, after>>
      BY <2>8 DEF CollectNext, Highest
    <3>3. QED
      BY <3>1, <3>2
  <2>9. CASE Cleanup
    BY <2>9 DEF Cleanup, inUpdate
  <2>10. QED
    BY <2>1, <2>2, <2>3, <2>4, <2>5, <2>6, <2>7, <2>8, <2>9, <1>4 DEF Update
<1>5. CASE Exit
  BY <1>5 DEF Exit, Gone
<1>6. CASE Command
  BY <1>6 DEF Command, RunUpdate, Launch, SetKernel, Event, RemoveKernel
<1>7. CASE Report
  BY <1>7 DEF Report, ReportUnlink, process, Event, ReportWrite
<1>8. CASE World
  BY <1>8 DEF World, EditCmdline, process, Event, PowerLoss, Gone, Kill, PkgInstall,
     Types, PkgRemove, Damage
<1>9. CASE UNCHANGED vars
  BY <1>9 DEF vars
<1>10. QED
  BY <1>1, <1>2, <1>3, <1>4, <1>5, <1>6, <1>7, <1>8, <1>9 DEF Next, Process

\* Once the last good kernel of a type is chosen, one as recent as any that boots
\* stays among the kept ones (update.c:259-274).
LEMMA LastGoodKeptStays ==
  ASSUME TypeOK, GcInv, [Next]_vars, (Selecting \/ Collecting)'
  PROVE  LastGoodKept'
<1> USE Underway DEF TypeOK, FileTypes, PlanTypes, ControlTypes, MachineTypes, GcInv,
       ControlInv, rootfs, bootfs, disk, machine, plan, lists, Steady, Fails, Selecting,
       Collecting, Installing, Removing, LastGoodKept, Awaiting, OfType
<1>1. CASE Install
  BY <1>1 DEF Install, InstallBlob, inInstall, RenameBlob, CompareEntry, Segfault,
     AfterInstall, CreateEntry, FlushEntry, InstallFails
<1>2. CASE Remove
  BY <1>2 DEF Remove, RemoveBlob, inRemove, RemoveCmdline, RemoveKboot, RemoveSource,
     RemoveReturns, RemoveEntry
<1>3. CASE SetDefault
  BY <1>3 DEF SetDefault, CompareDefault, inDefault, DefaultDone, DefaultTarget,
     Segfault, CreateDefault, FlushDefault, DefaultFails
<1>4. CASE Update
  <2>1. CASE Discover
    BY <2>1 DEF Discover, inUpdate, Types
  <2>2. CASE UpdateBootloader
    BY <2>2 DEF UpdateBootloader, inUpdate
  <2>3. CASE CopyFreestanding
    BY <2>3 DEF CopyFreestanding, inUpdate
  <2>4. CASE RepairRunning
    BY <2>4 DEF RepairRunning, inUpdate, StartInstall
  <2>5. CASE InstallTip
    BY SelectionKnown, <2>5 DEF InstallTip, inUpdate, StartInstall
  <2>6. CASE InstallLastGood
    <3>1. job \in snap /\ pc = "lastgood" /\ snap' = snap /\ boots' = boots /\ run' = run
      BY <2>6 DEF InstallLastGood, inUpdate
    <3>2. todo' = todo /\ LastGoodKept
      BY <2>6 DEF InstallLastGood
    <3> DEFINE G == LastBooted(OfType(snap, KType[job]))
    <3>3. \A k \in boots : KType[k] = KType[job] /\ Rel(k) >= -1 =>
             G # {} /\ \A j \in G : Rel(j) >= Rel(k)
      BY LastBootedHighest
    <3>4. \A j \in G : j \in boots /\ KType[j] = KType[job]
      BY SelectionKnown
    <3>5. keep \subseteq keep' /\ (G = {} \/ \E j \in G : j \in keep')
      BY <2>6 DEF InstallLastGood
    <3> HIDE DEF G
    <3>6. \A k \in boots : KType[k] # KType[job] => ~Awaiting(KType[k])
      OBVIOUS
    <3>7. QED
      BY <3>1, <3>2, <3>3, <3>4, <3>5, <3>6
  <2>7. CASE ProposeRemovals
    BY <2>7 DEF ProposeRemovals, inUpdate
  <2>8. CASE CollectNext
    BY <2>8 DEF CollectNext, inUpdate
  <2>9. CASE Cleanup
    BY <2>9 DEF Cleanup, inUpdate
  <2>10. QED
    BY <2>1, <2>2, <2>3, <2>4, <2>5, <2>6, <2>7, <2>8, <2>9, <1>4 DEF Update
<1>5. CASE Exit
  BY <1>5 DEF Exit, Gone
<1>6. CASE Command
  BY <1>6 DEF Command, RunUpdate, Launch, SetKernel, Event, RemoveKernel
<1>7. CASE Report
  BY <1>7 DEF Report, ReportUnlink, process, Event, ReportWrite
<1>8. CASE World
  BY <1>8 DEF World, EditCmdline, process, Event, PowerLoss, Gone, Kill, PkgInstall,
     Types, PkgRemove, Damage
<1>9. CASE UNCHANGED vars
  BY <1>9 DEF vars
<1>10. QED
  BY <1>1, <1>2, <1>3, <1>4, <1>5, <1>6, <1>7, <1>8, <1>9 DEF Next, Process

\* A running update's plan stays valid: GcInv holds in every reachable state.
THEOREM GcInvariant == Spec => [](TypeOK /\ GcInv)
<1>1. Init => TypeOK /\ GcInv
  <2>1. Init => GcInv
    BY DEF Init, GcInv, ControlInv, Selecting, Collecting, Installing, Removing
  <2>2. QED
    BY <2>1, TypeInit
<1>2. (TypeOK /\ GcInv) /\ [Next]_vars => (TypeOK /\ GcInv)'
  <2> SUFFICES ASSUME TypeOK, GcInv, [Next]_vars PROVE TypeOK' /\ GcInv'
    OBVIOUS
  <2>1. TypeOK'
    BY TypeStep
  <2>2. ControlInv'
    BY ControlInvKept DEF GcInv
  <2>3. ASSUME (Selecting \/ Collecting)'
        PROVE  (PlanOnDisk /\ SelectionKept /\ LastGoodKept /\ RemovalsSpare)'
    BY <2>3, PlanOnDiskKept, SelectionKeptStays, LastGoodKeptStays, RemovalsSpareKept
  <2>4. QED
    BY <2>1, <2>2, <2>3 DEF GcInv
<1>3. QED
  BY <1>1, <1>2, PTL DEF Spec

\* In a removal by update, only the kernel being removed is discarded.
LEMMA DiscardsJob ==
  ASSUME TypeOK, GcInv, [Next]_vars, NEW k \in Kernels, Discards(k)
  PROVE  Remove /\ k = job
<1> USE DEF Discards, TypeOK, FileTypes, GcInv, ControlInv, rootfs, bootfs, disk, Installing,
            Removing
<1>1. CASE Install
  BY <1>1 DEF Install, InstallBlob, inInstall, RenameBlob, CompareEntry, Segfault,
     CreateEntry, FlushEntry, InstallFails
<1>2. CASE Remove
  BY <1>2 DEF Remove, RemoveBlob, inRemove, RemoveCmdline, RemoveKboot, RemoveSource,
     RemoveReturns, RemoveEntry
<1>3. CASE SetDefault
  BY <1>3 DEF SetDefault, CompareDefault, inDefault, Segfault, CreateDefault, FlushDefault,
     DefaultFails
<1>4. CASE Update
  BY <1>4 DEF Update, Discover, inUpdate, UpdateBootloader, CopyFreestanding, RepairRunning,
     InstallTip, InstallLastGood, ProposeRemovals, CollectNext, Cleanup
<1>5. CASE Exit
  BY <1>5 DEF Exit
<1>6. CASE Command
  BY <1>6 DEF Command, RunUpdate, SetKernel, RemoveKernel
<1>7. CASE Report
  BY <1>7 DEF Report, ReportUnlink, ReportWrite
<1>8. CASE World
  BY <1>8 DEF World, EditCmdline, PowerLoss, Kill, PkgInstall, PkgRemove, Damage
<1>9. CASE UNCHANGED vars
  BY <1>9 DEF vars
<1>10. QED
  BY <1>1, <1>2, <1>3, <1>4, <1>5, <1>6, <1>7, <1>8, <1>9 DEF Next, Process

\* A step of a removal leaves every other kernel alone (kernel.c:789-949).
LEMMA RemoveLeavesOthers ==
  ASSUME TypeOK, Remove
  PROVE  /\ src \ {job} \subseteq src' /\ cmdl \ {job} \subseteq cmdl'
         /\ kboot \ {job} \subseteq kboot' /\ UNCHANGED <<uname, rb>>
         /\ \A j \in Kernels \ {job} : esp'[j] = esp[j] /\ conf'[j] = conf[j]
BY DEF Remove, RemoveBlob, RemoveCmdline, RemoveKboot, RemoveSource, RemoveEntry, inRemove,
       machine, TypeOK, FileTypes

\* While update removes a kernel its plan protects the right ones.
LEMMA RemovalPlan ==
  ASSUME TypeOK, GcInv, Remove, op = "update"
  PROVE  /\ pc \in Removing /\ todo = {} /\ job \in snap \ (keep \cup {run})
         /\ PlanOnDisk /\ SelectionKept /\ LastGoodKept
BY DEF GcInv, ControlInv, Collecting, RemovalsSpare, Remove, RemoveBlob, RemoveCmdline,
       RemoveKboot, RemoveSource, RemoveEntry, Removing

\* For every set of kernels, links, reports, failing calls and power losses:
\* garbage collection spares the running kernel, the vendor selections and the
\* most recent booted kernel of each type, as long as no release overflows.
THEOREM UpdateSpares == ASSUME ReleasesFit PROVE Spec => GcSpares
<1>1. TypeOK /\ GcInv /\ [Next]_vars => [SparesStep]_vars
  <2> SUFFICES ASSUME TypeOK, GcInv, [Next]_vars, NEW k \in Kernels, Discards(k)
               PROVE  /\ k # uname
                      /\ k # link[KType[k]]
                      /\ k \in Booted =>
                            \E j \in Kernels \ {k} :
                                /\ j \in src' \cap cmdl' \cap Booted'
                                /\ KType[j] = KType[k] /\ KRelease[j] >= KRelease[k]
    BY DEF SparesStep
  <2>1. Remove /\ k = job /\ op = "update"
    BY DiscardsJob DEF Discards
  <2>2. /\ pc \in Removing /\ todo = {} /\ k \in snap \ (keep \cup {run})
        /\ PlanOnDisk /\ SelectionKept /\ LastGoodKept
    BY <2>1, RemovalPlan
  <2>3. k # uname
    BY <2>2 DEF PlanOnDisk
  <2>4. k # link[KType[k]]
    BY <2>2 DEF SelectionKept
  <2>5. ASSUME k \in Booted
        PROVE  \E j \in Kernels \ {k} :
                   /\ j \in src' \cap cmdl' \cap Booted'
                   /\ KType[j] = KType[k] /\ KRelease[j] >= KRelease[k]
    <3>1. k \in boots
      BY <2>2, <2>3, <2>5 DEF PlanOnDisk
    <3>2. \A j \in Kernels : Rel(j) = KRelease[j] /\ Rel(j) \in Nat
      BY RelExact
    <3>3. ~Awaiting(KType[k])
      BY <2>2 DEF Awaiting, Removing, Installing
    <3>4. PICK j \in keep \cap boots : KType[j] = KType[k] /\ Rel(j) >= Rel(k)
      BY <2>2, <3>1, <3>2, <3>3 DEF LastGoodKept
    <3>5. j \in Kernels \ {k} /\ j \in src \cap cmdl \cap Booted
      BY <2>2 DEF PlanOnDisk, AvailableKernels, TypeOK, PlanTypes
    <3>6. j \in src' \cap cmdl' \cap Booted'
      BY <2>1, <3>5, RemoveLeavesOthers DEF Booted
    <3>7. QED
      BY <3>2, <3>4, <3>5, <3>6
  <2>6. QED
    BY <2>3, <2>4, <2>5
<1>2. QED
  BY <1>1, GcInvariant, PTL DEF Spec, GcSpares

\* If no write is lost unnoticed, what update keeps is bootable.
LEMMA KeptBootableStays ==
  ASSUME "flush" \notin Faults, TypeOK, GcInv, KeptBootable, [Next]_vars
  PROVE  KeptBootable'
<1> USE DEF TypeOK, FileTypes, PlanTypes, ControlTypes, GcInv, ControlInv, KeptBootable,
            Bootable, Selecting, Collecting, rootfs, bootfs, disk, plan, lists, Fails,
            Installing, Removing
<1>1. CASE Install
  BY <1>1 DEF Install, InstallBlob, inInstall, RenameBlob, CompareEntry, Segfault,
     AfterInstall, CreateEntry, FlushEntry, InstallFails
<1>2. CASE Remove
  BY <1>2 DEF Remove, RemoveBlob, inRemove, RemoveCmdline, RemoveKboot, RemoveSource,
     RemoveReturns, RemoveEntry, RemovalsSpare
<1>3. CASE SetDefault
  BY <1>3 DEF SetDefault, CompareDefault, inDefault, DefaultDone, Segfault, CreateDefault,
     FlushDefault, DefaultFails
<1>4. CASE Update
  BY <1>4 DEF Update, Discover, inUpdate, UpdateBootloader, CopyFreestanding, RepairRunning,
     StartInstall, InstallTip, InstallLastGood, ProposeRemovals, CollectNext, Cleanup
<1>5. CASE Exit
  BY <1>5 DEF Exit, Gone
<1>6. CASE Command
  BY <1>6 DEF Command, RunUpdate, SetKernel, RemoveKernel, Launch
<1>7. CASE Report
  BY <1>7 DEF Report, ReportUnlink, ReportWrite, process
<1>8. CASE World
  BY <1>8 DEF World, EditCmdline, PowerLoss, Kill, PkgInstall, PkgRemove, Damage, Gone, process
<1>9. CASE UNCHANGED vars
  BY <1>9 DEF vars
<1>10. QED
  BY <1>1, <1>2, <1>3, <1>4, <1>5, <1>6, <1>7, <1>8, <1>9 DEF Next, Process

\* For every instance in which buffered writes are not lost: at every moment of
\* a collection, whatever failed before, a kernel of the discarded one's type is
\* bootable.
THEOREM UpdateLeavesBootable == ASSUME "flush" \notin Faults PROVE Spec => GcLeavesBootable
<1>1. Init => KeptBootable
  BY DEF Init, KeptBootable, Selecting, Collecting, Installing, Removing
<1>2. TypeOK /\ GcInv /\ KeptBootable /\ [Next]_vars => KeptBootable'
  BY KeptBootableStays
<1>3. TypeOK /\ GcInv /\ KeptBootable /\ [Next]_vars => [LeavesStep]_vars
  <2> SUFFICES ASSUME TypeOK, GcInv, KeptBootable, [Next]_vars, NEW k \in Kernels, Discards(k)
               PROVE  \E j \in Kernels \ {k} : KType[j] = KType[k] /\ Bootable(j)'
    BY DEF LeavesStep
  <2>1. Remove /\ k = job /\ op = "update"
    BY DiscardsJob DEF Discards
  <2>2. pc \in Removing /\ todo = {} /\ k \in snap \ keep /\ SelectionKept
    BY <2>1, RemovalPlan
  <2>3. PICK j \in keep : KType[j] = KType[k]
    BY <2>2 DEF SelectionKept
  <2>4. j \in Kernels \ {k} /\ Bootable(j)
    BY <2>1, <2>2 DEF KeptBootable, Collecting, Removing, Installing, TypeOK, PlanTypes
  <2>5. Bootable(j)'
    BY <2>1, <2>4, RemoveLeavesOthers DEF Bootable
  <2>6. QED
    BY <2>3, <2>4, <2>5
<1>4. QED
  BY <1>1, <1>2, <1>3, GcInvariant, PTL DEF Spec, GcLeavesBootable
=============================================================================
