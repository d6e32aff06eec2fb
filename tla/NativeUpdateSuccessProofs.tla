--------------------- MODULE NativeUpdateSuccessProofs ----------------------
(***************************************************************************)
(* What a native update that reports success has done, for every set of    *)
(* kernels: it delivers what it promises (DeliverInv), and if nothing      *)
(* disturbed it the next one only looks (IdemInv).  Both invariants carry  *)
(* along what is already done while the types are worked off.              *)
(***************************************************************************)
EXTENDS NativeUpdateProofs

-----------------------------------------------------------------------------
(* What a successful update delivers.                                      *)

\* The symlink of a type names a kernel of that type.
LinkTyped == \A t \in Types : link[t] # None => KType[link[t]] = t

\* Only an update that came to its collection reports success (update.c:322-341).
RetInv ==
    /\ pc = "idle" => ~ret
    /\ op = "update" /\ ret => pc \in Removing \cup {"gc", "cleanup", "done"}

\* Update has ended, or is about to end, with success.
Succeeding == op = "update" /\ pc \in {"cleanup", "done"} /\ ret

\* What is left of the kernels found is to be kept, runs, is to be removed, or is of
\* a type yet to be worked on (update.c:276-317, 343-351).
Accounted(k) ==
    \/ k \in keep \cup {run} \cup removals
    \/ KType[k] \in todo \/ InProgress(KType[k])
    \/ pc \in Removing /\ k = job

CollectInv == run # None => run \in src /\ \A k \in snap \cap src : Accounted(k)

\* The loader's default, on its way and when it is set; a write may be lost unnoticed.
DefaultInv ==
    /\ op = "update" /\ pc \in {"ldcreate", "ldflush"} => job = NewDefault
    /\ (Collecting \/ Succeeding) /\ NewDefault # None =>
          ldef = NewDefault \/ ("flush" \in Faults /\ disturbed)

\* A removal that comes to the loader entry has unlinked the kernel's source.
SourceGone == op = "update" /\ pc = "rm_conf" => job \notin src

\* After a collection nothing has changed of what it was made for.
EndInv == todo = {} /\ removals = {} /\ keep \subseteq src /\ SelectionKept

\* ... and what was installed is bootable, as KeptBootable says of the time before.
EndBootable == Succeeding => \A k \in keep : Bootable(k)

\* The inductive invariant behind UpdateDelivers, with GcInv: how the promise is
\* worked off along the update.
DeliverInv ==
    /\ LinkTyped /\ RetInv /\ DefaultInv /\ SourceGone
    /\ Selecting \/ Collecting \/ Succeeding => CollectInv
    /\ Succeeding => EndInv

\* The package manager moves the symlink of a type to a kernel of that type only.
LEMMA LinkTypedKept ==
  ASSUME TypeOK, LinkTyped, [Next]_vars
  PROVE  LinkTyped'
<1>1. UNCHANGED link \/ \E k \in Kernels : PkgInstall(k) \/ PkgRemove(k)
  BY DEF Next, Process, Install, InstallBlob, inInstall, RenameBlob, CompareEntry, Segfault,
     AfterInstall, CreateEntry, FlushEntry, InstallFails, Remove, RemoveBlob, inRemove,
     RemoveCmdline, RemoveKboot, RemoveSource, RemoveReturns, RemoveEntry, SetDefault,
     CompareDefault, inDefault, DefaultDone, DefaultTarget, Segfault, CreateDefault,
     FlushDefault, DefaultFails, Update, Discover, inUpdate, UpdateBootloader,
     CopyFreestanding, RepairRunning, StartInstall, InstallTip, InstallLastGood,
     ProposeRemovals, CollectNext, Cleanup, Exit, Gone, Command, RunUpdate, Launch,
     SetKernel, Event, RemoveKernel, Report, ReportUnlink, process, Event, ReportWrite,
     World, EditCmdline, process, Event, PowerLoss, Gone, Kill, PkgInstall, PkgRemove,
     Damage, vars, rootfs, disk, Steady, Fails
<1>2. CASE UNCHANGED link
  BY <1>2 DEF LinkTyped
<1>3. ASSUME NEW k \in Kernels, PkgInstall(k) PROVE LinkTyped'
  BY <1>3 DEF PkgInstall, LinkTyped, TypeOK, FileTypes, Types
<1>4. ASSUME NEW k \in Kernels, PkgRemove(k) PROVE LinkTyped'
  BY <1>4 DEF PkgRemove, LinkTyped
<1>5. QED
  BY <1>1, <1>2, <1>3, <1>4

\* Success is reported by an update that came to its collection only.
LEMMA RetInvKept ==
  ASSUME TypeOK, ControlInv, RetInv, [Next]_vars
  PROVE  RetInv'
<1> USE DEF TypeOK, FlagTypes, ControlTypes, ControlInv, RetInv, lists, plan, machine, disk,
       rootfs, bootfs, Steady, Fails, Installing, Removing
<1>1. CASE Install
  BY <1>1 DEF Install, InstallBlob, inInstall, RenameBlob, CompareEntry, Segfault,
     AfterInstall, CreateEntry, FlushEntry, InstallFails
<1>2. CASE Remove
  BY <1>2 DEF Remove, RemoveBlob, inRemove, RemoveCmdline, RemoveKboot, RemoveSource,
     RemoveReturns, RemoveEntry
<1>3. CASE SetDefault
  BY <1>3 DEF SetDefault, CompareDefault, inDefault, DefaultDone, DefaultTarget, Segfault,
     CreateDefault, FlushDefault, DefaultFails
<1>4. CASE Update
  BY <1>4 DEF Update, Discover, inUpdate, UpdateBootloader, CopyFreestanding, RepairRunning,
     StartInstall, InstallTip, InstallLastGood, ProposeRemovals, CollectNext, Cleanup
<1>5. CASE Exit
  BY <1>5 DEF Exit, Gone
<1>6. CASE Command
  BY <1>6 DEF Command, RunUpdate, Launch, SetKernel, Event, RemoveKernel
<1>7. CASE Report
  BY <1>7 DEF Report, ReportUnlink, process, Event, ReportWrite
<1>8. CASE World
  BY <1>8 DEF World, EditCmdline, process, Event, PowerLoss, Gone, Kill, PkgInstall,
     PkgRemove, Damage
<1>9. CASE UNCHANGED vars
  BY <1>9 DEF vars
<1>10. QED
  BY <1>1, <1>2, <1>3, <1>4, <1>5, <1>6, <1>7, <1>8, <1>9 DEF Next, Process

\* From the discovery to its successful end nothing changes what an update goes by.
LEMMA UnderwayToEnd ==
  ASSUME TypeOK, ControlInv, RetInv, [Next]_vars, (Selecting \/ Collecting \/ Succeeding)'
  PROVE  \/ Discover /\ Selecting'
         \/ /\ Selecting \/ Collecting \/ Succeeding
            /\ UNCHANGED <<uname, link, snap, boots, run>>
<1> USE DEF TypeOK, FlagTypes, ControlTypes, ControlInv, RetInv, Selecting, Collecting,
       Succeeding, lists, plan, machine, disk, rootfs, bootfs, Steady, Fails, Installing,
       Removing
<1>1. CASE Install
  BY <1>1 DEF Install, InstallBlob, inInstall, RenameBlob, CompareEntry, Segfault,
     AfterInstall, CreateEntry, FlushEntry, InstallFails
<1>2. CASE Remove
  BY <1>2 DEF Remove, RemoveBlob, inRemove, RemoveCmdline, RemoveKboot, RemoveSource,
     RemoveReturns, RemoveEntry
<1>3. CASE SetDefault
  BY <1>3 DEF SetDefault, CompareDefault, inDefault, DefaultDone, DefaultTarget, Segfault,
     CreateDefault, FlushDefault, DefaultFails
<1>4. CASE Update
  <2>1. CASE Discover
    BY <2>1 DEF Discover, inUpdate
  <2>2. CASE UpdateBootloader
    BY <2>2 DEF UpdateBootloader, inUpdate
  <2>3. CASE CopyFreestanding
    BY <2>3 DEF CopyFreestanding, inUpdate
  <2>4. CASE RepairRunning
    BY <2>4 DEF RepairRunning, inUpdate, StartInstall
  <2>5. CASE InstallTip
    BY <2>5 DEF InstallTip, inUpdate, StartInstall
  <2>6. CASE InstallLastGood
    BY <2>6 DEF InstallLastGood, inUpdate, StartInstall
  <2>7. CASE ProposeRemovals
    BY <2>7 DEF ProposeRemovals, inUpdate
  <2>8. CASE CollectNext
    BY <2>8 DEF CollectNext, inUpdate
  <2>9. CASE Cleanup
    BY <2>9 DEF Cleanup, inUpdate
  <2>10. QED
    BY <2>1, <2>2, <2>3, <2>4, <2>5, <2>6, <2>7, <2>8, <2>9, <1>4 DEF Update
<1>5. CASE Exit
  BY <1>5 DEF Exit, Gone
<1>6. CASE Command
  BY <1>6 DEF Command, RunUpdate, Launch, SetKernel, Event, RemoveKernel
<1>7. CASE Report
  BY <1>7 DEF Report, ReportUnlink, process, Event, ReportWrite
<1>8. CASE World
  BY <1>8 DEF World, EditCmdline, process, Event, PowerLoss, Gone, Kill, PkgInstall,
     PkgRemove, Damage
<1>9. CASE UNCHANGED vars
  BY <1>9 DEF vars
<1>10. QED
  BY <1>1, <1>2, <1>3, <1>4, <1>5, <1>6, <1>7, <1>8, <1>9 DEF Next, Process

\* The default of the running type is what loader.conf names when it is written, and
\* stays that to the end.
LEMMA DefaultInvKept ==
  ASSUME TypeOK, ControlInv, RetInv, DefaultInv, [Next]_vars
  PROVE  DefaultInv'
<1> SUFFICES ASSUME (Selecting \/ Collecting \/ Succeeding)' PROVE DefaultInv'
  BY DEF DefaultInv, Selecting
<1>1. CASE Discover /\ Selecting'
  BY <1>1 DEF Discover, DefaultInv, Selecting, Collecting, Succeeding, Installing, Removing
<1>2. CASE /\ Selecting \/ Collecting \/ Succeeding
           /\ UNCHANGED <<uname, link, snap, boots, run>>
  <2>1. NewDefault' = NewDefault
    BY <1>2 DEF NewDefault, DefaultForType
  <2> USE DEF TypeOK, FlagTypes, ControlTypes, ControlInv, RetInv, DefaultInv, Selecting,
             Collecting, Succeeding, lists, plan, machine, disk, rootfs, bootfs, Steady,
             Fails, Installing, Removing
  <2>2. CASE Install
    BY <2>1, <2>2 DEF Install, InstallBlob, inInstall, RenameBlob, CompareEntry, Segfault,
       AfterInstall, CreateEntry, FlushEntry, InstallFails
  <2>3. CASE Remove
    BY <2>1, <2>3 DEF Remove, RemoveBlob, inRemove, RemoveCmdline, RemoveKboot, RemoveSource,
       RemoveReturns, RemoveEntry
  <2>4. CASE SetDefault
    <3>1. CASE CompareDefault
      BY <2>1, <3>1 DEF CompareDefault, inDefault, DefaultDone, DefaultTarget, Segfault
    <3>2. CASE CreateDefault
      BY <2>1, <3>2 DEF CreateDefault, inDefault
    <3>3. CASE FlushDefault
      BY <2>1, <3>3 DEF FlushDefault, inDefault, DefaultDone
    <3>4. CASE DefaultFails
      BY <2>1, <3>4 DEF DefaultFails, inDefault, DefaultDone, DefaultTarget
    <3>5. QED
      BY <2>1, <3>1, <3>2, <3>3, <3>4, <2>4 DEF SetDefault
  <2>5. CASE Update
    <3>1. CASE Discover
      BY <2>1, <3>1 DEF Discover, inUpdate
    <3>2. CASE UpdateBootloader
      BY <2>1, <3>2 DEF UpdateBootloader, inUpdate
    <3>3. CASE CopyFreestanding
      BY <2>1, <3>3 DEF CopyFreestanding, inUpdate
    <3>4. CASE RepairRunning
      BY <2>1, <3>4 DEF RepairRunning, inUpdate, StartInstall
    <3>5. CASE InstallTip
      BY <2>1, <3>5 DEF InstallTip, inUpdate, StartInstall
    <3>6. CASE InstallLastGood
      BY <2>1, <3>6 DEF InstallLastGood, inUpdate, StartInstall
    <3>7. CASE ProposeRemovals
      BY <2>1, <3>7 DEF ProposeRemovals, inUpdate
    <3>8. CASE CollectNext
      BY <2>1, <3>8 DEF CollectNext, inUpdate
    <3>9. CASE Cleanup
      BY <2>1, <3>9 DEF Cleanup, inUpdate
    <3>10. QED
      BY <2>1, <3>1, <3>2, <3>3, <3>4, <3>5, <3>6, <3>7, <3>8, <3>9, <2>5 DEF Update
  <2>6. CASE Exit
    BY <2>1, <2>6 DEF Exit, Gone
  <2>7. CASE Command
    BY <2>1, <2>7 DEF Command, RunUpdate, Launch, SetKernel, Event, RemoveKernel
  <2>8. CASE Report
    BY <2>1, <2>8 DEF Report, ReportUnlink, process, Event, ReportWrite
  <2>9. CASE World
    BY <2>1, <2>9 DEF World, EditCmdline, process, Event, PowerLoss, Gone, Kill, PkgInstall,
       PkgRemove, Damage
  <2>10. CASE UNCHANGED vars
    BY <2>1, <2>10 DEF vars
  <2>11. QED
    BY <2>1, <2>2, <2>3, <2>4, <2>5, <2>6, <2>7, <2>8, <2>9, <2>10 DEF Next, Process
<1>3. QED
  BY <1>1, <1>2, UnderwayToEnd

\* A removal in a collection has unlinked the kernel's source when it comes to the entry.
LEMMA SourceGoneKept ==
  ASSUME TypeOK, ControlInv, SourceGone, [Next]_vars
  PROVE  SourceGone'
<1> USE DEF TypeOK, ControlTypes, ControlInv, SourceGone, lists, plan, machine, disk,
       rootfs, bootfs, Steady, Fails, Installing, Removing
<1>1. CASE Install
  BY <1>1 DEF Install, InstallBlob, inInstall, RenameBlob, CompareEntry, Segfault,
     AfterInstall, CreateEntry, FlushEntry, InstallFails
<1>2. CASE Remove
  BY <1>2 DEF Remove, RemoveBlob, inRemove, RemoveCmdline, RemoveKboot, RemoveSource,
     RemoveReturns, RemoveEntry
<1>3. CASE SetDefault
  BY <1>3 DEF SetDefault, CompareDefault, inDefault, DefaultDone, DefaultTarget, Segfault,
     CreateDefault, FlushDefault, DefaultFails
<1>4. CASE Update
  BY <1>4 DEF Update, Discover, inUpdate, UpdateBootloader, CopyFreestanding, RepairRunning,
     StartInstall, InstallTip, InstallLastGood, ProposeRemovals, CollectNext, Cleanup
<1>5. CASE Exit
  BY <1>5 DEF Exit, Gone
<1>6. CASE Command
  BY <1>6 DEF Command, RunUpdate, Launch, SetKernel, Event, RemoveKernel
<1>7. CASE Report
  BY <1>7 DEF Report, ReportUnlink, process, Event, ReportWrite
<1>8. CASE World
  BY <1>8 DEF World, EditCmdline, process, Event, PowerLoss, Gone, Kill, PkgInstall,
     PkgRemove, Damage
<1>9. CASE UNCHANGED vars
  BY <1>9 DEF vars
<1>10. QED
  BY <1>1, <1>2, <1>3, <1>4, <1>5, <1>6, <1>7, <1>8, <1>9 DEF Next, Process

\* No kernel is left out of account on the way to the collection and along it.
LEMMA CollectInvKept ==
  ASSUME TypeOK, GcInv, DeliverInv, [Next]_vars, (Selecting \/ Collecting \/ Succeeding)'
  PROVE  CollectInv'
<1>1. CASE Discover /\ Selecting'
  <2>1. /\ snap' = AvailableKernels /\ todo' = {KType[k] : k \in AvailableKernels}
        /\ run' \in RunningKernels(AvailableKernels) \cup {None} /\ src' = src
    BY <1>1 DEF Discover, inUpdate, disk, rootfs, Selecting, Installing
  <2>2. run' \in AvailableKernels \cup {None}
    BY <2>1, RunningKnown
  <2>3. QED
    BY <2>1, <2>2 DEF CollectInv, Accounted, AvailableKernels
<1>2. CASE /\ Selecting \/ Collecting \/ Succeeding
           /\ UNCHANGED <<uname, link, snap, boots, run>>
  <2> SUFFICES ASSUME run # None, CollectInv
               PROVE  run \in src' /\ \A k \in snap \cap src' : Accounted(k)'
    BY <1>2 DEF CollectInv, DeliverInv
  <2> USE DEF TypeOK, FlagTypes, FileTypes, PlanTypes, ControlTypes, GcInv, ControlInv,
             DeliverInv, RetInv, SourceGone, RemovalsSpare, CollectInv, Accounted,
             InProgress, Selecting, Collecting, Succeeding, lists, plan, machine, disk,
             rootfs, bootfs, Steady, Fails, Installing, Removing
  <2>1. CASE Install
    <3>1. CASE InstallBlob
      BY <1>2, <3>1 DEF InstallBlob, inInstall
    <3>2. CASE RenameBlob
      BY <1>2, <3>2 DEF RenameBlob, inInstall
    <3>3. CASE CompareEntry
      BY <1>2, <3>3 DEF CompareEntry, inInstall, Segfault, AfterInstall
    <3>4. CASE CreateEntry
      BY <1>2, <3>4 DEF CreateEntry, inInstall
    <3>5. CASE FlushEntry
      BY <1>2, <3>5 DEF FlushEntry, inInstall, AfterInstall
    <3>6. CASE InstallFails
      BY <1>2, <3>6 DEF InstallFails, inInstall, AfterInstall
    <3>7. QED
      BY <1>2, <3>1, <3>2, <3>3, <3>4, <3>5, <3>6, <2>1 DEF Install
  <2>2. CASE Remove
    <3>1. CASE RemoveBlob
      BY <1>2, <3>1 DEF RemoveBlob, inRemove
    <3>2. CASE RemoveCmdline
      BY <1>2, <3>2 DEF RemoveCmdline, inRemove
    <3>3. CASE RemoveKboot
      BY <1>2, <3>3 DEF RemoveKboot, inRemove
    <3>4. CASE RemoveSource
      BY <1>2, <3>4 DEF RemoveSource, inRemove, RemoveReturns
    <3>5. CASE RemoveEntry
      BY <1>2, <3>5 DEF RemoveEntry, inRemove, RemoveReturns
    <3>6. QED
      BY <1>2, <3>1, <3>2, <3>3, <3>4, <3>5, <2>2 DEF Remove
  <2>3. CASE SetDefault
    <3>1. CASE CompareDefault
      BY <1>2, <3>1 DEF CompareDefault, inDefault, DefaultDone, DefaultTarget, Segfault
    <3>2. CASE CreateDefault
      BY <1>2, <3>2 DEF CreateDefault, inDefault
    <3>3. CASE FlushDefault
      BY <1>2, <3>3 DEF FlushDefault, inDefault, DefaultDone
    <3>4. CASE DefaultFails
      BY <1>2, <3>4 DEF DefaultFails, inDefault, DefaultDone, DefaultTarget
    <3>5. QED
      BY <1>2, <3>1, <3>2, <3>3, <3>4, <2>3 DEF SetDefault
  <2>4. CASE Update
    <3>1. CASE Discover
      BY <1>2, <3>1 DEF Discover, inUpdate
    <3>2. CASE UpdateBootloader
      BY <1>2, <3>2 DEF UpdateBootloader, inUpdate
    <3>3. CASE CopyFreestanding
      BY <1>2, <3>3 DEF CopyFreestanding, inUpdate
    <3>4. CASE RepairRunning
      BY <1>2, <3>4 DEF RepairRunning, inUpdate, StartInstall
    <3>5. CASE InstallTip
      BY SelectionKnown, <3>5 DEF InstallTip, inUpdate, StartInstall, OfType
    <3>6. CASE InstallLastGood
      BY SelectionKnown, <3>6 DEF InstallLastGood, inUpdate, StartInstall, OfType
    <3>7. CASE ProposeRemovals
      BY <1>2, <3>7 DEF ProposeRemovals, inUpdate, Unprotected, OfType
    <3>8. CASE CollectNext
      BY <1>2, <3>8 DEF CollectNext, inUpdate, Highest, OfType
    <3>9. CASE Cleanup
      BY <1>2, <3>9 DEF Cleanup, inUpdate
    <3>10. QED
      BY <1>2, <3>1, <3>2, <3>3, <3>4, <3>5, <3>6, <3>7, <3>8, <3>9, <2>4 DEF Update
  <2>5. CASE Exit
    BY <1>2, <2>5 DEF Exit, Gone
  <2>6. CASE Command
    BY <1>2, <2>6 DEF Command, RunUpdate, Launch, SetKernel, Event, RemoveKernel
  <2>7. CASE Report
    BY <1>2, <2>7 DEF Report, ReportUnlink, process, Event, ReportWrite
  <2>8. CASE World
    BY <1>2, <2>8 DEF World, EditCmdline, process, Event, PowerLoss, Gone, Kill, PkgInstall,
       PkgRemove, Damage
  <2>9. CASE UNCHANGED vars
    BY <1>2, <2>9 DEF vars
  <2>10. QED
    BY <1>2, <2>1, <2>2, <2>3, <2>4, <2>5, <2>6, <2>7, <2>8, <2>9 DEF Next, Process
<1>3. QED
  BY <1>1, <1>2, UnderwayToEnd DEF GcInv, DeliverInv

\* What the collection ends with stays so until the process exits.
LEMMA EndInvKept ==
  ASSUME TypeOK, GcInv, DeliverInv, [Next]_vars, Succeeding'
  PROVE  EndInv'
<1> USE UnderwayToEnd
<1> USE DEF TypeOK, FlagTypes, FileTypes, PlanTypes, ControlTypes, GcInv, ControlInv,
       DeliverInv, RetInv, PlanOnDisk, AvailableKernels, SelectionKept, EndInv, Selecting,
       Collecting, Succeeding, lists, plan, machine, disk, rootfs, bootfs, Steady, Fails,
       Installing, Removing
<1>1. CASE Install
  BY <1>1 DEF Install, InstallBlob, inInstall, RenameBlob, CompareEntry, Segfault,
     AfterInstall, CreateEntry, FlushEntry, InstallFails
<1>2. CASE Remove
  <2>1. CASE RemoveBlob
    BY <2>1 DEF RemoveBlob, inRemove
  <2>2. CASE RemoveCmdline
    BY <2>2 DEF RemoveCmdline, inRemove
  <2>3. CASE RemoveKboot
    BY <2>3 DEF RemoveKboot, inRemove
  <2>4. CASE RemoveSource
    BY <2>4 DEF RemoveSource, inRemove, RemoveReturns
  <2>5. CASE RemoveEntry
    BY <2>5 DEF RemoveEntry, inRemove, RemoveReturns
  <2>6. QED
    BY <2>1, <2>2, <2>3, <2>4, <2>5, <1>2 DEF Remove
<1>3. CASE SetDefault
  <2>1. CASE CompareDefault
    BY <2>1 DEF CompareDefault, inDefault, DefaultDone, DefaultTarget, Segfault
  <2>2. CASE CreateDefault
    BY <2>2 DEF CreateDefault, inDefault
  <2>3. CASE FlushDefault
    BY <2>3 DEF FlushDefault, inDefault, DefaultDone
  <2>4. CASE DefaultFails
    BY <2>4 DEF DefaultFails, inDefault, DefaultDone, DefaultTarget
  <2>5. QED
    BY <2>1, <2>2, <2>3, <2>4, <1>3 DEF SetDefault
<1>4. CASE Update
  <2>1. CASE Discover
    BY <2>1 DEF Discover, inUpdate
  <2>2. CASE UpdateBootloader
    BY <2>2 DEF UpdateBootloader, inUpdate
  <2>3. CASE CopyFreestanding
    BY <2>3 DEF CopyFreestanding, inUpdate
  <2>4. CASE RepairRunning
    BY <2>4 DEF RepairRunning, inUpdate, StartInstall
  <2>5. CASE InstallTip
    BY <2>5 DEF InstallTip, inUpdate, StartInstall
  <2>6. CASE InstallLastGood
    BY <2>6 DEF InstallLastGood, inUpdate, StartInstall
  <2>7. CASE ProposeRemovals
    BY <2>7 DEF ProposeRemovals, inUpdate
  <2>8. CASE CollectNext
    BY <2>8 DEF CollectNext, inUpdate
  <2>9. CASE Cleanup
    BY <2>9 DEF Cleanup, inUpdate
  <2>10. QED
    BY <2>1, <2>2, <2>3, <2>4, <2>5, <2>6, <2>7, <2>8, <2>9, <1>4 DEF Update
<1>5. CASE Exit
  BY <1>5 DEF Exit, Gone
<1>6. CASE Command
  BY <1>6 DEF Command, RunUpdate, Launch, SetKernel, Event, RemoveKernel
<1>7. CASE Report
  BY <1>7 DEF Report, ReportUnlink, process, Event, ReportWrite
<1>8. CASE World
  BY <1>8 DEF World, EditCmdline, process, Event, PowerLoss, Gone, Kill, PkgInstall,
     PkgRemove, Damage
<1>9. CASE UNCHANGED vars
  BY <1>9 DEF vars
<1>10. QED
  BY <1>1, <1>2, <1>3, <1>4, <1>5, <1>6, <1>7, <1>8, <1>9 DEF Next, Process

\* ... and so does what it has made bootable.
LEMMA EndBootableKept ==
  ASSUME TypeOK, GcInv, DeliverInv, KeptBootable, EndBootable, [Next]_vars
  PROVE  EndBootable'
<1> SUFFICES ASSUME Succeeding' PROVE \A k \in keep' : Bootable(k)'
  BY DEF EndBootable
<1> USE DEF TypeOK, FlagTypes, FileTypes, PlanTypes, ControlTypes, GcInv, ControlInv,
       DeliverInv, RetInv, KeptBootable, EndBootable, Bootable, Selecting, Collecting,
       Succeeding, lists, plan, machine, disk, rootfs, bootfs, Steady, Fails, Installing,
       Removing
<1>1. CASE Install
  BY <1>1 DEF Install, InstallBlob, inInstall, RenameBlob, CompareEntry, Segfault,
     AfterInstall, CreateEntry, FlushEntry, InstallFails
<1>2. CASE Remove
  <2>1. CASE RemoveBlob
    BY <2>1 DEF RemoveBlob, inRemove
  <2>2. CASE RemoveCmdline
    BY <2>2 DEF RemoveCmdline, inRemove
  <2>3. CASE RemoveKboot
    BY <2>3 DEF RemoveKboot, inRemove
  <2>4. CASE RemoveSource
    BY <2>4 DEF RemoveSource, inRemove, RemoveReturns
  <2>5. CASE RemoveEntry
    BY <2>5 DEF RemoveEntry, inRemove, RemoveReturns
  <2>6. QED
    BY <2>1, <2>2, <2>3, <2>4, <2>5, <1>2 DEF Remove
<1>3. CASE SetDefault
  <2>1. CASE CompareDefault
    BY <2>1 DEF CompareDefault, inDefault, DefaultDone, DefaultTarget, Segfault
  <2>2. CASE CreateDefault
    BY <2>2 DEF CreateDefault, inDefault
  <2>3. CASE FlushDefault
    BY <2>3 DEF FlushDefault, inDefault, DefaultDone
  <2>4. CASE DefaultFails
    BY <2>4 DEF DefaultFails, inDefault, DefaultDone, DefaultTarget
  <2>5. QED
    BY <2>1, <2>2, <2>3, <2>4, <1>3 DEF SetDefault
<1>4. CASE Update
  <2>1. CASE Discover
    BY <2>1 DEF Discover, inUpdate
  <2>2. CASE UpdateBootloader
    BY <2>2 DEF UpdateBootloader, inUpdate
  <2>3. CASE CopyFreestanding
    BY <2>3 DEF CopyFreestanding, inUpdate
  <2>4. CASE RepairRunning
    BY <2>4 DEF RepairRunning, inUpdate, StartInstall
  <2>5. CASE InstallTip
    BY <2>5 DEF InstallTip, inUpdate, StartInstall
  <2>6. CASE InstallLastGood
    BY <2>6 DEF InstallLastGood, inUpdate, StartInstall
  <2>7. CASE ProposeRemovals
    BY <2>7 DEF ProposeRemovals, inUpdate
  <2>8. CASE CollectNext
    BY <2>8 DEF CollectNext, inUpdate
  <2>9. CASE Cleanup
    BY <2>9 DEF Cleanup, inUpdate
  <2>10. QED
    BY <2>1, <2>2, <2>3, <2>4, <2>5, <2>6, <2>7, <2>8, <2>9, <1>4 DEF Update
<1>5. CASE Exit
  BY <1>5 DEF Exit, Gone
<1>6. CASE Command
  BY <1>6 DEF Command, RunUpdate, Launch, SetKernel, Event, RemoveKernel
<1>7. CASE Report
  BY <1>7 DEF Report, ReportUnlink, process, Event, ReportWrite
<1>8. CASE World
  BY <1>8 DEF World, EditCmdline, process, Event, PowerLoss, Gone, Kill, PkgInstall,
     PkgRemove, Damage
<1>9. CASE UNCHANGED vars
  BY <1>9 DEF vars
<1>10. QED
  BY <1>1, <1>2, <1>3, <1>4, <1>5, <1>6, <1>7, <1>8, <1>9 DEF Next, Process

\* Every behaviour keeps the invariant behind what a successful update delivers.
THEOREM DeliverInvariant == Spec => [](TypeOK /\ GcInv /\ DeliverInv)
<1>1. Init => DeliverInv
  <2>1. Init => LinkTyped /\ RetInv
    BY DEF Init, LinkTyped, RetInv
  <2>2. Init => DefaultInv /\ SourceGone /\ ~Selecting /\ ~Collecting /\ ~Succeeding
    BY DEF Init, DefaultInv, SourceGone, Selecting, Collecting, Succeeding
  <2>3. QED
    BY <2>1, <2>2 DEF DeliverInv
<1>2. TypeOK /\ GcInv /\ DeliverInv /\ [Next]_vars => DeliverInv'
  <2> SUFFICES ASSUME TypeOK, GcInv, DeliverInv, [Next]_vars PROVE DeliverInv'
    OBVIOUS
  <2>1. LinkTyped' /\ RetInv' /\ DefaultInv' /\ SourceGone'
    BY LinkTypedKept, RetInvKept, DefaultInvKept, SourceGoneKept DEF GcInv, DeliverInv
  <2>2. (Selecting \/ Collecting \/ Succeeding)' => CollectInv'
    BY CollectInvKept
  <2>3. Succeeding' => EndInv'
    BY EndInvKept
  <2>4. QED
    BY <2>1, <2>2, <2>3 DEF DeliverInv
<1>3. QED
  BY <1>1, <1>2, GcInvariant, PTL DEF Spec

\* If no write is lost unnoticed, what is kept is bootable, to the end of the update.
LEMMA BootableInvariant ==
  ASSUME "flush" \notin Faults
  PROVE  Spec => [](KeptBootable /\ EndBootable)
<1>1. Init => KeptBootable /\ EndBootable
  BY DEF Init, KeptBootable, EndBootable, Succeeding, Selecting, Collecting, Installing, Removing
<1>2. TypeOK /\ GcInv /\ DeliverInv /\ (KeptBootable /\ EndBootable) /\ [Next]_vars
          => (KeptBootable /\ EndBootable)'
  BY KeptBootableStays, EndBootableKept
<1>3. QED
  BY <1>1, <1>2, DeliverInvariant, PTL DEF Spec

\* If no write is lost unnoticed, what update has decided to keep is bootable or being
\* installed, whatever failed or was interrupted before.
THEOREM KeptStaysBootable == ASSUME "flush" \notin Faults PROVE Spec => []KeptBootable
BY BootableInvariant, PTL

\* The default of the running type is a kernel that update keeps, once every type is
\* worked off.
LEMMA DefaultKept ==
  ASSUME TypeOK, LinkTyped, SelectionKept, todo = {}, NewDefault # None
  PROVE  NewDefault \in keep
<1>1. run # None => run \in Kernels
  BY DEF TypeOK, PlanTypes
<1>2. uname # None => uname \in Kernels
  BY DEF TypeOK, MachineTypes
<1>3. PICK t \in Types : NewDefault = link[t] /\ link[t] \in snap
  BY <1>1, <1>2 DEF NewDefault, DefaultForType, Types
<1>4. KType[link[t]] = t
  BY <1>3 DEF LinkTyped
<1>5. QED
  BY <1>3, <1>4 DEF SelectionKept

\* For every set of kernels, links, reports, failing calls and power losses before: a
\* native update that reports success has installed the vendor selections, keeps a
\* kernel of every type, has set the loader's default to a bootable kernel and left
\* no other kernel, as long as no write is lost unnoticed.
THEOREM SuccessDelivers == ASSUME "flush" \notin Faults PROVE Spec => []UpdateDelivers
<1>1. TypeOK /\ DeliverInv /\ EndBootable => UpdateDelivers
  <2> SUFFICES ASSUME TypeOK, DeliverInv, EndBootable, pc = "done", op = "update", ret
               PROVE  /\ \A k \in keep : Bootable(k)
                      /\ \A k \in snap : \E j \in keep : KType[j] = KType[k]
                      /\ \A t \in Types : link[t] \in snap => link[t] \in keep
                      /\ NewDefault # None => ldef = NewDefault /\ Bootable(ldef)
                      /\ run # None => snap \cap src = keep \cup {run}
    BY DEF UpdateDelivers
  <2>1. EndInv /\ CollectInv /\ LinkTyped /\ (NewDefault # None => ldef = NewDefault)
    BY DEF DeliverInv, DefaultInv, Succeeding
  <2>2. \A k \in snap : \E j \in keep : KType[j] = KType[k]
    BY <2>1 DEF EndInv, SelectionKept
  <2>3. ASSUME NEW t \in Types, link[t] \in snap PROVE link[t] \in keep
    <3>1. link[t] # None
      BY <2>3, KernelAssumption DEF TypeOK, PlanTypes
    <3>2. KType[link[t]] = t
      BY <2>1, <3>1 DEF LinkTyped
    <3>3. QED
      BY <2>1, <2>3, <3>2 DEF EndInv, SelectionKept
  <2>4. \A k \in keep : Bootable(k)
    BY DEF EndBootable, Succeeding
  <2>5. ASSUME run # None PROVE snap \cap src = keep \cup {run}
    <3>1. \A k \in snap \cap src : k \in keep \cup {run}
      BY <2>1, <2>5 DEF CollectInv, Accounted, EndInv, InProgress, Installing, Removing
    <3>2. keep \subseteq snap /\ keep \subseteq src /\ run \in snap /\ run \in src
      BY <2>1, <2>5 DEF CollectInv, EndInv, TypeOK, PlanTypes
    <3>3. QED
      BY <3>1, <3>2
  <2>6. QED
    BY <2>1, <2>2, <2>3, <2>4, <2>5, DefaultKept DEF EndInv
<1>2. QED
  BY <1>1, DeliverInvariant, BootableInvariant, PTL

\* If no write is lost unnoticed, update switches loader.conf to a kernel only when
\* that kernel is bootable (update.c:322-334).
THEOREM SwitchesToBootable ==
  ASSUME "flush" \notin Faults
  PROVE  Spec => DefaultSwitchedToBootable
<1> DEFINE Switched ==
             \A k \in Kernels : op = "update" /\ ldef # k /\ ldef' = k => Bootable(k)'
<1>1. TypeOK /\ GcInv /\ KeptBootable /\ DeliverInv /\ [Next]_vars => [Switched]_vars
  <2> SUFFICES ASSUME TypeOK, GcInv, KeptBootable, DeliverInv, [Next]_vars, NEW k \in Kernels,
                      op = "update", ldef # k, ldef' = k
               PROVE  Bootable(k)'
    OBVIOUS
  <2>1. FlushDefault /\ k = job
    <3> USE KernelAssumption DEF rootfs, bootfs, disk, GcInv, ControlInv
    <3>1. CASE SetDefault
      BY <3>1 DEF SetDefault, CompareDefault, inDefault, Segfault, CreateDefault,
         FlushDefault, DefaultFails
    <3>2. CASE Install \/ Remove \/ Update
      BY <3>2 DEF Install, InstallBlob, inInstall, RenameBlob, CompareEntry, Segfault,
         CreateEntry, FlushEntry, InstallFails, Remove, RemoveBlob, inRemove, RemoveCmdline,
         RemoveKboot, RemoveSource, RemoveEntry, Update, Discover, inUpdate, UpdateBootloader,
         CopyFreestanding, RepairRunning, InstallTip, InstallLastGood, ProposeRemovals,
         CollectNext, Cleanup
    <3>3. CASE Exit \/ Command \/ Report \/ World \/ UNCHANGED vars
      BY <3>3 DEF Exit, Command, RunUpdate, SetKernel, RemoveKernel, Report, ReportUnlink,
         ReportWrite, World, EditCmdline, PowerLoss, Kill, PkgInstall, PkgRemove, Damage, vars
    <3>4. QED
      BY <3>1, <3>2, <3>3 DEF Next, Process
  <2>2. pc = "ldflush" /\ Selecting /\ todo = {} /\ SelectionKept
    BY <2>1 DEF FlushDefault, Selecting, GcInv, ControlInv
  <2>3. k = NewDefault /\ NewDefault # None
    BY <2>1, <2>2, KernelAssumption DEF DeliverInv, DefaultInv
  <2>4. k \in keep
    BY <2>2, <2>3, DefaultKept DEF DeliverInv
  <2>5. Bootable(k)
    BY <2>2, <2>4 DEF KeptBootable, Installing
  <2>6. UNCHANGED <<esp, conf>>
    BY <2>1 DEF FlushDefault, inDefault
  <2>7. QED
    BY <2>5, <2>6 DEF Bootable
<1>2. Spec => [][Switched]_vars
  BY <1>1, DeliverInvariant, BootableInvariant, PTL DEF Spec
<1>3. QED
  BY <1>2 DEF DefaultSwitchedToBootable

-----------------------------------------------------------------------------
(* A second update has nothing to do.                                      *)

\* Within a type the release number tells kernels apart. (Otherwise the order in
\* which two of the same release are sorted decides which one is the tip.)
ReleasesDiffer ==
    \A j, k \in Kernels : KType[j] = KType[k] /\ Rel(j) = Rel(k) => j = k

Good(k) == esp[k] = "good" /\ conf[k] = "good"

\* What update would choose as the tip and as the last good kernel of type t from the
\* kernels S and those of them that boot, B, and set as the default.
TipsOf(S, t) == IF link[t] \in OfType(S, t) THEN {link[t]} ELSE Highest(OfType(S, t))
LastOf(B, t) == Highest({k \in OfType(B, t) : Rel(k) >= -1})
Chosen(S, B) == {k \in S : k \in TipsOf(S, KType[k]) \cup LastOf(B, KType[k])}
DefaultOf(S) == IF uname = None THEN None ELSE DefaultForType(S, KType[uname])

\* The disk is as update wants it: what it would choose is installed, there is nothing
\* to collect, and the default is set.
Settled ==
    LET R == RunningKernels(AvailableKernels)
        C == Chosen(AvailableKernels, AvailableKernels \cap kboot)
    IN /\ \A k \in R \cup C : Good(k)
       /\ R # {} => AvailableKernels \subseteq R \cup C
       /\ DefaultOf(AvailableKernels) \in {None, ldef}

\* The running kernel is the one of the array that fits uname.
RunInv == RunningKernels(snap) = {run} \ {None}

\* Every type worked off keeps its tip and its last good kernel, and nothing else is
\* kept.
ChoiceInv ==
    /\ \A k \in snap : KType[k] \notin todo =>
          /\ \E j \in keep : TipsOf(snap, KType[k]) = {j}
          /\ LastOf(boots, KType[k]) \subseteq keep \/ Awaiting(KType[k])
    /\ keep \subseteq Chosen(snap, boots)

\* While nothing disturbs it, what update has dealt with is installed, or being so.
InstalledInv ==
    /\ pc \in {"entry", "create", "flush"} => esp[job] = "good"
    /\ \A k \in keep \cup {run} :
          \/ k = None \/ Good(k) \/ (pc \in Installing /\ job = k)
          \/ k \notin keep /\ pc \in {"loader", "freestanding", "repair"}

\* ... and the disk is the one the arrays were read from, less what is collected.
StillInv ==
    /\ AvailableKernels \subseteq snap /\ AvailableKernels \cap kboot \subseteq boots
    /\ keep \subseteq AvailableKernels /\ keep \cap boots \subseteq kboot
    /\ Selecting => boots \subseteq kboot
    /\ run \in AvailableKernels \cup {None}

\* After an undisturbed success, and with no change since, update only looks.
CleanInv ==
    /\ Settled /\ op \in {"none", "update"}
    /\ pc \notin Removing \cup {"rename", "create", "flush", "ldcreate", "ldflush"}
    /\ pc \in Installing => Good(job)
    /\ Selecting \/ Collecting =>
          snap = AvailableKernels /\ boots = AvailableKernels \cap kboot /\ removals = {}

\* The inductive invariant behind Idempotent, with GcInv and DeliverInv.
IdemInv ==
    /\ Selecting \/ Collecting \/ Succeeding =>
          RunInv /\ ChoiceInv /\ (~disturbed => InstalledInv /\ StillInv)
    /\ clean => CleanInv

\* A highest kernel of a type is the only one.
LEMMA OneHighest ==
  ASSUME ReleasesDiffer, NEW S, S \subseteq Kernels, NEW t, \A k \in S : KType[k] = t,
         NEW j \in Highest(S), NEW k \in Highest(S)
  PROVE  j = k
<1>1. j \in Kernels /\ k \in Kernels /\ KType[j] = KType[k] /\ Rel(j) <= Rel(k) /\ Rel(k) <= Rel(j)
  BY DEF Highest
<1>2. Rel(j) = Rel(k)
  BY <1>1, RelType
<1>3. QED
  BY <1>1, <1>2 DEF ReleasesDiffer

\* ... so that a type has at most one tip and one last good kernel.
LEMMA OneChoice ==
  ASSUME ReleasesDiffer, NEW S, S \subseteq Kernels, NEW t
  PROVE  /\ \A j, k \in TipsOf(S, t) : j = k
         /\ \A j, k \in LastOf(S, t) : j = k
         /\ TipsOf(S, t) \subseteq OfType(S, t) /\ LastOf(S, t) \subseteq OfType(S, t)
<1>1. OfType(S, t) \subseteq Kernels /\ \A k \in OfType(S, t) : KType[k] = t
  BY DEF OfType
<1>2. \A j, k \in Highest(OfType(S, t)) : j = k
  BY <1>1, OneHighest
<1>3. \A j, k \in Highest({h \in OfType(S, t) : Rel(h) >= -1}) : j = k
  BY <1>1, OneHighest
<1>4. QED
  BY <1>2, <1>3 DEF TipsOf, LastOf, Highest

\* The running kernel is found by its release alone.
LEMMA RunningOne ==
  ASSUME ReleasesDiffer, TypeOK, NEW S, S \subseteq Kernels
  PROVE  RunningKernels(S) = S \cap {uname}
<1>1. None \notin S
  BY KernelAssumption
<1>2. CASE uname = None
  BY <1>1, <1>2 DEF RunningKernels
<1>3. CASE uname # None
  <2>1. uname \in Kernels
    BY <1>3 DEF TypeOK, MachineTypes
  <2>2. {k \in S : uname # None /\ KType[k] = KType[uname] /\ Rel(k) = Rel(uname)} = S \cap {uname}
    BY <1>3, <2>1 DEF ReleasesDiffer
  <2>3. QED
    BY <2>2 DEF RunningKernels
<1>4. QED
  BY <1>2, <1>3

\* What update chooses is what TipsOf and LastOf say of its arrays.
LEMMA ChoicesAgree ==
  ASSUME TypeOK, NEW t
  PROVE  Tips(t) = TipsOf(snap, t) /\ LastBooted(OfType(snap, t)) = LastOf(boots, t)
<1>1. None \notin snap /\ boots \subseteq snap
  BY KernelAssumption DEF TypeOK, PlanTypes
<1>2. Tips(t) = TipsOf(snap, t)
  BY <1>1 DEF Tips, TipsOf, DefaultForType, OfType
<1>3. {k \in OfType(snap, t) : k \in boots /\ Rel(k) >= -1} = {k \in OfType(boots, t) : Rel(k) >= -1}
  BY <1>1 DEF OfType
<1>4. QED
  BY <1>2, <1>3 DEF LastBooted, LastOf

\* The default update sets is that of the type of uname.
LEMMA DefaultAgrees ==
  ASSUME ReleasesDiffer, TypeOK, RunInv
  PROVE  NewDefault = DefaultOf(snap)
<1>1. snap \subseteq Kernels /\ None \notin Kernels
  BY KernelAssumption DEF TypeOK, PlanTypes
<1>2. snap \cap {uname} = {run} \ {None}
  BY <1>1, RunningOne DEF RunInv
<1>3. run # None => run = uname
  BY <1>2
<1>4. QED
  BY <1>3 DEF NewDefault, DefaultOf

\* The running kernel stays the one that fits.
LEMMA RunInvKept ==
  ASSUME ReleasesDiffer, TypeOK, GcInv, DeliverInv, [Next]_vars,
         Selecting \/ Collecting \/ Succeeding => RunInv,
         (Selecting \/ Collecting \/ Succeeding)'
  PROVE  RunInv'
<1>1. CASE Discover /\ Selecting'
  <2>1. AvailableKernels \subseteq Kernels /\ None \notin Kernels
    BY KernelAssumption DEF AvailableKernels, TypeOK, FileTypes
  <2>2. RunningKernels(AvailableKernels) = AvailableKernels \cap {uname}
    BY <2>1, RunningOne
  <2>3. /\ snap' = AvailableKernels /\ uname' = uname
        /\ IF AvailableKernels \cap {uname} = {} THEN run' = None ELSE run' = uname
    BY <1>1, <2>2 DEF Discover, inUpdate, machine, Selecting, Installing
  <2>4. RunningKernels(snap)' = RunningKernels(AvailableKernels)
    BY <2>3 DEF RunningKernels
  <2>5. QED
    BY <2>1, <2>2, <2>3, <2>4 DEF RunInv
<1>2. CASE /\ Selecting \/ Collecting \/ Succeeding
           /\ UNCHANGED <<uname, link, snap, boots, run>>
  BY <1>2 DEF RunInv, RunningKernels
<1>3. QED
  BY <1>1, <1>2, UnderwayToEnd DEF GcInv, DeliverInv

\* What is kept stays what TipsOf and LastOf choose from the arrays.
LEMMA ChoiceInvKept ==
  ASSUME ReleasesDiffer, TypeOK, GcInv, DeliverInv, [Next]_vars,
         Selecting \/ Collecting \/ Succeeding => ChoiceInv,
         (Selecting \/ Collecting \/ Succeeding)'
  PROVE  ChoiceInv'
<1>1. CASE Discover /\ Selecting'
  <2>1. keep' = {}
    BY <1>1, ControlInvKept DEF GcInv, Discover, Selecting, ControlInv, Installing
  <2>2. \A k \in snap' : KType[k] \in todo'
    BY <1>1 DEF Discover
  <2>3. QED
    BY <2>1, <2>2 DEF ChoiceInv
<1>2. CASE /\ Selecting \/ Collecting \/ Succeeding
           /\ UNCHANGED <<uname, link, snap, boots, run>>
  <2> DEFINE tips(t) == TipsOf(snap, t)
             last(t) == LastOf(boots, t)
             chosen == Chosen(snap, boots)
  <2>1. (\A t : (TipsOf(snap, t)' = tips(t) /\ LastOf(boots, t)' = last(t)))
        /\ Chosen(snap, boots)' = chosen
    BY <1>2 DEF TipsOf, LastOf, Chosen
  <2>2. snap \subseteq Kernels /\ boots \subseteq snap
    BY DEF TypeOK, PlanTypes
  <2>3. \A t : (\A j, k \in tips(t) : j = k) /\ (\A j, k \in last(t) : j = k)
    BY <2>2, OneChoice
  <2>4. \A t : (\A k \in tips(t) \cup last(t) : k \in snap /\ KType[k] = t /\ k \in chosen)
    BY <2>2, OneChoice DEF OfType, Chosen
  <2>5. \A t : Tips(t) = tips(t) /\ LastBooted(OfType(snap, t)) = last(t)
    BY ChoicesAgree
  <2>6. SUFFICES ASSUME \A k \in snap : KType[k] \notin todo =>
                           /\ \E j \in keep : tips(KType[k]) = {j}
                           /\ last(KType[k]) \subseteq keep \/ Awaiting(KType[k]),
                        keep \subseteq chosen
                 PROVE  /\ \A k \in snap : KType[k] \notin todo' =>
                              /\ \E j \in keep' : tips(KType[k]) = {j}
                              /\ last(KType[k]) \subseteq keep' \/ Awaiting(KType[k])'
                        /\ keep' \subseteq chosen
    BY <1>2, <2>1 DEF ChoiceInv
  <2> HIDE DEF tips, last, chosen
  <2> USE DEF TypeOK, FlagTypes, PlanTypes, ControlTypes, GcInv, ControlInv, DeliverInv,
             RetInv, Awaiting, Selecting, Collecting, Succeeding, lists, plan, machine,
             disk, rootfs, bootfs, Steady, Fails, Installing, Removing
  <2>7. CASE Install
    <3>1. CASE InstallBlob
      BY <1>2, <2>6, <3>1 DEF InstallBlob, inInstall
    <3>2. CASE RenameBlob
      BY <1>2, <2>6, <3>2 DEF RenameBlob, inInstall
    <3>3. CASE CompareEntry
      BY <1>2, <2>6, <3>3 DEF CompareEntry, inInstall, Segfault, AfterInstall
    <3>4. CASE CreateEntry
      BY <1>2, <2>6, <3>4 DEF CreateEntry, inInstall
    <3>5. CASE FlushEntry
      BY <1>2, <2>6, <3>5 DEF FlushEntry, inInstall, AfterInstall
    <3>6. CASE InstallFails
      BY <1>2, <2>6, <3>6 DEF InstallFails, inInstall, AfterInstall
    <3>7. QED
      BY <3>1, <3>2, <3>3, <3>4, <3>5, <3>6, <2>7 DEF Install
  <2>8. CASE Remove
    <3>1. CASE RemoveBlob
      BY <1>2, <2>6, <3>1 DEF RemoveBlob, inRemove
    <3>2. CASE RemoveCmdline
      BY <1>2, <2>6, <3>2 DEF RemoveCmdline, inRemove
    <3>3. CASE RemoveKboot
      BY <1>2, <2>6, <3>3 DEF RemoveKboot, inRemove
    <3>4. CASE RemoveSource
      BY <1>2, <2>6, <3>4 DEF RemoveSource, inRemove, RemoveReturns
    <3>5. CASE RemoveEntry
      BY <1>2, <2>6, <3>5 DEF RemoveEntry, inRemove, RemoveReturns
    <3>6. QED
      BY <3>1, <3>2, <3>3, <3>4, <3>5, <2>8 DEF Remove
  <2>9. CASE SetDefault
    <3>1. CASE CompareDefault
      BY <1>2, <2>6, <3>1 DEF CompareDefault, inDefault, DefaultDone, DefaultTarget, Segfault
    <3>2. CASE CreateDefault
      BY <1>2, <2>6, <3>2 DEF CreateDefault, inDefault
    <3>3. CASE FlushDefault
      BY <1>2, <2>6, <3>3 DEF FlushDefault, inDefault, DefaultDone
    <3>4. CASE DefaultFails
      BY <1>2, <2>6, <3>4 DEF DefaultFails, inDefault, DefaultDone, DefaultTarget
    <3>5. QED
      BY <3>1, <3>2, <3>3, <3>4, <2>9 DEF SetDefault
  <2>10. CASE Update
    <3>1. CASE Discover
      BY <1>2, <2>6, <3>1 DEF Discover, inUpdate
    <3>2. CASE UpdateBootloader
      BY <1>2, <2>6, <3>2 DEF UpdateBootloader, inUpdate
    <3>3. CASE CopyFreestanding
      BY <1>2, <2>6, <3>3 DEF CopyFreestanding, inUpdate
    <3>4. CASE RepairRunning
      BY <1>2, <2>6, <3>4 DEF RepairRunning, inUpdate, StartInstall
    <3>5. CASE InstallTip
      <4>1. PICK t \in todo : \E k \in Tips(t) :
               StartInstall(k, "tip") /\ keep' = keep \cup {k} /\ todo' = todo \ {t}
        BY <1>2, <2>6, <3>5 DEF InstallTip
      <4>2. PICK k \in tips(t) :
               StartInstall(k, "tip") /\ keep' = keep \cup {k} /\ todo' = todo \ {t}
        BY <4>1, <2>5
      <4>3. tips(t) = {k} /\ KType[k] = t /\ k \in chosen
        BY <4>2, <2>3, <2>4
      <4>4. Awaiting(t)'
        BY <4>2, <4>3 DEF StartInstall
      <4>5. \A u : Awaiting(u) => Awaiting(u)'
        BY <1>2, <2>6, <3>5 DEF InstallTip
      <4>6. QED
        BY <4>2, <4>3, <4>4, <4>5, <2>6
    <3>6. CASE InstallLastGood
      <4> DEFINE t == KType[job]
      <4>1. pc = "lastgood" /\ todo' = todo /\ job \in snap /\ t \notin todo
        BY <1>2, <2>6, <3>6 DEF InstallLastGood
      <4>2. \A u : Awaiting(u) => u = t
        OBVIOUS
      <4>3. CASE last(t) = {}
        BY <3>6, <4>1, <4>2, <4>3, <2>5, <2>6 DEF InstallLastGood
      <4>4. CASE last(t) # {}
        <5>1. PICK k \in last(t) : keep' = keep \cup {k}
          BY <3>6, <4>4, <2>5 DEF InstallLastGood
        <5>2. last(t) = {k} /\ k \in chosen
          BY <5>1, <2>3, <2>4
        <5>3. QED
          BY <4>1, <4>2, <5>1, <5>2, <2>6
      <4>5. QED
        BY <4>3, <4>4
    <3>7. CASE ProposeRemovals
      BY <1>2, <2>6, <3>7 DEF ProposeRemovals, inUpdate
    <3>8. CASE CollectNext
      BY <1>2, <2>6, <3>8 DEF CollectNext, inUpdate
    <3>9. CASE Cleanup
      BY <1>2, <2>6, <3>9 DEF Cleanup, inUpdate
    <3>10. QED
      BY <3>1, <3>2, <3>3, <3>4, <3>5, <3>6, <3>7, <3>8, <3>9, <2>10 DEF Update
  <2>11. CASE Exit
    BY <1>2, <2>6, <2>11 DEF Exit, Gone
  <2>12. CASE Command
    BY <1>2, <2>6, <2>12 DEF Command, RunUpdate, Launch, SetKernel, Event, RemoveKernel
  <2>13. CASE Report
    BY <1>2, <2>6, <2>13 DEF Report, ReportUnlink, process, Event, ReportWrite
  <2>14. CASE World
    BY <1>2, <2>6, <2>14 DEF World, EditCmdline, process, Event, PowerLoss, Gone, Kill, PkgInstall,
       PkgRemove, Damage
  <2>15. CASE UNCHANGED vars
    BY <1>2, <2>6, <2>15 DEF vars
  <2>16. QED
    BY <2>7, <2>8, <2>9, <2>10, <2>11, <2>12, <2>13, <2>14, <2>15 DEF Next, Process
<1>3. QED
  BY <1>1, <1>2, UnderwayToEnd DEF GcInv, DeliverInv

\* While nothing disturbs the update, what it has dealt with stays installed.
LEMMA InstalledInvKept ==
  ASSUME TypeOK, GcInv, DeliverInv, [Next]_vars,
         (Selecting \/ Collecting \/ Succeeding) /\ ~disturbed => InstalledInv,
         (Selecting \/ Collecting \/ Succeeding)', ~disturbed'
  PROVE  InstalledInv'
<1>1. CASE Discover /\ Selecting'
  <2>1. pc' = "loader" /\ keep' = {}
    BY <1>1, ControlInvKept DEF GcInv, Discover, Selecting, ControlInv, Installing
  <2>2. QED
    BY <2>1 DEF InstalledInv
<1>2. CASE /\ Selecting \/ Collecting \/ Succeeding
           /\ UNCHANGED <<uname, link, snap, boots, run>>
  <2>1. SUFFICES ASSUME ~disturbed => InstalledInv PROVE InstalledInv'
    BY <1>2
  <2> USE DEF TypeOK, FlagTypes, FileTypes, PlanTypes, ControlTypes, GcInv, ControlInv,
             DeliverInv, RetInv, RemovalsSpare, InstalledInv, Good, Selecting, Collecting,
             Succeeding, lists, plan, machine, disk, rootfs, bootfs, Steady, Fails,
             Installing, Removing
  <2>2. CASE Install
    <3>1. CASE InstallBlob
      BY <1>2, <2>1, <3>1 DEF InstallBlob, inInstall
    <3>2. CASE RenameBlob
      BY <1>2, <2>1, <3>2 DEF RenameBlob, inInstall
    <3>3. CASE CompareEntry
      BY <1>2, <2>1, <3>3 DEF CompareEntry, inInstall, Segfault, AfterInstall
    <3>4. CASE CreateEntry
      BY <1>2, <2>1, <3>4 DEF CreateEntry, inInstall
    <3>5. CASE FlushEntry
      BY <1>2, <2>1, <3>5 DEF FlushEntry, inInstall, AfterInstall
    <3>6. CASE InstallFails
      BY <1>2, <2>1, <3>6 DEF InstallFails, inInstall, AfterInstall
    <3>7. QED
      BY <3>1, <3>2, <3>3, <3>4, <3>5, <3>6, <2>2 DEF Install
  <2>3. CASE Remove
    <3>1. CASE RemoveBlob
      BY <1>2, <2>1, <3>1 DEF RemoveBlob, inRemove
    <3>2. CASE RemoveCmdline
      BY <1>2, <2>1, <3>2 DEF RemoveCmdline, inRemove
    <3>3. CASE RemoveKboot
      BY <1>2, <2>1, <3>3 DEF RemoveKboot, inRemove
    <3>4. CASE RemoveSource
      BY <1>2, <2>1, <3>4 DEF RemoveSource, inRemove, RemoveReturns
    <3>5. CASE RemoveEntry
      BY <1>2, <2>1, <3>5 DEF RemoveEntry, inRemove, RemoveReturns
    <3>6. QED
      BY <3>1, <3>2, <3>3, <3>4, <3>5, <2>3 DEF Remove
  <2>4. CASE SetDefault
    <3>1. CASE CompareDefault
      BY <1>2, <2>1, <3>1 DEF CompareDefault, inDefault, DefaultDone, DefaultTarget, Segfault
    <3>2. CASE CreateDefault
      BY <1>2, <2>1, <3>2 DEF CreateDefault, inDefault
    <3>3. CASE FlushDefault
      BY <1>2, <2>1, <3>3 DEF FlushDefault, inDefault, DefaultDone
    <3>4. CASE DefaultFails
      BY <1>2, <2>1, <3>4 DEF DefaultFails, inDefault, DefaultDone, DefaultTarget
    <3>5. QED
      BY <3>1, <3>2, <3>3, <3>4, <2>4 DEF SetDefault
  <2>5. CASE Update
    <3>1. CASE Discover
      BY <1>2, <2>1, <3>1 DEF Discover, inUpdate
    <3>2. CASE UpdateBootloader
      BY <1>2, <2>1, <3>2 DEF UpdateBootloader, inUpdate
    <3>3. CASE CopyFreestanding
      BY <1>2, <2>1, <3>3 DEF CopyFreestanding, inUpdate
    <3>4. CASE RepairRunning
      BY <1>2, <2>1, <3>4 DEF RepairRunning, inUpdate, StartInstall
    <3>5. CASE InstallTip
      BY <1>2, <2>1, <3>5 DEF InstallTip, inUpdate, StartInstall
    <3>6. CASE InstallLastGood
      BY <1>2, <2>1, <3>6 DEF InstallLastGood, inUpdate, StartInstall
    <3>7. CASE ProposeRemovals
      BY <1>2, <2>1, <3>7 DEF ProposeRemovals, inUpdate
    <3>8. CASE CollectNext
      BY <1>2, <2>1, <3>8 DEF CollectNext, inUpdate
    <3>9. CASE Cleanup
      BY <1>2, <2>1, <3>9 DEF Cleanup, inUpdate
    <3>10. QED
      BY <3>1, <3>2, <3>3, <3>4, <3>5, <3>6, <3>7, <3>8, <3>9, <2>5 DEF Update
  <2>6. CASE Exit
    BY <1>2, <2>1, <2>6 DEF Exit, Gone
  <2>7. CASE Command
    BY <1>2, <2>1, <2>7 DEF Command, RunUpdate, Launch, SetKernel, Event, RemoveKernel
  <2>8. CASE Report
    BY <1>2, <2>1, <2>8 DEF Report, ReportUnlink, process, Event, ReportWrite
  <2>9. CASE World
    BY <1>2, <2>1, <2>9 DEF World, EditCmdline, process, Event, PowerLoss, Gone, Kill, PkgInstall,
       PkgRemove, Damage
  <2>10. CASE UNCHANGED vars
    BY <1>2, <2>1, <2>10 DEF vars
  <2>11. QED
    BY <2>2, <2>3, <2>4, <2>5, <2>6, <2>7, <2>8, <2>9, <2>10 DEF Next, Process
<1>3. QED
  BY <1>1, <1>2, UnderwayToEnd DEF GcInv, DeliverInv

\* ... and the directories change by its own removals only.
LEMMA StillInvKept ==
  ASSUME TypeOK, GcInv, DeliverInv, [Next]_vars,
         (Selecting \/ Collecting \/ Succeeding) /\ ~disturbed => StillInv,
         (Selecting \/ Collecting \/ Succeeding)', ~disturbed'
  PROVE  StillInv'
<1>1. CASE Discover /\ Selecting'
  <2>1. /\ keep' = {} /\ snap' = AvailableKernels /\ boots' = AvailableKernels \cap kboot
        /\ UNCHANGED <<src, cmdl, kboot>>
    BY <1>1, ControlInvKept DEF GcInv, Discover, Selecting, ControlInv, Installing, inUpdate,
       disk, rootfs
  <2>2. run' \in AvailableKernels \cup {None}
    BY <1>1, RunningKnown DEF Discover, Selecting, Installing
  <2>3. QED
    BY <2>1, <2>2 DEF StillInv, AvailableKernels
<1>2. CASE /\ Selecting \/ Collecting \/ Succeeding
           /\ UNCHANGED <<uname, link, snap, boots, run>>
  <2>1. SUFFICES ASSUME ~disturbed => StillInv PROVE StillInv'
    BY <1>2
  <2> USE DEF TypeOK, FlagTypes, FileTypes, PlanTypes, ControlTypes, GcInv, ControlInv,
             DeliverInv, RetInv, RemovalsSpare, PlanOnDisk, StillInv, AvailableKernels,
             Selecting, Collecting, Succeeding, lists, plan, machine, disk, rootfs, bootfs,
             Steady, Fails, Installing, Removing
  <2>2. CASE Install
    <3>1. CASE InstallBlob
      BY <1>2, <2>1, <3>1 DEF InstallBlob, inInstall
    <3>2. CASE RenameBlob
      BY <1>2, <2>1, <3>2 DEF RenameBlob, inInstall
    <3>3. CASE CompareEntry
      BY <1>2, <2>1, <3>3 DEF CompareEntry, inInstall, Segfault, AfterInstall
    <3>4. CASE CreateEntry
      BY <1>2, <2>1, <3>4 DEF CreateEntry, inInstall
    <3>5. CASE FlushEntry
      BY <1>2, <2>1, <3>5 DEF FlushEntry, inInstall, AfterInstall
    <3>6. CASE InstallFails
      BY <1>2, <2>1, <3>6 DEF InstallFails, inInstall, AfterInstall
    <3>7. QED
      BY <3>1, <3>2, <3>3, <3>4, <3>5, <3>6, <2>2 DEF Install
  <2>3. CASE Remove
    <3>1. CASE RemoveBlob
      BY <1>2, <2>1, <3>1 DEF RemoveBlob, inRemove
    <3>2. CASE RemoveCmdline
      BY <1>2, <2>1, <3>2 DEF RemoveCmdline, inRemove
    <3>3. CASE RemoveKboot
      BY <1>2, <2>1, <3>3 DEF RemoveKboot, inRemove
    <3>4. CASE RemoveSource
      BY <1>2, <2>1, <3>4 DEF RemoveSource, inRemove, RemoveReturns
    <3>5. CASE RemoveEntry
      BY <1>2, <2>1, <3>5 DEF RemoveEntry, inRemove, RemoveReturns
    <3>6. QED
      BY <3>1, <3>2, <3>3, <3>4, <3>5, <2>3 DEF Remove
  <2>4. CASE SetDefault
    <3>1. CASE CompareDefault
      BY <1>2, <2>1, <3>1 DEF CompareDefault, inDefault, DefaultDone, DefaultTarget, Segfault
    <3>2. CASE CreateDefault
      BY <1>2, <2>1, <3>2 DEF CreateDefault, inDefault
    <3>3. CASE FlushDefault
      BY <1>2, <2>1, <3>3 DEF FlushDefault, inDefault, DefaultDone
    <3>4. CASE DefaultFails
      BY <1>2, <2>1, <3>4 DEF DefaultFails, inDefault, DefaultDone, DefaultTarget
    <3>5. QED
      BY <3>1, <3>2, <3>3, <3>4, <2>4 DEF SetDefault
  <2>5. CASE Update
    <3>1. CASE Discover
      BY <1>2, <2>1, <3>1 DEF Discover, inUpdate
    <3>2. CASE UpdateBootloader
      BY <1>2, <2>1, <3>2 DEF UpdateBootloader, inUpdate
    <3>3. CASE CopyFreestanding
      BY <1>2, <2>1, <3>3 DEF CopyFreestanding, inUpdate
    <3>4. CASE RepairRunning
      BY <1>2, <2>1, <3>4 DEF RepairRunning, inUpdate, StartInstall
    <3>5. CASE InstallTip
      BY SelectionKnown, <1>2, <2>1, <3>5 DEF InstallTip, inUpdate, StartInstall, OfType
    <3>6. CASE InstallLastGood
      BY SelectionKnown, <1>2, <2>1, <3>6 DEF InstallLastGood, inUpdate, StartInstall, OfType
    <3>7. CASE ProposeRemovals
      BY <1>2, <2>1, <3>7 DEF ProposeRemovals, inUpdate
    <3>8. CASE CollectNext
      BY <1>2, <2>1, <3>8 DEF CollectNext, inUpdate
    <3>9. CASE Cleanup
      BY <1>2, <2>1, <3>9 DEF Cleanup, inUpdate
    <3>10. QED
      BY <3>1, <3>2, <3>3, <3>4, <3>5, <3>6, <3>7, <3>8, <3>9, <2>5 DEF Update
  <2>6. CASE Exit
    BY <1>2, <2>1, <2>6 DEF Exit, Gone
  <2>7. CASE Command
    BY <1>2, <2>1, <2>7 DEF Command, RunUpdate, Launch, SetKernel, Event, RemoveKernel
  <2>8. CASE Report
    BY <1>2, <2>1, <2>8 DEF Report, ReportUnlink, process, Event, ReportWrite
  <2>9. CASE World
    BY <1>2, <2>1, <2>9 DEF World, EditCmdline, process, Event, PowerLoss, Gone, Kill, PkgInstall,
       PkgRemove, Damage
  <2>10. CASE UNCHANGED vars
    BY <1>2, <2>1, <2>10 DEF vars
  <2>11. QED
    BY <2>2, <2>3, <2>4, <2>5, <2>6, <2>7, <2>8, <2>9, <2>10 DEF Next, Process
<1>3. QED
  BY <1>1, <1>2, UnderwayToEnd DEF GcInv, DeliverInv

\* An update that was not disturbed and succeeds leaves the disk as the next one wants
\* it: from what is left it would choose the same kernels again.
LEMMA SuccessSettles ==
  ASSUME ReleasesDiffer, TypeOK, DeliverInv, RunInv, ChoiceInv, InstalledInv, StillInv,
         Succeeding, ~disturbed
  PROVE  Settled
<1> DEFINE A == AvailableKernels
           B == AvailableKernels \cap kboot
<1>1. /\ snap \subseteq Kernels /\ boots \subseteq snap /\ None \notin Kernels
      /\ A \subseteq snap /\ B \subseteq boots /\ keep \subseteq A /\ keep \cap boots \subseteq B
      /\ run \in A \cup {None}
  BY KernelAssumption DEF TypeOK, PlanTypes, StillInv
<1>2. EndInv /\ CollectInv /\ LinkTyped
  BY DEF DeliverInv
<1>3. RunningKernels(A) = {run} \ {None}
  <2>1. RunningKernels(A) = A \cap {uname} /\ RunningKernels(snap) = snap \cap {uname}
    BY <1>1, RunningOne
  <2>2. QED
    BY <1>1, <2>1 DEF RunInv
<1>4. \A k \in snap : \E j \in keep : TipsOf(snap, KType[k]) = {j}
  BY <1>2 DEF ChoiceInv, EndInv
<1>5. \A k \in snap : LastOf(boots, KType[k]) \subseteq keep
  BY <1>2 DEF ChoiceInv, EndInv, Awaiting, Succeeding, Installing
<1>6. \A j, k \in Kernels : Rel(j) \in Int /\ Rel(k) \in Int
  BY RelType
<1> HIDE DEF A, B
<1>7. ASSUME NEW k \in A PROVE TipsOf(A, KType[k]) = TipsOf(snap, KType[k])
  <2> DEFINE t == KType[k]
  <2>1. PICK j \in keep : TipsOf(snap, t) = {j}
    BY <1>1, <1>4
  <2>2. j \in OfType(snap, t) /\ j \in OfType(A, t) /\ OfType(A, t) \subseteq OfType(snap, t)
    BY <1>1, <2>1, OneChoice DEF OfType
  <2>3. CASE link[t] \in OfType(snap, t)
    BY <2>1, <2>2, <2>3 DEF TipsOf
  <2>4. CASE link[t] \notin OfType(snap, t)
    <3>1. j \in Highest(OfType(snap, t))
      BY <2>1, <2>4 DEF TipsOf
    <3>2. j \in Highest(OfType(A, t))
      BY <2>2, <3>1 DEF Highest
    <3>3. j \in TipsOf(A, t)
      BY <2>2, <2>4, <3>2 DEF TipsOf
    <3>4. \A h \in TipsOf(A, t) : h = j
      BY <1>1, <3>3, OneChoice
    <3>5. QED
      BY <2>1, <3>3, <3>4
  <2>5. QED
    BY <2>3, <2>4
<1>8. ASSUME NEW k \in A PROVE LastOf(B, KType[k]) = LastOf(boots, KType[k])
  <2> DEFINE t == KType[k]
             C(S) == {h \in OfType(S, t) : Rel(h) >= -1}
  <2>1. \A h \in LastOf(boots, t) : h \in keep /\ h \in C(boots) /\ h \in boots
    BY <1>1, <1>5 DEF LastOf, Highest, OfType
  <2>2. C(B) \subseteq C(boots)
    BY <1>1 DEF OfType
  <2>3. ASSUME NEW h \in LastOf(boots, t) PROVE h \in LastOf(B, t)
    <3>1. h \in C(B)
      BY <1>1, <2>1, <2>3 DEF OfType
    <3>2. QED
      BY <2>2, <2>3, <3>1 DEF LastOf, Highest
  <2>4. ASSUME NEW g \in LastOf(B, t) PROVE g \in LastOf(boots, t)
    <3>1. g \in C(B) /\ g \in C(boots) /\ g \in boots /\ g \in OfType(snap, t)
      BY <1>1, <2>2, <2>4 DEF LastOf, Highest, OfType
    <3>2. LastBooted(OfType(snap, t)) # {}
      <4>1. OfType(snap, t) \subseteq Kernels /\ g \in OfType(snap, t) \cap boots /\ Rel(g) >= -1
        BY <1>1, <3>1 DEF OfType
      <4>2. QED
        BY <4>1, LastBootedHighest
    <3>3. PICK h \in LastOf(boots, t) : TRUE
      BY <3>2, ChoicesAgree
    <3>4. h \in LastOf(B, t)
      BY <2>3
    <3>5. B \subseteq Kernels
      BY <1>1
    <3>6. g = h
      BY <3>4, <3>5, OneChoice
    <3>7. QED
      BY <3>6
  <2>5. QED
    BY <2>3, <2>4
<1>9. ASSUME NEW k \in Chosen(A, B) PROVE k \in keep
  <2>1. k \in A /\ k \in TipsOf(snap, KType[k]) \cup LastOf(boots, KType[k])
    BY <1>7, <1>8 DEF Chosen
  <2>2. QED
    BY <1>1, <1>4, <1>5, <2>1
<1>10. ASSUME NEW k \in keep PROVE k \in Chosen(A, B)
  <2>1. k \in A /\ k \in TipsOf(snap, KType[k]) \cup LastOf(boots, KType[k])
    BY <1>1 DEF ChoiceInv, Chosen
  <2>2. QED
    BY <1>7, <1>8, <2>1 DEF Chosen
<1>11. \A k \in ({run} \ {None}) \cup Chosen(A, B) : Good(k)
  <2>1. \A k \in keep \cup {run} : k = None \/ Good(k)
    BY DEF InstalledInv, Succeeding, Installing
  <2>2. None \notin keep
    BY <1>1
  <2>3. QED
    BY <1>9, <2>1, <2>2
<1>12. run # None => A \subseteq {run} \cup Chosen(A, B)
  <2> SUFFICES ASSUME run # None, NEW k \in A PROVE k \in {run} \cup Chosen(A, B)
    OBVIOUS
  <2>1. k \in snap \cap src
    BY <1>1 DEF A, AvailableKernels
  <2>2. k \in keep \cup {run}
    BY <1>2, <2>1 DEF CollectInv, Accounted, EndInv, InProgress, Succeeding, Installing, Removing
  <2>3. QED
    BY <1>10, <2>2
<1>13. DefaultOf(A) \in {None, ldef}
  <2>1. NewDefault = DefaultOf(snap)
    BY DefaultAgrees
  <2>2. NewDefault \in {None, ldef}
    BY DEF DeliverInv, DefaultInv
  <2>3. CASE uname = None
    BY <2>3 DEF DefaultOf
  <2>4. CASE uname # None /\ link[KType[uname]] \notin A
    BY <2>4 DEF DefaultOf, DefaultForType
  <2>5. CASE uname # None /\ link[KType[uname]] \in A
    <3>1. DefaultOf(A) = DefaultOf(snap)
      BY <1>1, <2>5 DEF DefaultOf, DefaultForType
    <3>2. QED
      BY <2>1, <2>2, <3>1
  <2>6. QED
    BY <2>3, <2>4, <2>5
<1>14. QED
  BY <1>3, <1>11, <1>12, <1>13 DEF Settled, A, B

\* What was left settled, an update only looks at.
LEMMA CleanLooks ==
  ASSUME ReleasesDiffer, TypeOK, GcInv, IdemInv, [Next]_vars, clean, clean'
  PROVE  UNCHANGED disk /\ UNCHANGED uname
<1>1. CleanInv
  BY DEF IdemInv
<1> USE DEF TypeOK, FlagTypes, ControlTypes, GcInv, ControlInv, CleanInv, Good, lists, plan,
       machine, disk, rootfs, bootfs, Steady, Fails, Installing, Removing
<1>2. CASE Install
  <2>1. CASE InstallBlob
    BY <1>1, <2>1 DEF InstallBlob, inInstall
  <2>2. CASE RenameBlob
    BY <1>1, <2>2 DEF RenameBlob, inInstall
  <2>3. CASE CompareEntry
    BY <1>1, <2>3 DEF CompareEntry, inInstall, Segfault, AfterInstall
  <2>4. CASE CreateEntry
    BY <1>1, <2>4 DEF CreateEntry, inInstall
  <2>5. CASE FlushEntry
    BY <1>1, <2>5 DEF FlushEntry, inInstall, AfterInstall
  <2>6. CASE InstallFails
    BY <1>1, <2>6 DEF InstallFails, inInstall, AfterInstall
  <2>7. QED
    BY <2>1, <2>2, <2>3, <2>4, <2>5, <2>6, <1>2 DEF Install
<1>3. CASE Remove
  BY <1>1, <1>3 DEF Remove, RemoveBlob, inRemove, RemoveCmdline, RemoveKboot, RemoveSource,
     RemoveReturns, RemoveEntry
<1>4. CASE SetDefault
  <2>1. CASE CompareDefault
    <3>1. CASE pc = "types"
      <4>1. Selecting /\ op = "update"
        BY <3>1 DEF Selecting
      <4>2. NewDefault = DefaultOf(snap) /\ snap = AvailableKernels
        BY <1>1, <4>1, DefaultAgrees DEF IdemInv
      <4>3. DefaultTarget \in {None, ldef}
        BY <1>1, <4>1, <4>2 DEF DefaultTarget, Settled
      <4>4. QED
        BY <2>1, <4>3 DEF CompareDefault, inDefault, Segfault
    <3>2. CASE pc # "types"
      BY <1>1, <2>1, <3>2 DEF CompareDefault
    <3>3. QED
      BY <3>1, <3>2
  <2>2. CASE CreateDefault
    BY <1>1, <2>2 DEF CreateDefault, inDefault
  <2>3. CASE FlushDefault
    BY <1>1, <2>3 DEF FlushDefault, inDefault, DefaultDone
  <2>4. CASE DefaultFails
    BY <1>1, <2>4 DEF DefaultFails, inDefault, DefaultDone, DefaultTarget
  <2>5. QED
    BY <2>1, <2>2, <2>3, <2>4, <1>4 DEF SetDefault
<1>5. CASE Update
  BY <1>1, <1>5 DEF Update, Discover, inUpdate, UpdateBootloader, CopyFreestanding, RepairRunning,
     StartInstall, InstallTip, InstallLastGood, ProposeRemovals, CollectNext, Cleanup
<1>6. CASE Exit
  BY <1>1, <1>6 DEF Exit, Gone
<1>7. CASE Command
  BY <1>1, <1>7 DEF Command, RunUpdate, Launch, SetKernel, Event, RemoveKernel
<1>8. CASE Report
  BY <1>1, <1>8 DEF Report, ReportUnlink, process, Event, ReportWrite
<1>9. CASE World
  BY <1>1, <1>9 DEF World, EditCmdline, process, Event, PowerLoss, Gone, Kill, PkgInstall,
     PkgRemove, Damage
<1>10. CASE UNCHANGED vars
  BY <1>1, <1>10 DEF vars
<1>11. QED
  BY <1>2, <1>3, <1>4, <1>5, <1>6, <1>7, <1>8, <1>9, <1>10 DEF Next, Process

\* ... and leaves settled.
LEMMA CleanInvKept ==
  ASSUME ReleasesDiffer, TypeOK, GcInv, DeliverInv, IdemInv, [Next]_vars, clean'
  PROVE  CleanInv'
<1>1. ASSUME Settled, UNCHANGED <<src, cmdl, kboot, link, esp, conf, ldef, uname>>
      PROVE  Settled'
  BY <1>1 DEF Settled, RunningKernels, AvailableKernels, Chosen, TipsOf, LastOf, DefaultOf,
     DefaultForType, Good
<1>2. CASE Exit
  <2>1. Succeeding /\ ~disturbed
    BY <1>2 DEF Exit, Succeeding
  <2>2. Settled
    BY <2>1, SuccessSettles DEF IdemInv
  <2>3. Settled'
    BY <1>1, <1>2, <2>2 DEF Exit, disk, rootfs, bootfs, machine
  <2>4. pc' = "idle" /\ op' = "none"
    BY <1>2 DEF Exit, Gone
  <2>5. QED
    BY <2>3, <2>4 DEF CleanInv, Selecting, Collecting, Installing, Removing
<1>3. CASE ~Exit
  <2>1. clean
    BY <1>3 DEF Next, Process, Install, InstallBlob, RenameBlob, CompareEntry, Segfault,
       CreateEntry, FlushEntry, InstallFails, Remove, RemoveBlob, RemoveCmdline, RemoveKboot,
       RemoveSource, RemoveEntry, SetDefault, CompareDefault, CreateDefault, FlushDefault,
       DefaultFails, Update, Discover, UpdateBootloader, CopyFreestanding, RepairRunning,
       InstallTip, InstallLastGood, ProposeRemovals, CollectNext, Cleanup, Command, RunUpdate,
       SetKernel, RemoveKernel, Report, ReportUnlink, ReportWrite, World, EditCmdline,
       PowerLoss, Kill, PkgInstall, PkgRemove, Damage, Event, Steady, Fails, vars
  <2>2. CleanInv
    BY <2>1 DEF IdemInv
  <2>3. UNCHANGED <<src, cmdl, kboot, link, esp, conf, ldef, uname>>
    BY <2>1, CleanLooks DEF disk, rootfs, bootfs
  <2>4. Settled' /\ Settled
    BY <1>1, <2>2, <2>3 DEF CleanInv
  <2>5. UNCHANGED AvailableKernels /\ \A k : Good(k)' = Good(k)
    BY <2>3 DEF AvailableKernels, Good
  <2>6. /\ \A k \in RunningKernels(AvailableKernels) : Good(k)
        /\ \A k \in Chosen(AvailableKernels, AvailableKernels \cap kboot) : Good(k)
    BY <2>4 DEF Settled
  <2>7. ASSUME Selecting
        PROVE  /\ run # None => Good(run)
               /\ \A t : \A k \in Tips(t) \cup LastBooted(OfType(snap, t)) :
                     Good(k) /\ k \in snap /\ KType[k] = t
    <3>1. snap = AvailableKernels /\ boots = AvailableKernels \cap kboot /\ RunInv
      BY <2>2, <2>7 DEF CleanInv, IdemInv
    <3>2. snap \subseteq Kernels /\ boots \subseteq snap
      BY DEF TypeOK, PlanTypes
    <3>3. run # None => Good(run)
      BY <2>6, <3>1 DEF RunInv
    <3>4. \A t : TipsOf(snap, t) \subseteq OfType(snap, t) /\ LastOf(boots, t) \subseteq OfType(snap, t)
      BY <3>2, OneChoice DEF OfType
    <3>5. ASSUME NEW t, NEW k \in TipsOf(snap, t) \cup LastOf(boots, t)
          PROVE  Good(k) /\ k \in snap /\ KType[k] = t
      <4>1. k \in snap /\ KType[k] = t
        BY <3>4, <3>5 DEF OfType
      <4>2. k \in Chosen(snap, boots)
        BY <3>5, <4>1 DEF Chosen
      <4>3. QED
        BY <2>6, <3>1, <4>1, <4>2
    <3>6. QED
      BY <3>3, <3>5, ChoicesAgree
  <2>8. ASSUME ProposeRemovals PROVE removals' = {}
    <3>1. /\ Selecting /\ pc = "propose" /\ snap = AvailableKernels /\ removals = {} /\ RunInv
          /\ boots = AvailableKernels \cap kboot /\ ChoiceInv /\ job \in snap
          /\ KType[job] \notin todo
      BY <2>2, <2>8 DEF ProposeRemovals, Selecting, CleanInv, IdemInv, GcInv, ControlInv
    <3>2. ASSUME run # None, NEW k \in Unprotected(KType[job]) PROVE FALSE
      <4>1. k \in snap /\ KType[k] = KType[job] /\ k # run /\ k \notin keep
        BY <3>2 DEF Unprotected, OfType
      <4>2. RunningKernels(AvailableKernels) = {run}
        BY <3>1, <3>2 DEF RunInv
      <4>3. k \in Chosen(snap, boots)
        BY <2>4, <3>1, <4>1, <4>2 DEF Settled
      <4>4. k \in TipsOf(snap, KType[k]) \cup LastOf(boots, KType[k])
        BY <4>3 DEF Chosen
      <4>5. ~Awaiting(KType[k])
        BY <3>1 DEF Awaiting, Installing
      <4>6. (\E j \in keep : TipsOf(snap, KType[k]) = {j}) /\ LastOf(boots, KType[k]) \subseteq keep
        BY <3>1, <4>1, <4>5 DEF ChoiceInv
      <4>7. QED
        BY <4>1, <4>4, <4>6
    <3>3. QED
      BY <2>8, <3>1, <3>2 DEF ProposeRemovals
  <2> SUFFICES /\ op' \in {"none", "update"}
               /\ pc' \notin Removing \cup {"rename", "create", "flush", "ldcreate", "ldflush"}
               /\ pc' \in Installing => Good(job')
               /\ (Selecting \/ Collecting)' =>
                     /\ snap' = AvailableKernels /\ boots' = AvailableKernels \cap kboot
                     /\ removals' = {}
    BY <2>3, <2>4, <2>5 DEF CleanInv, Good
  <2> HIDE DEF Good, AvailableKernels
  <2> USE DEF TypeOK, FlagTypes, PlanTypes, ControlTypes, GcInv, ControlInv, CleanInv,
             Selecting, Collecting, lists, plan, machine, disk, rootfs, bootfs, Steady,
             Fails, Installing, Removing
  <2>9. CASE Install
    <3>1. CASE InstallBlob
      <4>1. esp[job] = "good"
        BY <2>2, <3>1 DEF InstallBlob, Good
      <4>2. QED
        BY <2>2, <3>1, <4>1 DEF InstallBlob, inInstall
    <3>2. CASE RenameBlob
      BY <2>2, <2>7, <2>8, <3>2 DEF RenameBlob, inInstall
    <3>3. CASE CompareEntry
      <4>1. conf[job] = "good"
        BY <2>2, <3>3 DEF CompareEntry, Good
      <4>2. QED
        BY <2>2, <3>3, <4>1 DEF CompareEntry, inInstall, Segfault, AfterInstall
    <3>4. CASE CreateEntry
      BY <2>2, <2>7, <2>8, <3>4 DEF CreateEntry, inInstall
    <3>5. CASE FlushEntry
      BY <2>2, <2>7, <2>8, <3>5 DEF FlushEntry, inInstall, AfterInstall
    <3>6. CASE InstallFails
      BY <2>2, <2>7, <2>8, <3>6 DEF InstallFails, inInstall, AfterInstall
    <3>7. QED
      BY <3>1, <3>2, <3>3, <3>4, <3>5, <3>6, <2>9 DEF Install
  <2>10. CASE Remove
    <3>1. CASE RemoveBlob
      BY <2>2, <2>7, <2>8, <3>1 DEF RemoveBlob, inRemove
    <3>2. CASE RemoveCmdline
      BY <2>2, <2>7, <2>8, <3>2 DEF RemoveCmdline, inRemove
    <3>3. CASE RemoveKboot
      BY <2>2, <2>7, <2>8, <3>3 DEF RemoveKboot, inRemove
    <3>4. CASE RemoveSource
      BY <2>2, <2>7, <2>8, <3>4 DEF RemoveSource, inRemove, RemoveReturns
    <3>5. CASE RemoveEntry
      BY <2>2, <2>7, <2>8, <3>5 DEF RemoveEntry, inRemove, RemoveReturns
    <3>6. QED
      BY <3>1, <3>2, <3>3, <3>4, <3>5, <2>10 DEF Remove
  <2>11. CASE SetDefault
    <3>1. CASE CompareDefault
      <4>1. CASE pc = "types"
        <5>1. Selecting /\ op = "update"
          BY <4>1
        <5>2. NewDefault = DefaultOf(snap) /\ snap = AvailableKernels
          BY <2>2, <5>1, DefaultAgrees DEF IdemInv
        <5>3. DefaultTarget \in {None, ldef}
          BY <2>4, <5>1, <5>2 DEF DefaultTarget, Settled
        <5>4. QED
          BY <2>2, <3>1, <4>1, <5>3 DEF CompareDefault, inDefault, DefaultDone, Segfault
      <4>2. CASE pc # "types"
        BY <2>2, <3>1, <4>2 DEF CompareDefault
      <4>3. QED
        BY <4>1, <4>2
    <3>2. CASE CreateDefault
      BY <2>2, <2>7, <2>8, <3>2 DEF CreateDefault, inDefault
    <3>3. CASE FlushDefault
      BY <2>2, <2>7, <2>8, <3>3 DEF FlushDefault, inDefault, DefaultDone
    <3>4. CASE DefaultFails
      BY <2>2, <2>7, <2>8, <3>4 DEF DefaultFails, inDefault, DefaultDone, DefaultTarget
    <3>5. QED
      BY <3>1, <3>2, <3>3, <3>4, <2>11 DEF SetDefault
  <2>12. CASE Update
    <3>1. CASE Discover
      BY <2>2, <2>7, <2>8, <3>1 DEF Discover, inUpdate
    <3>2. CASE UpdateBootloader
      BY <2>2, <2>7, <2>8, <3>2 DEF UpdateBootloader, inUpdate
    <3>3. CASE CopyFreestanding
      BY <2>2, <2>7, <2>8, <3>3 DEF CopyFreestanding, inUpdate
    <3>4. CASE RepairRunning
      BY <2>2, <2>7, <2>8, <3>4 DEF RepairRunning, inUpdate, StartInstall
    <3>5. CASE InstallTip
      BY <2>2, <2>7, <2>8, <3>5 DEF InstallTip, inUpdate, StartInstall
    <3>6. CASE InstallLastGood
      BY <2>2, <2>7, <2>8, <3>6 DEF InstallLastGood, inUpdate, StartInstall
    <3>7. CASE ProposeRemovals
      BY <2>2, <2>7, <2>8, <3>7 DEF ProposeRemovals, inUpdate
    <3>8. CASE CollectNext
      BY <2>2, <2>7, <2>8, <3>8 DEF CollectNext, inUpdate
    <3>9. CASE Cleanup
      BY <2>2, <2>7, <2>8, <3>9 DEF Cleanup, inUpdate
    <3>10. QED
      BY <3>1, <3>2, <3>3, <3>4, <3>5, <3>6, <3>7, <3>8, <3>9, <2>12 DEF Update
  <2>13. CASE Exit
    BY <1>3, <2>13
  <2>14. CASE Command
    BY <2>2, <2>7, <2>8, <2>14 DEF Command, RunUpdate, Launch, SetKernel, Event, RemoveKernel
  <2>15. CASE Report
    BY <2>2, <2>7, <2>8, <2>15 DEF Report, ReportUnlink, process, Event, ReportWrite
  <2>16. CASE World
    BY <2>2, <2>7, <2>8, <2>16 DEF World, EditCmdline, process, Event, PowerLoss, Gone, Kill, PkgInstall,
       PkgRemove, Damage
  <2>17. CASE UNCHANGED vars
    BY <2>2, <2>7, <2>8, <2>17 DEF vars
  <2>18. QED
    BY <2>9, <2>10, <2>11, <2>12, <2>13, <2>14, <2>15, <2>16, <2>17 DEF Next, Process
<1>4. QED
  BY <1>2, <1>3

\* "clr-boot-manager will only update exactly what needs to be updated" (README): if
\* the releases of a type differ, an update after an undisturbed successful one, with no
\* change in between, writes nothing, whatever failed or was lost before those.
THEOREM UpdateIdempotent == ASSUME ReleasesDiffer PROVE Spec => Idempotent
<1>1. Init => IdemInv
  BY DEF Init, IdemInv, Selecting, Collecting, Succeeding
<1>2. TypeOK /\ GcInv /\ DeliverInv /\ IdemInv /\ [Next]_vars => IdemInv'
  <2> SUFFICES ASSUME TypeOK, GcInv, DeliverInv, IdemInv, [Next]_vars PROVE IdemInv'
    OBVIOUS
  <2>1. ASSUME (Selecting \/ Collecting \/ Succeeding)'
        PROVE  RunInv' /\ ChoiceInv' /\ (~disturbed' => InstalledInv' /\ StillInv')
    BY <2>1, RunInvKept, ChoiceInvKept, InstalledInvKept, StillInvKept DEF IdemInv
  <2>2. clean' => CleanInv'
    BY CleanInvKept
  <2>3. QED
    BY <2>1, <2>2 DEF IdemInv
<1>3. TypeOK /\ GcInv /\ IdemInv /\ [Next]_vars => [clean /\ clean' => UNCHANGED disk]_vars
  BY CleanLooks
<1>4. QED
  BY <1>1, <1>2, <1>3, DeliverInvariant, PTL DEF Spec, Idempotent
=============================================================================
