----------------------------- MODULE NativeUpdate -----------------------------
(***************************************************************************)
(* The native update of clr-boot-manager on a UEFI system with the         *)
(* systemd-boot class of loaders: boot_manager_update_native (update.c),   *)
(* the kernel discovery and the installation and removal of one kernel     *)
(* (kernel.c, bootman.c), the loader entries and loader.conf               *)
(* (systemd-class.c), and the CLI commands set-kernel, remove-kernel and   *)
(* report-booted that share its state.                                     *)
(*                                                                         *)
(* The program is sequential; every system call that changes a file the    *)
(* properties can see is a step of its own, so that a power loss, a failed *)
(* system call or the report-booted service may fall between any two.      *)
(***************************************************************************)
EXTENDS Integers, FiniteSets

CONSTANTS
    Kernels,    \* every kernel the distribution ever ships
    KType,      \* type of a kernel ("lts", "native", ...)
    KVersion,   \* its version
    KRelease,   \* its release number, as written in the file name
    Installed,  \* the kernels present, installed and booted at the start
    None,       \* a NULL Kernel*, a missing symlink, an unknown uname
    Torn,       \* loader.conf exists and is empty
    Faults,     \* which system calls may fail: subset of {"io", "flush"}
    MaxEvents   \* bound on what the world outside does to the system

Types == {KType[k] : k \in Kernels}

\* meta.release is stored through a cast to int16_t, as is the release of uname.
Rel(k) == ((KRelease[k] + 32768) % 65536) - 32768

ASSUME KernelAssumption ==
    /\ KType \in [Kernels -> Types]
    /\ KRelease \in [Kernels -> Int]
    /\ None \notin Kernels /\ Torn \notin Kernels /\ None # Torn
    /\ Installed \subseteq Kernels
    /\ MaxEvents \in Nat
    /\ Faults \subseteq {"io", "flush"}

\* A kernel is identified by type, version and (narrowed) release.
ASSUME IdentityAssumption ==
    \A j, k \in Kernels :
        KType[j] = KType[k] /\ KVersion[j] = KVersion[k] /\ Rel(j) = Rel(k) => j = k

VARIABLES
    \* the root file system
    src,        \* kernels whose blob is in /usr/lib/kernel
    cmdl,       \* kernels whose cmdline file is there
    kboot,      \* kernels with a k_booted_ file in /var/lib/kernel
    link,       \* the default-<type> symlinks
    \* the EFI system partition
    esp,        \* kernel blob on the ESP: absent, stale (differs) or good
    conf,       \* loader entry: absent, empty, stale (to be rewritten) or good
    ldef,       \* the default named by loader.conf; None if there is no file
    \* the machine and the report-booted service
    uname, rb,
    \* the clr-boot-manager process
    pc, op, after, job,
    snap, boots, run,       \* kernel array, its boots flags, running kernel
    todo, keep, removals,   \* types left; tips and last-goods; removal array
    blupd, ret,             \* bootloader_updated and the return value
    \* history
    clean, disturbed, events

Installing == {"blob", "rename", "entry", "create", "flush"}
Removing   == {"rm_esp", "rm_cmdl", "rm_kboot", "rm_src", "rm_conf"}
Steps == Installing \cup Removing \cup
    {"idle", "start", "loader", "freestanding", "repair", "types", "lastgood", "propose",
     "setdef", "ldcreate", "ldflush", "gc", "cleanup", "done", "killed"}

rootfs  == <<src, cmdl, kboot, link>>
bootfs  == <<esp, conf, ldef>>
disk    == <<rootfs, bootfs>>
plan    == <<snap, boots, run>>
lists   == <<todo, keep, removals>>
machine == <<uname, rb, events>>
vars == <<src, cmdl, kboot, link, esp, conf, ldef, uname, rb, pc, op, after, job,
          snap, boots, run, todo, keep, removals, blupd, ret, clean, disturbed, events>>

-----------------------------------------------------------------------------
(* Kernel discovery and selection (kernel.c).                              *)

\* boot_manager_get_kernels: inspect_kernel skips a blob without cmdline file.
AvailableKernels == src \cap cmdl

OfType(S, t) == {k \in S : KType[k] = t}

\* Candidates for "highest release first" after an unstable sort.
Highest(S) == {k \in S : \A j \in S : Rel(j) <= Rel(k)}

\* boot_manager_get_running_kernel, then its fallback without the version.
RunningKernels(S) ==
    LET loose == {k \in S : uname # None /\ KType[k] = KType[uname] /\ Rel(k) = Rel(uname)}
        exact == {k \in loose : KVersion[k] = KVersion[uname]}
    IN IF exact # {} THEN exact ELSE loose

\* boot_manager_get_default_for_type: the kernel of S the symlink names.
DefaultForType(S, t) == IF link[t] \in S THEN link[t] ELSE None

\* Mutant: version comparison instead of the symlink.
TipsHighest(t) == Highest(OfType(snap, t))

\* tip: the vendor's selection, otherwise the highest release.
Tips(t) ==
    LET typed == OfType(snap, t)
        d == DefaultForType(typed, t)
    IN IF d # None THEN {d} ELSE Highest(typed)

\* Mutant: the highest release, whether it boots or not.
LastBootedIgnoresBoots(S) == Highest({k \in S : Rel(k) >= -1})

\* boot_manager_get_last_booted: the highest release, from -1 up, that boots.
LastBooted(S) == Highest({k \in S : k \in boots /\ Rel(k) >= -1})

\* Mutant: the running kernel is not skipped.
UnprotectedRunning(t) == {k \in OfType(snap, t) : k \notin keep}

\* Mutant: all kernels of the type, not those of the array.
UnprotectedUnknown(t) == {k \in OfType(Kernels, t) : k # run /\ k \notin keep}

\* What the garbage collection proposes for deletion from type t.
Unprotected(t) == {k \in OfType(snap, t) : k # run /\ k \notin keep}

\* new_default: the default of the running type, possibly NULL.
NewDefault ==
    IF run # None THEN DefaultForType(snap, KType[run])
    ELSE IF uname # None THEN DefaultForType(snap, KType[uname])
    ELSE None

-----------------------------------------------------------------------------
(* Bookkeeping of the steps.                                               *)

Steady == UNCHANGED <<clean, disturbed>>

\* A system call of kind x fails.
Fails(x) ==
    /\ x \in Faults
    /\ disturbed' = TRUE
    /\ clean' = FALSE

\* Something happens outside clr-boot-manager.
Event ==
    /\ events < MaxEvents
    /\ events' = events + 1
    /\ clean' = FALSE
    /\ disturbed' = (pc # "idle")

\* The process starts operation o at step p on kernel k.
Launch(o, p, k) ==
    /\ pc = "idle"
    /\ pc' = p /\ op' = o /\ job' = k
    /\ UNCHANGED <<after, plan, lists, blupd, ret>>

\* The process is gone; nothing of its memory survives.
Gone ==
    /\ pc' = "idle" /\ op' = "none" /\ after' = "none" /\ job' = None
    /\ snap' = {} /\ boots' = {} /\ run' = None
    /\ todo' = {} /\ keep' = {} /\ removals' = {}
    /\ blupd' = FALSE /\ ret' = FALSE

\* strdup() of a failed mapping: file_get_text on an empty file kills the process.
Segfault ==
    /\ pc' = "killed"
    /\ UNCHANGED <<disk, machine, op, after, job, plan, lists, blupd, ret>>
    /\ Steady

-----------------------------------------------------------------------------
(* boot_manager_install_kernel for job: the blob, then the loader entry.   *)

\* Mutant: a failed installation is ignored.
AfterInstallIgnored(ok) ==
    IF after = "repair" THEN "types" ELSE IF after = "tip" THEN "lastgood" ELSE "propose"

\* Where a finished installation continues.
AfterInstall(ok) ==
    IF after = "repair" THEN "types"          \* a failed repair is not fatal
    ELSE IF ~ok THEN "cleanup"
    ELSE IF after = "tip" THEN "lastgood"
    ELSE "propose"

\* boot_manager_install_kernel(k), to continue as AfterInstall says.
StartInstall(k, next) == pc' = "blob" /\ job' = k /\ after' = next

inInstall == <<rootfs, ldef, machine, op, after, job, plan, lists, blupd, ret>>

\* Mutant: copy without comparing first.
InstallBlobAlways ==
    /\ pc = "blob" /\ pc' = "rename"
    /\ esp' = [esp EXCEPT ![job] = "absent"]
    /\ UNCHANGED <<conf, inInstall>> /\ Steady

\* Mutant: an existing file is taken for the right one.
InstallBlobExists ==
    /\ pc = "blob"
    /\ IF esp[job] # "absent" THEN pc' = "entry" ELSE pc' = "rename"
    /\ UNCHANGED <<esp, conf, inInstall>> /\ Steady

\* cbm_files_match, else copy_file_atomic up to the unlink of the target.
InstallBlob ==
    /\ pc = "blob"
    /\ IF esp[job] = "good"
         THEN pc' = "entry" /\ UNCHANGED esp
         ELSE pc' = "rename" /\ esp' = [esp EXCEPT ![job] = "absent"]
    /\ UNCHANGED <<conf, inInstall>> /\ Steady

\* The rename that completes copy_file_atomic.
RenameBlob ==
    /\ pc = "rename"
    /\ pc' = "entry"
    /\ esp' = [esp EXCEPT ![job] = "good"]
    /\ UNCHANGED <<conf, inInstall>> /\ Steady

\* sd_class_install_kernel: compare with the old entry, else unlink it.
CompareEntry ==
    /\ pc = "entry"
    /\ \/ /\ conf[job] = "good"
          /\ pc' = AfterInstall(TRUE)
          /\ UNCHANGED <<esp, conf, inInstall>> /\ Steady
       \/ /\ conf[job] \in {"absent", "stale"}
          /\ pc' = "create"
          /\ conf' = [conf EXCEPT ![job] = "absent"]
          /\ UNCHANGED <<esp, inInstall>> /\ Steady
       \/ conf[job] = "empty" /\ Segfault

\* fopen(path, "w") of file_set_text.
CreateEntry ==
    /\ pc = "create"
    /\ pc' = "flush"
    /\ conf' = [conf EXCEPT ![job] = "empty"]
    /\ UNCHANGED <<esp, inInstall>> /\ Steady

\* fprintf and fclose of file_set_text; a failing fclose goes unnoticed.
FlushEntry ==
    /\ pc = "flush"
    /\ pc' = AfterInstall(TRUE)
    /\ \/ conf' = [conf EXCEPT ![job] = "good"] /\ Steady
       \/ UNCHANGED conf /\ Fails("flush")
    /\ UNCHANGED <<esp, inInstall>>

\* Any of the copies, unlink, fopen or fprintf above fails, or an initrd's copy.
InstallFails ==
    /\ pc \in Installing
    /\ pc' = AfterInstall(FALSE)
    /\ Fails("io")
    /\ UNCHANGED <<esp, conf, inInstall>>

-----------------------------------------------------------------------------
(* boot_manager_remove_kernel for job.                                     *)

inRemove == <<link, ldef, machine, op, after, job, plan, lists, blupd>>

\* boot_manager_remove_kernel returns to the command or to the collection loop.
RemoveReturns(ok) ==
    IF op = "remove"
      THEN pc' = "done" /\ ret' = ok
      ELSE IF ok THEN pc' = "gc" /\ UNCHANGED ret
                 ELSE pc' = "cleanup" /\ ret' = FALSE

\* Remove the kernel from the ESP; failure is logged only.
RemoveBlob ==
    /\ pc = "rm_esp" /\ pc' = "rm_cmdl"
    /\ \/ esp' = [esp EXCEPT ![job] = "absent"] /\ Steady
       \/ UNCHANGED esp /\ Fails("io")
    /\ UNCHANGED <<src, cmdl, kboot, conf, ret, inRemove>>

\* The cmdline file goes first of the files that make the kernel known.
RemoveCmdline ==
    /\ pc = "rm_cmdl" /\ pc' = "rm_kboot"
    /\ \/ cmdl' = cmdl \ {job} /\ Steady
       \/ UNCHANGED cmdl /\ Fails("io")
    /\ UNCHANGED <<src, kboot, esp, conf, ret, inRemove>>

RemoveKboot ==
    /\ pc = "rm_kboot" /\ pc' = "rm_src"
    /\ \/ kboot' = kboot \ {job} /\ Steady
       \/ UNCHANGED kboot /\ Fails("io")
    /\ UNCHANGED <<src, cmdl, esp, conf, ret, inRemove>>

\* The extra initrds and, lastly, the source: here a failure is an error.
RemoveSource ==
    /\ pc = "rm_src"
    /\ \/ /\ src' = src \ {job} /\ Steady
          /\ pc' = "rm_conf" /\ UNCHANGED ret
       \/ /\ UNCHANGED src /\ Fails("io")
          /\ RemoveReturns(FALSE)
    /\ UNCHANGED <<cmdl, kboot, esp, conf, inRemove>>

\* sd_class_remove_kernel; failure is logged only.
RemoveEntry ==
    /\ pc = "rm_conf"
    /\ \/ conf' = [conf EXCEPT ![job] = "absent"] /\ Steady
       \/ UNCHANGED conf /\ Fails("io")
    /\ RemoveReturns(TRUE)
    /\ UNCHANGED <<src, cmdl, kboot, esp, inRemove>>

-----------------------------------------------------------------------------
(* boot_manager_update_native.                                             *)

inUpdate == <<disk, machine, op>>

\* Enumerate the kernels and determine the running one.
Discover ==
    /\ pc = "start"
    /\ snap' = AvailableKernels
    /\ boots' = AvailableKernels \cap kboot
    /\ todo' = {KType[k] : k \in AvailableKernels}
    /\ IF AvailableKernels = {} THEN pc' = "done" /\ UNCHANGED run
       ELSE /\ pc' = "loader"
            /\ IF RunningKernels(AvailableKernels) = {} THEN run' = None
               ELSE run' \in RunningKernels(AvailableKernels)
    /\ UNCHANGED <<inUpdate, after, job, keep, removals, blupd, ret>> /\ Steady

\* boot_manager_update_bootloader: failure costs the return value only.
UpdateBootloader ==
    /\ pc = "loader" /\ pc' = "freestanding"
    /\ \/ blupd' = TRUE /\ Steady
       \/ blupd' = FALSE /\ Fails("io")
    /\ UNCHANGED <<inUpdate, after, job, plan, lists, ret>>

\* boot_manager_copy_initrd_freestanding: failure returns without cleanup.
CopyFreestanding ==
    /\ pc = "freestanding"
    /\ \/ pc' = "repair" /\ Steady
       \/ pc' = "done" /\ Fails("io")
    /\ UNCHANGED <<inUpdate, after, job, plan, lists, blupd, ret>>

RepairRunning ==
    /\ pc = "repair"
    /\ IF run # None THEN StartInstall(run, "repair")
                     ELSE pc' = "types" /\ UNCHANGED <<job, after>>
    /\ UNCHANGED <<inUpdate, plan, lists, blupd, ret>> /\ Steady

\* Next type of the hash map: install its tip.
InstallTip ==
    /\ pc = "types"
    /\ \E t \in todo : \E k \in Tips(t) :
          /\ StartInstall(k, "tip")
          /\ keep' = keep \cup {k}
          /\ todo' = todo \ {t}
    /\ UNCHANGED <<inUpdate, plan, removals, blupd, ret>> /\ Steady

\* ... then the last known booting kernel of that type, if any.
InstallLastGood ==
    /\ pc = "lastgood"
    /\ LET good == LastBooted(OfType(snap, KType[job])) IN
       IF good = {} THEN pc' = "propose" /\ UNCHANGED <<job, after, keep>>
       ELSE \E k \in good : StartInstall(k, "good") /\ keep' = keep \cup {k}
    /\ UNCHANGED <<inUpdate, plan, todo, removals, blupd, ret>> /\ Steady

\* ... then propose the rest for deletion, if the running kernel is known.
ProposeRemovals ==
    /\ pc = "propose" /\ pc' = "types"
    /\ removals' = IF run = None THEN removals
                   ELSE removals \cup Unprotected(KType[job])
    /\ UNCHANGED <<inUpdate, after, job, plan, todo, keep, blupd, ret>> /\ Steady

\* boot_manager_set_default_kernel, with nothing to do or to be rewritten.
DefaultTarget == IF op = "set" THEN job ELSE NewDefault

DefaultDone(ok) ==
    IF op = "set" THEN pc' = "done" /\ ret' = ok
    ELSE IF ok THEN pc' = "gc" /\ ret' = blupd
    ELSE pc' = "cleanup" /\ UNCHANGED ret

inDefault == <<rootfs, esp, conf, machine, op, after, plan, lists, blupd>>

CompareDefault ==
    /\ \/ pc = "types" /\ todo = {}
       \/ pc = "setdef"
    /\ \/ /\ DefaultTarget \in {None, ldef}
          /\ DefaultDone(TRUE)
          /\ UNCHANGED <<ldef, job, inDefault>> /\ Steady
       \/ /\ DefaultTarget # None /\ ldef \notin {DefaultTarget, Torn}
          /\ pc' = "ldcreate" /\ job' = DefaultTarget
          /\ ldef' = None
          /\ UNCHANGED <<ret, inDefault>> /\ Steady
       \/ DefaultTarget # None /\ ldef = Torn /\ Segfault

CreateDefault ==
    /\ pc = "ldcreate" /\ pc' = "ldflush"
    /\ ldef' = Torn
    /\ UNCHANGED <<job, ret, inDefault>> /\ Steady

FlushDefault ==
    /\ pc = "ldflush"
    /\ DefaultDone(TRUE)
    /\ \/ ldef' = job /\ Steady
       \/ UNCHANGED ldef /\ Fails("flush")
    /\ UNCHANGED <<job, inDefault>>

DefaultFails ==
    /\ \/ pc \in {"ldcreate", "ldflush"}
       \/ (pc = "setdef" \/ (pc = "types" /\ todo = {})) /\ DefaultTarget \notin {None, ldef}
    /\ DefaultDone(FALSE)
    /\ Fails("io")
    /\ UNCHANGED <<ldef, job, inDefault>>

\* Mutant: the removal array is never worked off.
CollectForever ==
    /\ pc = "gc"
    /\ IF removals = {} THEN pc' = "cleanup" /\ UNCHANGED job
       ELSE \E k \in removals : pc' = "rm_esp" /\ job' = k
    /\ UNCHANGED <<inUpdate, after, plan, lists, blupd, ret>> /\ Steady

\* The removal array holds each type from the highest release down.
CollectNext ==
    /\ pc = "gc"
    /\ IF removals = {} THEN pc' = "cleanup" /\ UNCHANGED <<job, removals>>
       ELSE \E t \in Types : \E k \in Highest(OfType(removals, t)) :
              pc' = "rm_esp" /\ job' = k /\ removals' = removals \ {k}
    /\ UNCHANGED <<inUpdate, after, plan, todo, keep, blupd, ret>> /\ Steady

\* boot_manager_remove_initrd_freestanding, then return.
Cleanup ==
    /\ pc = "cleanup" /\ pc' = "done"
    /\ \/ UNCHANGED ret /\ Steady
       \/ ret' = FALSE /\ Fails("io")
    /\ UNCHANGED <<inUpdate, after, job, plan, lists, blupd>>

\* The process exits, or has been killed.
Exit ==
    /\ pc \in {"done", "killed"}
    /\ Gone
    /\ clean' = (pc = "done" /\ op = "update" /\ ret /\ ~disturbed)
    /\ disturbed' = FALSE
    /\ UNCHANGED <<disk, machine>>

-----------------------------------------------------------------------------
(* The commands.                                                           *)

RunUpdate ==
    /\ Launch("update", "start", None)
    /\ UNCHANGED <<disk, machine>> /\ Steady

\* set-kernel: only the kernel's sources are matched.
SetKernel(k) ==
    /\ k \in AvailableKernels
    /\ Launch("set", "setdef", k)
    /\ Event
    /\ UNCHANGED <<disk, uname, rb>>

\* remove-kernel
RemoveKernel(k) ==
    /\ k \in AvailableKernels
    /\ Launch("remove", "rm_esp", k)
    /\ Event
    /\ UNCHANGED <<disk, uname, rb>>

\* report-booted, another process: file_set_text unlinks the k_booted_ file ...
process == <<pc, op, after, job, plan, lists, blupd, ret>>

ReportUnlink ==
    /\ rb = "idle" /\ uname # None /\ Event
    /\ rb' = "unlinked"
    /\ kboot' = kboot \ {uname}
    /\ UNCHANGED <<src, cmdl, link, bootfs, uname, process>>

\* ... and writes it again.
ReportWrite ==
    /\ rb = "unlinked"
    /\ rb' = "idle"
    /\ kboot' = kboot \cup {uname}
    /\ clean' = FALSE
    /\ disturbed' = (pc # "idle")
    /\ UNCHANGED <<src, cmdl, link, bootfs, uname, events, process>>

-----------------------------------------------------------------------------
(* The world: packages, the administrator, power.                          *)

\* The package manager installs a kernel and may move the vendor selection.
PkgInstall(k) ==
    /\ pc = "idle" /\ k \notin AvailableKernels /\ Event
    /\ src' = src \cup {k} /\ cmdl' = cmdl \cup {k}
    /\ link' \in {link, [link EXCEPT ![KType[k]] = k]}
    /\ UNCHANGED <<kboot, bootfs, uname, rb, process>>

\* The package manager removes a kernel, with the link if it names it.
PkgRemove(k) ==
    /\ pc = "idle" /\ k \in AvailableKernels /\ Event
    /\ src' = src \ {k} /\ cmdl' = cmdl \ {k}
    /\ link' = [t \in Types |-> IF link[t] = k THEN None ELSE link[t]]
    /\ UNCHANGED <<kboot, bootfs, uname, rb, process>>

\* A cmdline.d file changes: every entry is due for rewriting.
EditCmdline ==
    /\ pc = "idle" /\ Event
    /\ conf' = [k \in Kernels |-> IF conf[k] = "good" THEN "stale" ELSE conf[k]]
    /\ UNCHANGED <<rootfs, esp, ldef, uname, rb, process>>

\* The shared ESP is damaged: a blob is lost or garbled, an entry is lost.
Damage(k) ==
    /\ pc = "idle" /\ Event
    /\ \/ /\ esp[k] # "absent" /\ UNCHANGED conf
          /\ esp' \in {[esp EXCEPT ![k] = v] : v \in {"absent", "stale"}}
       \/ /\ conf[k] # "absent" /\ UNCHANGED esp
          /\ conf' = [conf EXCEPT ![k] = "absent"]
    /\ UNCHANGED <<rootfs, ldef, uname, rb, process>>

Bootable(k) == esp[k] = "good" /\ conf[k] \in {"good", "stale"}

\* Reboot or power loss, at any moment; what was written so far stays. With no
\* bootable entry left the machine comes up from a rescue medium.
PowerLoss ==
    /\ events < MaxEvents
    /\ events' = events + 1
    /\ clean' = FALSE /\ disturbed' = FALSE
    /\ Gone
    /\ rb' = "idle"
    /\ uname' \in {k \in Kernels : Bootable(k)} \cup
                  {u \in {None} : \A k \in Kernels : ~Bootable(k)}
    /\ UNCHANGED disk

\* The process is killed and the machine stays up.
Kill ==
    /\ pc # "idle" /\ events < MaxEvents
    /\ events' = events + 1
    /\ Gone
    /\ clean' = FALSE /\ disturbed' = FALSE
    /\ UNCHANGED <<disk, uname, rb>>

-----------------------------------------------------------------------------
Init ==
    /\ src = Installed /\ cmdl = Installed /\ kboot \in SUBSET Installed
    /\ link \in {l \in [Types -> Installed \cup {None}] :
                    \A t \in Types : l[t] # None => KType[l[t]] = t}
    /\ esp  = [k \in Kernels |-> IF k \in Installed THEN "good" ELSE "absent"]
    /\ conf = [k \in Kernels |-> IF k \in Installed THEN "good" ELSE "absent"]
    /\ ldef \in Installed \cup {None}
    /\ uname \in Installed \cup {None} /\ rb = "idle"
    /\ pc = "idle" /\ op = "none" /\ after = "none" /\ job = None
    /\ snap = {} /\ boots = {} /\ run = None
    /\ todo = {} /\ keep = {} /\ removals = {}
    /\ blupd = FALSE /\ ret = FALSE
    /\ clean = FALSE /\ disturbed = FALSE /\ events = 0

Install == InstallBlob \/ RenameBlob \/ CompareEntry \/ CreateEntry \/ FlushEntry \/ InstallFails

Remove == RemoveBlob \/ RemoveCmdline \/ RemoveKboot \/ RemoveSource \/ RemoveEntry

SetDefault == CompareDefault \/ CreateDefault \/ FlushDefault \/ DefaultFails

Update ==
    \/ Discover \/ UpdateBootloader \/ CopyFreestanding \/ RepairRunning \/ InstallTip
    \/ InstallLastGood \/ ProposeRemovals \/ CollectNext \/ Cleanup

Process == Install \/ Remove \/ SetDefault \/ Update \/ Exit

World ==
    \/ EditCmdline \/ PowerLoss \/ Kill
    \/ \E k \in Kernels : PkgInstall(k) \/ PkgRemove(k) \/ Damage(k)

Command ==
    \/ RunUpdate
    \/ \E k \in Kernels : SetKernel(k) \/ RemoveKernel(k)

Report == ReportUnlink \/ ReportWrite

Next == Process \/ Command \/ Report \/ World

Spec == Init /\ [][Next]_vars

\* The process runs to its end, a started report completes, and the kernel
\* packages' post-install step keeps calling update.
FairSpec == Spec /\ WF_vars(Process) /\ WF_vars(ReportWrite) /\ WF_vars(RunUpdate)

-----------------------------------------------------------------------------
(* Properties.                                                             *)

FileTypes ==
    /\ src \subseteq Kernels /\ cmdl \subseteq Kernels /\ kboot \subseteq Kernels
    /\ link \in [Types -> Kernels \cup {None}]
    /\ esp \in [Kernels -> {"absent", "stale", "good"}]
    /\ conf \in [Kernels -> {"absent", "empty", "stale", "good"}]
    /\ ldef \in Kernels \cup {None, Torn}

MachineTypes ==
    /\ uname \in Kernels \cup {None} /\ rb \in {"idle", "unlinked"} /\ events \in 0..MaxEvents
    /\ rb = "unlinked" => uname # None

ControlTypes ==
    /\ pc \in Steps /\ op \in {"none", "update", "set", "remove"}
    /\ after \in {"none", "repair", "tip", "good"}
    /\ job \in Kernels \cup {None}

PlanTypes ==
    /\ snap \subseteq Kernels /\ boots \subseteq snap /\ run \in snap \cup {None}
    /\ todo \subseteq Types /\ keep \subseteq snap /\ removals \subseteq snap
    /\ pc \in {"idle", "start"} => snap = {}

FlagTypes ==
    blupd \in BOOLEAN /\ ret \in BOOLEAN /\ clean \in BOOLEAN /\ disturbed \in BOOLEAN

\* Every variable has its type.
TypeOK == FileTypes /\ MachineTypes /\ ControlTypes /\ PlanTypes /\ FlagTypes

\* A step of update takes from kernel k what it needs to boot or to be known.
Discards(k) ==
    /\ op = "update"
    /\ \/ k \in src \ src'
       \/ k \in cmdl \ cmdl'
       \/ esp[k] = "good" /\ esp'[k] # "good"

\* Kernels reported as booted; a report in flight counts.
Booted == kboot \cup (IF rb = "unlinked" THEN {uname} ELSE {})

\* Step condition of GcSpares.
SparesStep ==
    \A k \in Kernels : Discards(k) =>
        /\ k # uname
        /\ k # link[KType[k]]
        /\ k \in Booted =>
              \E j \in Kernels \ {k} :
                  /\ j \in src' \cap cmdl' \cap Booted'
                  /\ KType[j] = KType[k] /\ KRelease[j] >= KRelease[k]

\* Garbage collection (update.c:276-317) never touches the running kernel nor
\* the vendor selection of a type, and discards a kernel known to boot only if
\* another one of its type, known to boot and at least as recent, stays. The
\* choices were made when the arrays were built; report-booted may run since.
GcSpares == [][SparesStep]_vars

\* Step condition of GcLeavesBootable.
LeavesStep ==
    \A k \in Kernels : Discards(k) =>
        \E j \in Kernels \ {k} : KType[j] = KType[k] /\ Bootable(j)'

\* Whatever failed or was interrupted before, update discards a kernel only
\* while another kernel of its type is bootable from the ESP: the rollback the
\* README promises, and a power loss in the collection leaves an entry to boot.
GcLeavesBootable == [][LeavesStep]_vars

\* No release is lost in the cast to int16_t.
ReleasesFit == \A k \in Kernels : KRelease[k] \in Nat /\ KRelease[k] <= 32767

\* The part of update before the first removal, and the collection itself.
Selecting ==
    /\ op = "update"
    /\ pc \in Installing \cup {"loader", "freestanding", "repair", "types", "lastgood",
                               "propose", "ldcreate", "ldflush"}

Collecting == op = "update" /\ pc \in Removing \cup {"gc"}

\* Type t is being worked on; its last good kernel is yet to be chosen.
InProgress(t) ==
    /\ pc \in Installing \cup {"lastgood", "propose"} /\ after # "repair"
    /\ KType[job] = t

Awaiting(t) ==
    /\ pc \in Installing \cup {"lastgood"} /\ after = "tip"
    /\ KType[job] = t

\* Which operation a step belongs to, and what its kernel is.
ControlInv ==
    /\ pc = "idle" => op = "none"
    /\ pc = "setdef" => op = "set"
    /\ pc \in Removing => op \in {"update", "remove"}
    /\ pc \in {"ldcreate", "ldflush"} => op \in {"update", "set"}
    /\ pc \in Installing \cup {"start", "loader", "freestanding", "repair", "types",
                               "lastgood", "propose", "gc", "cleanup"} => op = "update"
    /\ pc \in Installing \cup {"lastgood", "propose"} => job \in snap
    /\ pc \in Installing => after # "none"
    /\ pc \in {"lastgood", "propose"} => after \in {"tip", "good"}
    /\ pc \in Installing \cup {"lastgood", "propose"} /\ after # "repair" => KType[job] \notin todo
    /\ op = "update" /\ pc \in Removing \cup {"ldcreate", "ldflush", "gc"} => todo = {}
    /\ (pc \in Installing /\ after = "repair") \/ pc \in {"loader", "freestanding", "repair"}
          => keep = {}

\* The arrays of a running update agree with the disk they were read from, up
\* to what report-booted and the collection itself change (update.c:166-201).
PlanOnDisk ==
    /\ uname \in snap => run = uname
    /\ Selecting => snap \subseteq AvailableKernels /\ boots \subseteq Booted
    /\ keep \subseteq AvailableKernels
    /\ keep \cap boots \subseteq Booted
    /\ snap \cap Booted \subseteq boots \cup {uname}

\* Every type worked off keeps a kernel, its vendor selection among them
\* (update.c:236-257).
SelectionKept ==
    \A k \in snap : KType[k] \notin todo =>
        /\ link[KType[k]] = k => k \in keep
        /\ \E j \in keep : KType[j] = KType[k]

\* ... and a last good kernel, unless it is about to be chosen (update.c:260-274).
LastGoodKept ==
    \A k \in boots : KType[k] \notin todo /\ Rel(k) >= -1 =>
        \/ Awaiting(KType[k])
        \/ \E j \in keep \cap boots : KType[j] = KType[k] /\ Rel(j) >= Rel(k)

\* What is to be removed is not kept, and cannot become so (update.c:276-317).
RemovalsSpare ==
    /\ \A k \in removals :
          k \notin keep \cup {run} /\ KType[k] \notin todo /\ ~InProgress(KType[k])
    /\ pc \in Removing => job \in snap \ (keep \cup {run})

\* What update has decided to keep is bootable, or being installed.
KeptBootable ==
    /\ pc \in {"entry", "create", "flush"} => esp[job] = "good"
    /\ Selecting \/ Collecting => \A k \in keep : Bootable(k) \/ (pc \in Installing /\ job = k)

\* The inductive invariant behind GcSpares: the plan of a running update stays
\* valid until its last removal (update.c:149-377).
GcInv ==
    /\ ControlInv
    /\ Selecting \/ Collecting => PlanOnDisk /\ SelectionKept /\ LastGoodKept /\ RemovalsSpare

\* What a successful update promises (man page, "update"): the vendor selection
\* and the last booted kernel of each type are installed, the default of the
\* running type is the loader's default, and no other kernel is left.
UpdateDelivers ==
    pc = "done" /\ op = "update" /\ ret =>
        /\ \A k \in keep : Bootable(k)
        /\ \A k \in snap : \E j \in keep : KType[j] = KType[k]
        /\ \A t \in Types : link[t] \in snap => link[t] \in keep
        /\ NewDefault # None => ldef = NewDefault /\ Bootable(ldef)
        /\ run # None => snap \cap src = keep \cup {run}

\* "This can be called multiple times, as clr-boot-manager will only update
\* exactly what needs to be updated" (README): after an undisturbed successful
\* update and with no change since, update writes nothing.
Idempotent == [][clean /\ clean' => UNCHANGED disk]_vars

\* loader.conf is never switched by update to a kernel that cannot be booted.
DefaultSwitchedToBootable ==
    [][\A k \in Kernels : op = "update" /\ ldef # k /\ ldef' = k => Bootable(k)']_vars

\* Every command ends.
Terminates == pc # "idle" ~> pc = "idle"

\* A vendor selection that stays is eventually bootable, however often power
\* was lost before, unless an interruption or a lost write left an empty text
\* file behind.
SelectionInstalled ==
    \A k \in Kernels :
        <>[](k \in AvailableKernels /\ link[KType[k]] = k /\ ldef # Torn
             /\ \A j \in Kernels : conf[j] # "empty")
            => <>[]Bootable(k)

\* "This is mostly to allow a repair-situation" (update.c:214): when update ends
\* with no failed system call, the running kernel it found is bootable, also when
\* an earlier update was killed at any of its steps.
RepairsRunning ==
    pc \in {"done", "killed"} /\ op = "update" /\ ~disturbed /\ run # None => Bootable(run)
=============================================================================
