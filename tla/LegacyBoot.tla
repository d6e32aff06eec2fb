----------------------------- MODULE LegacyBoot ------------------------------
(***************************************************************************)
(* The loaders that keep one menu for all kernels: GRUB2, whose menu is    *)
(* made by grub-mkconfig from a script, and syslinux or extlinux. Kernels  *)
(* are queued while they are installed, and the menu is written when the   *)
(* default is set; then the collection removes kernels. set-kernel and     *)
(* remove-kernel share these operations without the queue of an update.    *)
(***************************************************************************)
EXTENDS Naturals, FiniteSets

CONSTANTS
    Kernels,        \* of one type
    Null,           \* what a kernel without paths is printed as
    None,
    Loaders,        \* subset of {"grub2", "syslinux"}
    MaxChanges      \* bound on failures and outside events

VARIABLES
    loader,
    src,            \* kernels found in the kernel directory
    link,           \* the vendor's default
    uname,          \* the running kernel
    blob,           \* kernels in the boot directory
    menu, exec,     \* GRUB2's script or syslinux.cfg; the script's execute bit
    cfg,            \* grub.cfg
    vmlinuz,        \* where the link /vmlinuz points
    sector,         \* how far syslinux's own installation got
    pc, op,
    snap, run,      \* what update found: the kernels, the running one
    queue,          \* the loader's kernel_queue
    keep, todo,     \* kernels kept by this update; to be installed, then removed
    def,            \* the default to be set, as set-kernel's argument or a kernel
    bl, ok,         \* bootloader_updated; the command's result
    quiet,          \* history: nothing failed since the command began
    changes

files == <<src, link, uname, blob, menu, exec, cfg, vmlinuz, sector>>
plan == <<snap, run, queue, keep, todo, def>>
result == <<bl, ok, quiet>>
vars == <<loader, files, pc, op, plan, result, changes>>

ASSUME LoadersAssumption == Loaders \subseteq {"grub2", "syslinux"}
ASSUME BoundAssumption == MaxChanges \in Nat
ASSUME NamesAssumption == Null \notin Kernels /\ None \notin Kernels /\ Null # None

\* A menu file: missing, empty, or a list of kernels with a default.
NoMenu == [st |-> "none", list |-> {}, def |-> None]
EmptyMenu == [st |-> "empty", list |-> {}, def |-> None]
Menu(l, d) == [st |-> "text", list |-> l, def |-> d]

\* What the machine boots from.
BootMenu == IF loader = "grub2" THEN cfg ELSE menu

Fault == changes < MaxChanges /\ changes' = changes + 1 /\ quiet' = FALSE

\* The command returns false.
Fail == pc' = "done" /\ ok' = FALSE

\* grub2_init starts with an empty queue, syslinux_common_init with every kernel
\* of the kernel directory.
InitQueue == IF loader = "grub2" THEN {} ELSE src

-----------------------------------------------------------------------------
(* update up to the default (update.c:149-329).                            *)

\* Mutant: any kernel may be the tip.
TipsAny == src

\* The vendor's default or, without one, the highest release: which kernel that
\* is makes no difference here.
Tips == IF link \in src THEN {link} ELSE src

\* The running kernel or, if it is not found, one of its type and release but of
\* another version, if there is one: releases make no difference here either.
RunningKernels ==
    IF uname \in src THEN {uname} ELSE IF uname = None THEN {None} ELSE src \cup {None}

StartUpdate ==
    /\ pc = "idle" /\ op' = "update" /\ quiet' = TRUE /\ queue' = InitQueue
    /\ snap' = src /\ run' \in RunningKernels
    /\ sector' = 0 /\ bl' = FALSE
    /\ IF src = {} THEN Fail /\ keep' = {}
       ELSE /\ pc' = "loader" /\ ok' = FALSE
            /\ \E tip \in Tips, good \in SUBSET src :
                  Cardinality(good) <= 1 /\ keep' = good \cup {tip}
    /\ todo' = keep' /\ def' = None
    /\ UNCHANGED <<loader, src, link, uname, blob, menu, exec, cfg, vmlinuz, changes>>

\* boot_manager_update_bootloader: nothing for GRUB2; the others are initialised
\* again, write the boot sector, run the installer and set the partition's flag.
UpdateLoader ==
    /\ pc = "loader" /\ pc' = "repair"
    /\ \/ loader = "grub2" /\ bl' = TRUE /\ UNCHANGED <<sector, queue, quiet, changes>>
       \/ /\ loader # "grub2" /\ queue' = InitQueue
          /\ \/ sector' = 3 /\ bl' = TRUE /\ UNCHANGED <<quiet, changes>>
             \/ sector' \in 0..2 /\ bl' = FALSE /\ Fault
    /\ UNCHANGED <<loader, src, link, uname, blob, menu, exec, cfg, vmlinuz, op, snap, run,
                   keep, todo, def, ok>>

\* Mutant: a repaired kernel is not queued again.
QueuedNew(k) == IF k \in blob THEN queue ELSE queue \cup {k}

\* Mutant: what is queued is a kernel of which the paths are not set.
QueuedNull(k) == queue \cup {Null}

\* grub2_install_kernel, syslinux_common_install_kernel
Queued(k) == queue \cup {k}

\* boot_manager_install_kernel: the kernel's files, then the loader's queue.
Installs(k) == k \in src /\ blob' = blob \cup {k} /\ queue' = Queued(k)

\* The running kernel first; that may fail.
Repair ==
    /\ pc = "repair" /\ pc' = "install"
    /\ \/ run # None /\ Installs(run) /\ UNCHANGED <<quiet, changes>>
       \/ run # None /\ Fault /\ UNCHANGED <<blob, queue>>
       \/ run \notin src /\ UNCHANGED <<blob, queue, quiet, changes>>
    /\ UNCHANGED <<loader, src, link, uname, menu, exec, cfg, vmlinuz, sector, op, snap, run,
                   keep, todo, def, bl, ok>>

\* Then the tip and the last good kernel.
InstallKernel(k) ==
    /\ pc = "install" /\ k \in todo /\ todo' = todo \ {k}
    /\ \/ Installs(k) /\ UNCHANGED <<pc, ok, quiet, changes>>
       \/ Fault /\ Fail /\ UNCHANGED <<blob, queue>>
       \/ k \notin src /\ Fail /\ UNCHANGED <<blob, queue, quiet, changes>>
    /\ UNCHANGED <<loader, src, link, uname, menu, exec, cfg, vmlinuz, sector, op, snap, run,
                   keep, def, bl>>

\* Mutant: a menu that is there is not written again.
ChooseDefaultOnce ==
    /\ pc = "install" /\ todo = {}
    /\ def' = (IF uname # None /\ link \in snap THEN link ELSE None)
    /\ pc' = (IF def' = None \/ BootMenu.st = "text" THEN "gc" ELSE "setdef") /\ ok' = bl
    /\ todo' = (IF run # None THEN snap \ (keep \cup {run}) ELSE {})
    /\ UNCHANGED <<loader, files, op, snap, run, queue, keep, bl, quiet, changes>>

\* The default of the running type, if that is known and the vendor has one;
\* boot_manager_set_default_kernel reads the kernel directory once more.
ChooseDefault ==
    /\ pc = "install" /\ todo = {}
    /\ IF uname # None /\ link \in snap
       THEN /\ def' = link
            /\ IF link \in src THEN pc' = "setdef" /\ UNCHANGED ok ELSE Fail
       ELSE pc' = "gc" /\ ok' = bl /\ UNCHANGED def
    /\ todo' = (IF run # None THEN snap \ (keep \cup {run}) ELSE {})
    /\ UNCHANGED <<loader, files, op, snap, run, queue, keep, bl, quiet, changes>>

-----------------------------------------------------------------------------
(* Setting the default (grub2.c:320-570, syslinux-common.c:97-228).        *)

\* set-kernel passes a kernel of which only type, version and release are set.
Given == IF op = "set" THEN Null ELSE def

\* What the file is to hold: GRUB2 writes the kernel it is given first, then the
\* queue ...
GrubMenu == Menu(queue \cup {Given}, Given)

\* ... and syslinux the queue, marking the kernel equal to the default.
SyslinuxMenu == Menu(queue, IF def \in queue THEN def ELSE None)

NewMenu == IF loader = "grub2" THEN GrubMenu ELSE SyslinuxMenu

\* The links go first "to stop duped entries being created".
BeginDefault ==
    /\ pc = "setdef"
    /\ \/ /\ pc' = "compare" /\ UNCHANGED <<ok, quiet, changes>>
          /\ vmlinuz' = (IF loader = "grub2" THEN None ELSE vmlinuz)
       \/ loader = "grub2" /\ Fault /\ Fail /\ UNCHANGED vmlinuz
    /\ UNCHANGED <<loader, src, link, uname, blob, menu, exec, cfg, sector, op, plan, bl>>

\* The file has the right text already: it is left alone. Reading an empty
\* script is fatal; an empty syslinux.cfg is not read.
Compare ==
    /\ pc = "compare"
    /\ IF loader = "grub2" /\ menu.st = "empty" THEN Fail
       ELSE /\ pc' = (IF menu # NewMenu THEN "create"
                      ELSE IF loader = "grub2" THEN "mkconfig" ELSE "set")
            /\ UNCHANGED ok
    /\ UNCHANGED <<loader, files, op, plan, bl, quiet, changes>>

\* file_set_text: unlink and fopen ...
Create ==
    /\ pc = "create"
    /\ \/ menu' = EmptyMenu /\ exec' = FALSE /\ pc' = "write" /\ UNCHANGED <<ok, quiet, changes>>
       \/ menu' \in {menu, NoMenu} /\ Fault /\ Fail /\ UNCHANGED exec
    /\ UNCHANGED <<loader, src, link, uname, blob, cfg, vmlinuz, sector, op, plan, bl>>

\* ... and write; what is lost in fclose is not noticed.
Write ==
    /\ pc = "write"
    /\ pc' = (IF loader = "grub2" THEN "chmod" ELSE "set")
    /\ \/ menu' = NewMenu /\ UNCHANGED <<quiet, changes>>
       \/ menu' = EmptyMenu /\ Fault
    /\ UNCHANGED <<loader, src, link, uname, blob, exec, cfg, vmlinuz, sector, op, plan, bl, ok>>

Chmod ==
    /\ pc = "chmod"
    /\ \/ exec' = TRUE /\ pc' = "mkconfig" /\ UNCHANGED <<ok, quiet, changes>>
       \/ Fault /\ Fail /\ UNCHANGED exec
    /\ UNCHANGED <<loader, src, link, uname, blob, menu, cfg, vmlinuz, sector, op, plan, bl>>

\* grub-mkconfig runs the scripts that are executable and replaces grub.cfg.
MkConfig ==
    IF exec /\ menu.st = "text" THEN menu ELSE Menu({}, None)

RunMkConfig ==
    /\ pc = "mkconfig"
    /\ \/ cfg' = MkConfig /\ pc' = "symlink" /\ UNCHANGED <<ok, quiet, changes>>
       \/ Fault /\ Fail /\ UNCHANGED cfg
    /\ UNCHANGED <<loader, src, link, uname, blob, menu, exec, vmlinuz, sector, op, plan, bl>>

Symlink ==
    /\ pc = "symlink"
    /\ \/ vmlinuz' = Given /\ pc' = "set" /\ UNCHANGED <<ok, quiet, changes>>
       \/ vmlinuz' \in {vmlinuz, Given} /\ Fault /\ Fail
    /\ UNCHANGED <<loader, src, link, uname, blob, menu, exec, cfg, sector, op, plan, bl>>

\* set_default_kernel has returned true.
DefaultSet ==
    /\ pc = "set"
    /\ IF op = "set" THEN pc' = "done" /\ ok' = TRUE ELSE pc' = "gc" /\ ok' = bl
    /\ UNCHANGED <<loader, files, op, plan, bl, quiet, changes>>

-----------------------------------------------------------------------------
(* Removing kernels, and the other commands.                               *)

\* Mutant: only the running kernel is spared.
CollectKept(k) ==
    /\ pc = "gc" /\ k \in todo \cup (keep \ {run})
    /\ blob' = blob \ {k} /\ src' = src \ {k} /\ todo' = todo \ {k}
    /\ UNCHANGED <<loader, link, uname, menu, exec, cfg, vmlinuz, sector, pc, op, snap, run,
                   queue, keep, def, bl, ok, quiet, changes>>

\* boot_manager_remove_kernel: blob and source; the menu is not touched.
Collect(k) ==
    /\ pc = "gc" /\ k \in todo
    /\ \/ /\ blob' = blob \ {k} /\ src' = src \ {k} /\ todo' = todo \ {k}
          /\ UNCHANGED <<pc, ok, quiet, changes>>
       \/ blob' \in {blob, blob \ {k}} /\ Fault /\ Fail /\ UNCHANGED <<src, todo>>
    /\ UNCHANGED <<loader, link, uname, menu, exec, cfg, vmlinuz, sector, op, snap, run,
                   queue, keep, def, bl>>

CollectDone ==
    /\ pc = "gc" /\ todo = {} /\ pc' = "done"
    /\ UNCHANGED <<loader, files, op, plan, result, changes>>

\* set-kernel and remove-kernel of a kernel that is there.
StartSet(k) ==
    /\ pc = "idle" /\ k \in src /\ changes < MaxChanges /\ changes' = changes + 1
    /\ pc' = "setdef" /\ op' = "set" /\ def' = k /\ queue' = InitQueue
    /\ ok' = FALSE /\ quiet' = TRUE
    /\ UNCHANGED <<loader, files, snap, run, keep, todo, bl>>

RemoveKernel(k) ==
    /\ pc = "idle" /\ k \in src /\ changes < MaxChanges /\ changes' = changes + 1
    /\ blob' = blob \ {k} /\ src' = src \ {k}
    /\ UNCHANGED <<loader, link, uname, menu, exec, cfg, vmlinuz, sector, pc, op, plan, result>>

\* The process ends.
Exit ==
    /\ pc = "done" /\ pc' = "idle" /\ op' = "none"
    /\ snap' = {} /\ run' = None /\ queue' = {} /\ keep' = {} /\ todo' = {} /\ def' = None
    /\ bl' = FALSE /\ ok' = FALSE /\ quiet' = FALSE
    /\ UNCHANGED <<loader, files, changes>>

\* A package brings a kernel, which may become the vendor's default, or takes
\* one away.
Package ==
    /\ changes < MaxChanges /\ changes' = changes + 1
    /\ \E k \in Kernels :
          \/ src' = src \cup {k} /\ link' \in {link, k}
          \/ src' = src \ {k} /\ link' \in {link, IF link = k THEN None ELSE link}
    /\ quiet' = FALSE
    /\ UNCHANGED <<loader, uname, blob, menu, exec, cfg, vmlinuz, sector, pc, op, plan, bl, ok>>

\* Power is lost, and the machine boots a kernel of its menu, or is helped.
PowerLoss ==
    /\ changes < MaxChanges /\ changes' = changes + 1
    /\ uname' \in Kernels \cup {None}
    /\ pc' = "idle" /\ op' = "none"
    /\ snap' = {} /\ run' = None /\ queue' = {} /\ keep' = {} /\ todo' = {} /\ def' = None
    /\ bl' = FALSE /\ ok' = FALSE /\ quiet' = FALSE
    /\ UNCHANGED <<loader, src, link, blob, menu, exec, cfg, vmlinuz, sector>>

-----------------------------------------------------------------------------
\* A machine with its kernels in place and no menu of clr-boot-manager's yet.
Init ==
    /\ loader \in Loaders
    /\ src \in (SUBSET Kernels) \ {{}} /\ blob = src
    /\ link \in src \cup {None} /\ uname \in src \cup {None}
    /\ menu = NoMenu /\ exec = FALSE /\ cfg = NoMenu /\ vmlinuz = None /\ sector = 0
    /\ pc = "idle" /\ op = "none"
    /\ snap = {} /\ run = None /\ queue = {} /\ keep = {} /\ todo = {} /\ def = None
    /\ bl = FALSE /\ ok = FALSE /\ quiet = FALSE /\ changes = 0

Step ==
    \/ UpdateLoader \/ Repair \/ ChooseDefault \/ \E k \in Kernels : InstallKernel(k) \/ Collect(k)
    \/ BeginDefault \/ Compare \/ Create \/ Write \/ Chmod \/ RunMkConfig \/ Symlink
    \/ DefaultSet \/ CollectDone \/ Exit

Next ==
    \/ Step \/ StartUpdate \/ Package \/ PowerLoss
    \/ \E k \in Kernels : StartSet(k) \/ RemoveKernel(k)

Spec == Init /\ [][Next]_vars

\* A command runs to its end, and packages keep calling update.
FairSpec == Spec /\ WF_vars(Step) /\ WF_vars(StartUpdate)

-----------------------------------------------------------------------------
(* Properties.                                                             *)

MenuFiles == [st : {"none", "empty", "text"}, list : SUBSET (Kernels \cup {Null}),
              def : Kernels \cup {Null, None}]

FilesOK ==
    /\ loader \in Loaders /\ src \subseteq Kernels /\ blob \subseteq Kernels
    /\ link \in Kernels \cup {None} /\ uname \in Kernels \cup {None}
    /\ menu \in MenuFiles /\ cfg \in MenuFiles
    /\ vmlinuz \in Kernels \cup {Null, None} /\ sector \in 0..3

PlanOK ==
    /\ pc \in {"idle", "loader", "repair", "install", "setdef", "compare", "create", "write",
               "chmod", "mkconfig", "symlink", "set", "gc", "done"}
    /\ op \in {"none", "update", "set"} /\ changes \in 0..MaxChanges
    /\ queue \subseteq Kernels /\ keep \subseteq snap /\ todo \subseteq snap
    /\ def \in Kernels \cup {None} /\ run \in snap \cup {None}

FlagsOK == exec \in BOOLEAN /\ bl \in BOOLEAN /\ ok \in BOOLEAN /\ quiet \in BOOLEAN

\* Every variable has its type; only kernels update found are worked on.
TypeOK == FilesOK /\ PlanOK /\ FlagsOK

\* The script can be run: after a power loss between its writing and chmod it
\* cannot, and update finds the text right and leaves it so (grub2.c:425-431).
Lame == loader = "grub2" /\ menu.st = "text" /\ ~exec

\* An update that reports success, met no failure and had a default to set
\* leaves a menu whose default is that kernel and installed; a GRUB2 menu lists
\* just the kernels kept, all of them installed, and /vmlinuz agrees; syslinux
\* was installed to the end (update.c:331-366).
UpdateDelivers ==
    pc = "done" /\ op = "update" /\ ok /\ quiet /\ def # None /\ ~Lame =>
        /\ BootMenu.st = "text" /\ BootMenu.def = def /\ def \in blob
        /\ keep \subseteq BootMenu.list
        /\ loader = "grub2" =>
              BootMenu.list = keep \cup ({run} \ {None}) /\ BootMenu.list \subseteq blob
              /\ vmlinuz = def
        /\ loader = "syslinux" => sector = 3 /\ BootMenu.list \ blob \subseteq snap \ (keep \cup {run})

\* Something in the menu can be booted.
SomeBootable == BootMenu.list \cap blob # {}

\* A menu that offers an installed kernel goes on doing so at every step of an
\* update that found a default, and through failures and power losses: the
\* menu is rewritten before the collection and replaced as a whole, except that
\* syslinux.cfg is emptied before it is written and a script that lost its
\* text or its execute bit yields an empty menu.
MenuStays ==
    [][/\ op = "update" /\ SomeBootable
       /\ pc = "gc" => def # None
       /\ ~(loader = "syslinux" /\ pc = "create")
       /\ ~(pc = "mkconfig" /\ (Lame \/ menu.st = "empty"))
       => SomeBootable']_vars

\* The collection removes no kernel that the machine boots by default, whatever
\* failed before, if a default was found and is one of the kernels kept: the
\* vendor's link is read twice, and a package that moves it in between makes
\* update set a default that it has already put down for removal (update.c:236,
\* 322-329).
CollectsNoDefault ==
    [][\A k \in Kernels :
          op = "update" /\ pc = "gc" /\ def \in keep /\ k \in blob \ blob'
          => k # BootMenu.def]_vars

\* Updates that are repeated end up with the vendor's default as the default of
\* the menu, unless the script was left empty or not executable, or the machine
\* runs a kernel of another vendor, whose type has no default.
Settles ==
    <>[](link \in src /\ uname # None
         /\ (pc = "idle" => ~Lame /\ ~(loader = "grub2" /\ menu.st = "empty")))
        => <>[](BootMenu.def = link /\ link \in blob)

\* "This command will set a kernel to be used as the default kernel for the next
\* time the system boots" (cli/main.c:247-248).
SetKernelSets ==
    pc = "done" /\ op = "set" /\ ok /\ quiet /\ ~Lame =>
        BootMenu.def = def /\ def \in BootMenu.list
=============================================================================
