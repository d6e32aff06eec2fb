------------------------------ MODULE MountBoot ------------------------------
(***************************************************************************)
(* Where a command of clr-boot-manager writes: what the system is found to *)
(* be (sysconfig.c), which loader that selects, where the boot partition   *)
(* is or gets mounted (bootman.c), and who unmounts it. update, set-kernel,*)
(* remove-kernel, list-kernels and mount-boot run one after the other;     *)
(* update calls set_default_kernel, which mounts for itself once more.     *)
(***************************************************************************)
EXTENDS Naturals, Sequences, FiniteSets

CONSTANTS
    Systems,    \* the machines looked at, records of System
    Ops         \* the commands run

VARIABLES
    sys,        \* this machine
    at,         \* mount table: what is mounted at each directory
    full,       \* the unmounted boot directory has something in it
    pc, op, image,
    bdir,       \* self->abs_bootdir
    loader, ldr,    \* self->bootloader, and whether its context is there
    base, probed,   \* where the loader's paths point, and what was there then
    frames,     \* what each detect_and_mount_boot under way has to unmount
    ok, bl,     \* the command's result so far; bootloader_updated
    at0, full0, fault, hit  \* history: at and full before, failure, places written

vars == <<sys, at, full, pc, op, image, bdir, loader, ldr, base, probed, frames, ok, bl,
          at0, full0, fault, hit>>
context == <<bdir, ldr, base, probed>>
invocation == <<sys, op, image, loader, at0, full0>>

Dirs == {"boot", "other", "prefix"}
Devices == {"esp", "legacy"}

\* uefi: /sys/firmware/efi; force: CBM_FORCE_LEGACY; esp, legacy: what
\* get_boot_device and get_legacy_boot_device find; fs: of the boot device;
\* tools: loaders installed.
System == [uefi : BOOLEAN, force : BOOLEAN, esp : BOOLEAN, legacy : BOOLEAN,
           fs : {"fat", "ext", "unknown"}, tools : SUBSET {"grub2", "syslinux", "extlinux"}]

ASSUME SystemsAssumption == Systems \subseteq System
ASSUME OpsAssumption == Ops \subseteq {"update", "set", "remove", "list", "mount"}

-----------------------------------------------------------------------------
(* The system and its loader (sysconfig.c, bootman.c:127-163).             *)

\* cbm_get_filesystem_cap
FsCap == IF sys.fs = "fat" THEN {"FATFS"} ELSE IF sys.fs = "ext" THEN {"EXTFS"} ELSE {}

\* boot_device of cmb_inspect_root_native and cmb_inspect_root_image.
BootDevice(im) ==
    IF ~sys.force /\ (im \/ sys.uefi) /\ sys.esp THEN "esp"
    ELSE IF (im \/ ~sys.uefi \/ sys.force) /\ sys.legacy THEN "legacy" ELSE "none"

\* ... and their mask: an image is always partitioned.
Firmware(im) ==
    IF ~im THEN {IF sys.uefi /\ ~sys.force THEN "UEFI" ELSE "LEGACY"}
    ELSE IF sys.esp /\ ~sys.force THEN {"UEFI", "GPT"}
    ELSE IF sys.legacy \/ sys.force THEN {"LEGACY", "GPT"} ELSE {}

\* wanted_boot_mask of cbm_inspect_root
Wanted(im) ==
    Firmware(im) \cup (IF BootDevice(im) = "none" THEN {} ELSE {"GPT"} \cup FsCap)

\* get_capabilities of each loader; grub2 and syslinux look for their program.
Caps(l) ==
    CASE l = "uefi" -> {"GPT", "UEFI", "FATFS"}
      [] l = "grub2" /\ "grub2" \in sys.tools -> {"LEGACY", "EXTFS", "PARTLESS"}
      [] l = "syslinux" /\ "syslinux" \in sys.tools -> {"GPT", "LEGACY", "FATFS", "PARTLESS"}
      [] l = "extlinux" /\ "extlinux" \in sys.tools -> {"GPT", "LEGACY", "EXTFS", "PARTLESS"}
      [] OTHER -> {}

KnownLoaders == <<"uefi", "grub2", "syslinux", "extlinux">>

\* boot_manager_select_bootloader: the first that can do all that is wanted.
Selected(im) ==
    LET fit == {i \in 1..4 : Wanted(im) \subseteq Caps(KnownLoaders[i])}
    IN IF fit = {} THEN "none"
       ELSE KnownLoaders[CHOOSE i \in fit : \A j \in fit : i <= j]

\* Only syslinux_common_init can fail: nothing is found that it could boot from
\* (the context stays) or a probe fails (the context is freed).
Syslinux(l) == l \in {"syslinux", "extlinux"}
NoPartition == ~sys.esp /\ ~sys.legacy

-----------------------------------------------------------------------------
(* Directories.                                                            *)

\* Mutant: the directory that was set is forgotten.
BootDirDefault == "boot"

\* boot_manager_get_boot_dir
BootDir == IF bdir # "none" THEN bdir ELSE "boot"

\* The file system behind a directory.
Place(d) ==
    IF at[d] # "none" THEN at[d]
    ELSE IF d = "boot" /\ at["prefix"] # "none" THEN at["prefix"] ELSE "root"

\* Something is written below directory d.
Write(d) ==
    /\ hit' = hit \cup {Place(d)}
    /\ full' = (full \/ (d = "boot" /\ at[d] = "none"))

\* check_partitionless_boot
Partitionless ==
    /\ "PARTLESS" \in Caps(loader) /\ "UEFI" \notin Wanted(image)
    /\ full /\ BootDir = "boot"

\* A NULL context is dereferenced.
Segfault == pc' = "done" /\ ok' = FALSE /\ fault' = TRUE /\ ldr' = "freed" /\ frames' = <<>>

\* Mutant: the loader keeps the paths of its first initialisation.
SetBootDirOnly(d) == bdir' = d /\ UNCHANGED <<ldr, base, probed>>

\* boot_manager_set_boot_dir: destroy and initialise again for directory d.
SetBootDir(d) == bdir' = d /\ base' = d /\ probed' = Place(d) /\ UNCHANGED ldr

\* ... which may fail after the context was freed: destroying it again is fatal.
SetBootDirFails(d) ==
    Syslinux(loader) /\ bdir' = d /\ Segfault /\ UNCHANGED <<base, probed>>

-----------------------------------------------------------------------------
(* The steps of a command.                                                 *)

\* boot_manager_set_prefix, with boot_manager_select_bootloader and its init.
Begin(o, im) ==
    /\ pc = "off"
    /\ op' = o /\ image' = im /\ loader' = Selected(im)
    /\ bdir' = "none" /\ frames' = <<>> /\ bl' = FALSE
    /\ at0' = at /\ full0' = full /\ hit' = {}
    /\ \/ /\ loader' = "none"
          /\ pc' = "done" /\ ok' = FALSE /\ fault' = FALSE
          /\ ldr' = "none" /\ base' = "none" /\ probed' = "none"
       \/ /\ loader' # "none" /\ ~(Syslinux(loader') /\ NoPartition)
          /\ pc' = (IF o = "update" /\ im THEN "image" ELSE "detect")
          /\ ok' = TRUE /\ fault' = FALSE
          /\ ldr' = "up" /\ base' = "boot" /\ probed' = Place("boot")
       \/ /\ Syslinux(loader')     \* ... and boot_manager_free destroys it again
          /\ Segfault /\ base' = "none" /\ probed' = "none"
    /\ UNCHANGED <<sys, at, full>>

\* boot_manager_update_image: the directory must be there; initialise for it.
ImagePrepare ==
    /\ pc = "image"
    /\ \/ SetBootDir(BootDir) /\ pc' = "loader" /\ UNCHANGED <<ok, fault, frames>>
       \/ SetBootDirFails(BootDir)
       \/ pc' = "done" /\ ok' = FALSE /\ UNCHANGED <<context, fault, frames>>
    /\ UNCHANGED <<invocation, at, full, bl, hit>>

\* Mutant: setting the default looks for the boot partition over and over.
ContinueAgain(d) == IF op = "update" THEN "detect" ELSE "done"

\* Where a command goes on when detect_and_mount_boot returned, the d-th call.
Continue(d) ==
    CASE op = "update" /\ ~image /\ d = 1 -> "loader"
      [] op \in {"update", "set"} /\ ~(op = "update" /\ ~image /\ d = 1) -> "setdef"
      [] op = "remove" -> "remove"
      [] op = "list" -> "getdef"
      [] OTHER -> "done"

\* Mutant: the caller is told that it did not mount.
MountedForgets(dir) ==
    /\ frames' = Append(frames, "none")
    /\ pc' = Continue(Len(frames) + 1)
    /\ UNCHANGED <<ok, fault>>

\* It returns 0 or 1, with something to unmount in the latter case.
Mounted(dir) ==
    /\ frames' = Append(frames, dir)
    /\ pc' = Continue(Len(frames) + 1)
    /\ UNCHANGED <<ok, fault>>

\* It returns -1. The caller gives up; an update around it still unmounts.
NotMounted ==
    /\ pc' = (IF frames = <<>> THEN "done" ELSE "umount")
    /\ ok' = FALSE
    /\ UNCHANGED <<frames, fault>>

\* boot_manager_detect_and_mount_boot: a legacy system without boot partition.
NothingToMount == "LEGACY" \in Wanted(image) /\ NoPartition

\* Mutant: any content makes the directory its own boot partition.
AlreadyMountedFull == at[BootDir] # "none" \/ full

\* mount_boot returns 0 at once.
AlreadyMounted == at[BootDir] # "none" \/ Partitionless

\* ... with the boot device mounted by somebody else.
Premounted == {d \in Dirs : at[d] = BootDevice(image) /\ at[d] # "none"}

Detect ==
    /\ pc = "detect"
    /\ \/ NothingToMount /\ Mounted("none") /\ UNCHANGED context
       \/ ~NothingToMount /\ AlreadyMounted /\ Mounted("none") /\ UNCHANGED context
       \/ /\ ~NothingToMount /\ ~AlreadyMounted
          /\ \/ BootDevice(image) = "none" /\ NotMounted /\ UNCHANGED context
             \/ \E d \in Premounted :
                   \/ d = "prefix" /\ Mounted("none") /\ UNCHANGED context
                   \/ d # "prefix" /\ Mounted("none") /\ SetBootDir(d)
                   \/ d # "prefix" /\ SetBootDirFails(d)
    /\ UNCHANGED <<invocation, at, full, bl, hit>>

\* ... or mount the boot device itself; an unknown file system is an error.
Mount ==
    /\ pc = "detect" /\ ~NothingToMount /\ ~AlreadyMounted
    /\ BootDevice(image) # "none" /\ Premounted = {}
    /\ \/ /\ sys.fs # "unknown"
          /\ at' = [at EXCEPT ![BootDir] = BootDevice(image)]
          /\ pc' = "reinit" /\ UNCHANGED <<ok, frames, fault>>
       \/ NotMounted /\ UNCHANGED at
    /\ UNCHANGED <<invocation, context, full, bl, hit>>

\* ... and initialise the loader for what is now below the directory.
Reinit ==
    /\ pc = "reinit"
    /\ \/ SetBootDir(BootDir) /\ Mounted(BootDir)
       \/ SetBootDirFails(BootDir)
    /\ UNCHANGED <<invocation, at, full, bl, hit>>

\* boot_manager_update_bootloader and boot_manager_modify_bootloader: whether it
\* is needed is for the loader's own module; a failure costs the result only.
\* The boot loaders of UEFI and extlinux -i write below the boot directory; the
\* program of syslinux and the boot record go to the disk itself, not through a
\* directory, and GRUB2's scripts are on the root file system by design.
UpdateLoader ==
    /\ pc = "loader"
    /\ \/ /\ ~Syslinux(loader) /\ bl' = TRUE
          /\ pc' = "kernels" /\ UNCHANGED <<context, full, hit, ok, fault, frames>>
       \/ /\ loader # "grub2" /\ SetBootDir(BootDir)
          /\ pc' = "kernels" /\ bl' \in BOOLEAN
          /\ IF loader = "syslinux" THEN UNCHANGED <<full, hit>> ELSE Write(BootDir)
          /\ UNCHANGED <<ok, fault, frames>>
       \/ SetBootDirFails(BootDir) /\ UNCHANGED <<bl, full, hit>>
    /\ UNCHANGED <<invocation, at>>

\* The initrds and the kernels are installed; then boot_manager_set_default_kernel,
\* for which a native update may find no kernel. A failure ends an image update
\* and sends a native one to its clean-up.
InstallKernels ==
    /\ pc = "kernels" /\ Write(BootDir)
    /\ \/ pc' = "detect" /\ UNCHANGED ok
       \/ ~image /\ pc' = "gc" /\ ok' = bl
       \/ pc' = (IF image THEN "done" ELSE "umount") /\ ok' = FALSE
    /\ UNCHANGED <<invocation, context, at, bl, frames, fault>>

\* The loader's set_default_kernel, or get_default_kernel for list-kernels.
LoaderDefault ==
    /\ pc \in {"setdef", "getdef"} /\ pc' = "umount"
    /\ IF pc = "setdef" THEN Write(base) ELSE UNCHANGED <<full, hit>>
    /\ ok' \in BOOLEAN
    /\ UNCHANGED <<invocation, context, at, bl, frames, fault>>

\* boot_manager_remove_kernel, by the command or in the collection of update.
RemoveKernels ==
    /\ pc \in {"remove", "gc"} /\ pc' = "umount"
    /\ Write(BootDir)
    /\ ok' \in {ok, FALSE}
    /\ UNCHANGED <<invocation, context, at, bl, frames, fault>>

\* umount_boot, if this call mounted; its failure is logged only. A native
\* update goes on with the collection after setting the default.
Umount ==
    /\ pc = "umount"
    /\ LET dir == frames[Len(frames)] IN
       /\ \/ dir = "none" /\ UNCHANGED <<at, fault>>
          \/ dir # "none" /\ at' = [at EXCEPT ![dir] = "none"] /\ UNCHANGED fault
          \/ dir # "none" /\ fault' = TRUE /\ UNCHANGED at
       /\ IF Len(frames) = 1 THEN pc' = "done" /\ UNCHANGED ok
          ELSE pc' = (IF ok THEN "gc" ELSE "umount") /\ ok' = (ok /\ bl)
    /\ frames' = SubSeq(frames, 1, Len(frames) - 1)
    /\ UNCHANGED <<invocation, context, full, bl, hit>>

\* boot_manager_free
Exit ==
    /\ pc = "done" /\ pc' = "off"
    /\ UNCHANGED <<invocation, context, at, full, frames, ok, bl, fault, hit>>

-----------------------------------------------------------------------------
\* Any machine; the boot device may be mounted somewhere, and a partition of
\* another purpose on the boot directory.
Init ==
    /\ sys \in Systems /\ full \in BOOLEAN
    /\ at \in [Dirs -> Devices \cup {"foreign", "none"}]
    /\ at["other"] \in {"none"} \cup {d \in Devices : sys[d]}
    /\ at["prefix"] \in {"none"} \cup {d \in {"legacy"} : sys[d]}
    /\ at["boot"] \in {"none", "foreign"} \cup {d \in Devices : sys[d]}
    /\ pc = "off" /\ op = "none" /\ image = FALSE
    /\ bdir = "none" /\ loader = "none" /\ ldr = "none" /\ base = "none" /\ probed = "none"
    /\ frames = <<>> /\ ok = FALSE /\ bl = FALSE
    /\ at0 = at /\ full0 = full /\ fault = FALSE /\ hit = {}

Mounting == Detect \/ Mount \/ Reinit \/ Umount

Next ==
    \/ \E o \in Ops, im \in BOOLEAN : Begin(o, im)
    \/ Mounting \/ ImagePrepare \/ UpdateLoader \/ InstallKernels \/ LoaderDefault
    \/ RemoveKernels \/ Exit

Spec == Init /\ [][Next]_vars

-----------------------------------------------------------------------------
(* Properties.                                                             *)

PlacesOK ==
    /\ sys \in Systems /\ at \in [Dirs -> Devices \cup {"foreign", "none"}]
    /\ op \in Ops \cup {"none"} /\ loader \in {"none", "uefi", "grub2", "syslinux", "extlinux"}
    /\ bdir \in Dirs \cup {"none"} /\ base \in Dirs \cup {"none"}
    /\ ldr \in {"none", "up", "freed"}
    /\ hit \subseteq Devices \cup {"foreign", "root"}

CallsOK == Len(frames) <= 2 /\ \A i \in 1..Len(frames) : frames[i] \in Dirs \cup {"none"}

FlagsOK ==
    /\ full \in BOOLEAN /\ full0 \in BOOLEAN /\ image \in BOOLEAN /\ ok \in BOOLEAN /\ bl \in BOOLEAN
    /\ fault \in BOOLEAN

\* Every variable has its type.
TypeOK == PlacesOK /\ CallsOK /\ FlagsOK

\* Whenever the loader is used, its paths are those of the boot directory and
\* were looked up on the file system that is there now: it was initialised
\* again after every mount and every change of directory (bootman.c:598-603).
PathsFresh ==
    pc \in {"kernels", "setdef", "getdef", "remove", "gc"} =>
        ldr = "up" /\ base = BootDir /\ probed = Place(base)

\* The kernels, the loader's configuration and what the collection removes are
\* on one file system, although set_default_kernel looks for the boot partition
\* a second time (bootman.c:402-465): a native command never splits them.
OnePlace == ~image => Cardinality(hit) <= 1

\* The boot directory was its own boot partition when the command began: nothing
\* was mounted there and it had something in it, before anything was written.
OwnPartition ==
    /\ "PARTLESS" \in Caps(loader) /\ "UEFI" \notin Wanted(image)
    /\ full0 /\ at0["boot"] = "none"

\* A native command on a machine with a boot device writes there and nowhere
\* else, whatever its loader, unless it found something else mounted on the boot
\* directory or the directory to be its own boot partition (bootman.c:535-570,
\* 1109-1115): its own writes never make it one.
ReachesBootDevice ==
    ~image /\ BootDevice(FALSE) # "none" /\ at0["boot"] \in {"none", BootDevice(FALSE)}
    /\ ~OwnPartition => hit \subseteq {BootDevice(FALSE)}

\* A command leaves the mount table as it found it, unless it is mount-boot, the
\* unmounting failed or the loader's initialisation did (update.c:45-50).
Restored == pc = "off" /\ op # "mount" /\ ~fault => at = at0
=============================================================================
