# clr-boot-manager in TLA+

TLA+ models of clr-boot-manager, the program that keeps the kernels, the boot
loader and its configuration on a boot partition in step with what the
distribution has installed. TLC checks the models on small instances; TLAPS
proves their safety properties for every instance. Paths below are
relative to the repository's `src/` directory unless they name a module.

## 1. The system

clr-boot-manager is a sequential command-line program. It is run by the
post-install step of kernel packages (`update`), by the administrator
(`set-kernel`, `remove-kernel`, `list-kernels`, `set-timeout`, ...) and by a
service after a successful boot (`report-booted`). It keeps no state of its own
besides files: every run rediscovers the world, decides, and writes. What makes
it hard is therefore not threads but *what is on disk when it starts and when it
is cut off*: the ESP is a FAT file system shared with other systems, writes are
several system calls, power may go at any of them, and the next run has to take
what it finds for what it is.

| Component | State | Operations | What makes it correct |
|---|---|---|---|
| Native update (`bootman/update.c`) | kernel array, types left, tips and last-good kernels, removal array, result | `boot_manager_update_native`, `boot_manager_update_bootloader` | the selection of each type ends up bootable; never discards the running kernel, a selection or the last good kernel; repeating it writes nothing |
| Kernel discovery and selection (`bootman/kernel.c`, `bootman.c`) | kernel files, `default-<type>` links, `k_booted_*` files, uname | `get_kernels`, `get_default_for_type`, `get_running_kernel` and its fallback, `get_last_booted` | the kernel found is the one meant; releases are compared as numbers |
| Kernel installation and removal (`kernel.c`, `bootman.c`) | blob and initrds on the ESP; blob, cmdline and k_booted file on the root file system | `install_kernel`, `remove_kernel` | an interrupted one is completed or undone later |
| systemd-boot class: entries and `loader.conf` (`bootloaders/systemd-class.c`) | loader entries, default | `install_kernel`, `remove_kernel`, `set_default_kernel` | the default names a kernel that boots |
| systemd-boot class: the program | a vendor copy and a default copy | `needs_install`, `needs_update`, `install`, `update` | both current after success; one survives a mishap |
| Shim loader (`bootloaders/shim-systemd.c`) | seven files on the ESP, `has_boot_rec` | `init`, `needs_install`, `needs_update`, `install`, `destroy` | complete after success; record only after the files; idempotent |
| EFI boot records (`lib/bootvar.c`) | BootXXXX, BootOrder; `boot_recs`, `boot_recs_cnt` | `init`, `has_boot_rec`, `create`, `destroy` | no foreign record overwritten, no duplicates, other systems' order kept |
| Commands (`cli/ops/`) | none | update, set-kernel, remove-kernel, report-booted, mount, timeout, console mode | each leaves a state `update` copes with |
| File utilities (`lib/files.c`) | files, their `.TmpWrite` copies | `copy_file_atomic`, `file_set_text`, `file_get_text`, `cbm_files_match` | old or new content, never another |
| Mounting (`bootman.c`, `cli/ops/mount.c`) | mount table, boot directory, the loader's paths | `detect_and_mount_boot`, `mount_boot`, `umount_boot`, `set_boot_dir` | all of a command's writes go to one file system, the boot device if there is one; unmounted by who mounted it |
| System configuration and loader selection (`bootman/sysconfig.c`, `bootman.c`) | wanted capabilities, boot device | `cbm_inspect_root`, `select_bootloader` | the loader chosen can boot the device it is written to |
| Freestanding initrds (`bootman.c`) | the user's and the vendor's directory, the ESP, the entries | enumerate, copy, remove | entries name what exists; the user's file or mask wins |
| GRUB2, syslinux, extlinux (`bootloaders/`) | the queue; one menu for all kernels; links | as systemd-boot | the menu offers what is installed; the default is not collected |
| Probing, kernel command line, timeout, os-release | values read at start | pure functions over I/O | |

How they interact: `update` calls discovery, then the loader's
`needs_install`/`needs_update`/`install`/`update`, then per kernel type the
installation of a blob (`kernel.c`) followed by the loader's `install_kernel`,
then the loader's `set_default_kernel`, then `remove_kernel` for what is left
over. Before that, the system is inspected, a loader selected and the boot
partition mounted; `set_default_kernel` looks for the boot partition once more.
The freestanding initrds are listed before mounting, copied before the first
kernel and cleaned up at the end. The shim loader reuses the systemd class for
entries and calls the boot records. `report-booted` is a second process that
rewrites a file `update` reads. Other systems share the ESP and NVRAM.

The hard behaviours, each listed with its source line under "hazards" in
`PROJECT.json`: power loss and kill between any two system calls; failing system
calls whose result is only logged; buffered writes that are lost at `fclose`;
decisions taken at discovery and used much later, while `report-booted` runs;
releases narrowed to `int16_t`; sequences of commands that leave dangling links
or an unknown running kernel; an NVRAM enumeration that stops part-way; two
processes that share a temporary name; directories and links that packages
change between two readings; a loader whose paths were resolved before the
partition was mounted.

## 2. Modules

| Module | Models |
|---|---|
| `NativeUpdate` | native update with kernel discovery, installation, removal, loader entries, `loader.conf`, set-kernel, remove-kernel, report-booted |
| `MCNativeUpdate` | the kernels, types and releases of its runs |
| `NativeUpdateProofs` | type correctness; what garbage collection spares and leaves bootable |
| `NativeUpdateSuccessProofs` | what a successful update delivers, and that the next one only looks |
| `BootVar`, `BootVarProofs` | the boot records, a module of its own and a library for the next; its proofs, with the lemmas about sorting and filtering |
| `ShimSystemd`, `ShimSystemdProofs` | the shim loader, which composes `BootVar` by INSTANCE; its proofs |
| `SystemdBoot`, `SystemdBootProofs` | systemd-boot's two copies, and their proofs |
| `MountBoot`, `MCMountBoot`, `MountBootProofs` | system inspection, loader selection, mounting and the order of a command's writes; the machines of its run; its proofs |
| `AtomicFiles` | abstract: what the header of `copy_file_atomic` promises |
| `AtomicCopy` | `copy_file` and `copy_file_atomic`, step by step, for several processes |
| `Freestanding`, `FreestandingProofs` | the freestanding initrds; extends `AtomicCopy` and implements `AtomicFiles`; its proofs, the refinement among them |
| `LegacyBoot`, `LegacyBootProofs` | GRUB2, syslinux and extlinux under update, set-kernel and remove-kernel; their proofs |

### NativeUpdate

State on disk: `src`, `cmdl` and `kboot` are the kernels with a blob, a cmdline
file and a k_booted file; `link` the `default-<type>` symlinks; `esp` and `conf`
each kernel's blob and entry on the ESP, as *absent*, *stale* (differs from what
would be written), *good* or, for an entry, *empty*; `ldef` what `loader.conf`
names, `Torn` if it is empty. `uname` is the running kernel. The process is a
program counter `pc` with the kernel at hand (`job`), the kernel array (`snap`),
its *boots* flags, the running kernel found (`run`), the types left (`todo`),
the tips and last-good kernels (`keep`) and the removal array (`removals`).
`clean` and `disturbed` are history: the last update was undisturbed and nothing
happened since; something failed or happened during this one.

Each system call that changes a file a property can see is an action:
`InstallBlob` (compare, copy, unlink) and `RenameBlob`; `CompareEntry` (with
unlink), `CreateEntry` (fopen) and `FlushEntry` (fclose); `RemoveBlob`,
`RemoveCmdline`, `RemoveKboot`, `RemoveSource`, `RemoveEntry`; `CompareDefault`,
`CreateDefault`, `FlushDefault`. The control of `boot_manager_update_native` is
`Discover`, `UpdateBootloader`, `CopyFreestanding`, `RepairRunning`,
`InstallTip`, `InstallLastGood`, `ProposeRemovals`, `CollectNext`, `Cleanup`,
with the code's early returns (a failed freestanding copy returns at once; a
failed install goes to the clean-up; a failed repair is ignored).

What is abstracted: a kernel is its identity (type, version, release); file
names and uname are not parsed, but the release goes through the cast to
`int16_t`. `esp[k]` stands for the blob and its initrds. Modules, headers,
config files and legacy paths are removed with the source. The order of removals
across types is left open (the code follows its hash map); within a type it is
the code's. Sorting is unstable, so equal releases are taken in either order.
An *empty* file is fatal to the next reader because `cbm_mapped_file_open` tests
`mmap`'s result against NULL: `Segfault`. The loader update and the freestanding
initrds are fallible steps here and have modules of their own. Mounting is
assumed to have succeeded.

A power loss keeps every completed step and nothing of the one in progress: the
code calls `sync` after each copy, unlink and rename, and where it does not (the
text written by `file_set_text`) the step is split.

### BootVar

`nvram` maps numbers to *none*, *other* or *ours*; `order` is BootOrder, empty
when the variable is missing; `recs` and `cnt` are the list and `boot_recs_cnt`,
kept apart because the code updates them apart. Each action takes the step its
caller continues with. `FreeNo` is `bootvar_find_free_no` including its array
filled up with zeros (`Ascending` is what qsort makes of the numbers);
`FindsFirstFree` compares it with the definition "least unused number". `Filter`
is the loop of `bootvar_push_to_boot_order` that copies the other entries. If the
list is longer than the count, the array is overrun and any number may result
(`FreeNos`). `NvFaults` says which efivar calls may fail.

### ShimSystemd

`esp` maps each of the seven files to the source it equals, *stale* or *absent*.
The steps are init, the look-up of the boot record (once per process, as
`config.has_boot_rec` is), the decision of `boot_manager_update_bootloader`, the
second init by `boot_manager_modify_bootloader`, the directories, the copies in
the code's order (unlink and rename apart) and the record through `BootVar`.
The two initialisations before and after mounting are one. `mode` is how the
program is used: on an installed system, on one with `--no-efi-update`, or to
create an image; in an image the fallback may be shim or systemd-boot, whichever
the code left there. A look-up that misses our record because a call failed
counts as a disturbance.

### SystemdBoot

`blob` is the state of the vendor and of the default copy. `install` replaces
both, `update` those that differ, vendor first.

### MountBoot

A machine (`sys`) is firmware, `CBM_FORCE_LEGACY`, the partitions that
`get_boot_device` and `get_legacy_boot_device` find, the file system and the
loader programs installed; `at` is the mount table of three directories: the
boot directory, another place where a user may have mounted the boot device, and
the prefix. `full` says whether the unmounted boot directory has something in
it, `full0` whether it had when the command began. `BootDevice`, `Firmware`,
`Wanted`, `Caps` and `Selected` are `cbm_inspect_root` and
`boot_manager_select_bootloader` as functions. Of the process there are
`abs_bootdir` (`bdir`), the loader's context (`ldr`), the directory its paths
point to and what was mounted there when they were resolved (`base`, `probed`),
and `frames`, what each `detect_and_mount_boot` under way has to unmount: two
while `update` is in `set_default_kernel`. `hit` is history: the file systems
the command wrote to through a directory: kernels, entries, configuration, the
programs of the UEFI loaders and those of `extlinux -i`. What goes to the disk
itself (the boot record, and the program that `syslinux` installs on the
partition found) and GRUB2's scripts, which belong on the root file system, are
not counted. Whether a loader update is needed and what installing a kernel does
is left to the other modules. A failed initialisation of syslinux frees its
context, and destroying it again dereferences NULL: `Segfault`. The shim loader
and systemd-boot are one here (`uefi`); GRUB2 is built in.

### AtomicFiles, AtomicCopy and Freestanding

`dst` and `tmp` are each target and its `.TmpWrite` file: a complete content,
`part` (being written, or cut short) or nothing. Every process has its position
in `copy_file_atomic` (`cp`), its target (`cur`), what its open source holds
(`got`, *short* once somebody truncated it) and the name its descriptor is now
to be found under (`fd`): a descriptor opened on `.TmpWrite` follows the file
when another process renames it. `Freestanding` adds the two directories (a
content, empty, or a link to /dev/null, which masks the name), the map of listed
names, the entries of the kernels and the clean-up. Which kernels an update keeps
is any set, as `NativeUpdate` decides it. The order of the kernels and of the
names is left open (hash map, readdir); that one of the initrds is loaded first
(microcode) is left out.

`bad` holds the kernels whose entry was not written or not removed; `emptied` is
history: the listed names whose source was emptied or masked after the listing.

`Freestanding` implements `AtomicFiles` (property `Replaces`): `content` is
`dst`, `staged` is `tmp` where it is complete, `kept` the names listed by an
update under way. The abstract specification lets a target be *taken away* only
while a complete replacement is staged, or when nobody keeps it, and only staged
content gets there. It does not say that the target comes back: after an
interruption between unlink and rename the next attempt truncates the staged
copy and may fail in turn (`Discard` is therefore allowed at any time), and the
target stays absent until an update succeeds. That this happens is `Converges`.
Every step of the copy, a failure, a power loss or a clean-up is a step of the
abstract specification or a stutter.

### LegacyBoot

`menu` is GRUB2's script in `grub.d` or syslinux.cfg: missing, empty, or a list
of kernels with a default; `exec` the script's execute bit, `cfg` what
grub-mkconfig makes of it, `vmlinuz` the link. The machine boots from `cfg` or
`menu` (`BootMenu`). `queue` is the loader's `kernel_queue`, which starts empty
in GRUB2 and with every kernel of the kernel directory in syslinux. The control
of update is that of `NativeUpdate` for one type of kernels, with the tip and
the last good kernel any that the rules allow; where the running kernel is not
among those found, the fallback takes any of them or none, as releases are left
out. A package may change kernels and link at any step. set-kernel hands over a
kernel of which only type, version and release are set, so GRUB2 prints `Null`
for its paths. grub-mkconfig is external: it runs the script if it is executable
and replaces grub.cfg.

## 3. Runs

Deadlock is checked in every run.

| Run | Bounds | Shows |
|---|---|---|
| `native_update` | 3 kernels of a type, 2 installed; failing calls; 2 events | `UpdateDelivers`, `GcSpares`, `GcLeavesBootable`, `Idempotent`, `DefaultSwitchedToBootable` |
| `two_types` | 4 kernels of 2 types; 1 event | the inductive invariants `GcInv` and `KeptBootable` across types |
| `liveness` | 2 kernels; writes lost on a full ESP; 3 events; fairness | `Terminates`, `SelectionInstalled` |
| `boot_records` | 4 numbers, every initial table; failing writes; 2 events | `NoDuplicate`, `FindsFirstFree`, `NeverOverwrites`, `OthersKeepOrder` |
| `shim` | three modes of use; 2 numbers; every NVRAM call may fail; 3 failing file operations or events; fairness | `LoaderCurrent`, `CreatedBootsFirst`, `RecordAfterFiles`, `Idempotent`, `CurrentAgain` |
| `systemd_boot` | 3 mishaps, 3 changes | `LoaderCurrent`, `CopiesInv`, `OneCopySurvives`, `Idempotent` |
| `mount_boot` | every machine of `System`, every mount table, all commands in any sequence, native and image | `PathsFresh`, `OnePlace`, `ReachesBootDevice`, `Restored` |
| `freestanding` | 2 names, 2 kernels, 1 process; 2 failures or events; fairness | `NamedInFull`, `CleanSparesNamed`, `QuietDelivers`, `Replaces` (refinement), `Ends`, `Converges` |
| `legacy_boot` | GRUB2 and syslinux, 3 kernels; 2 failures or events; fairness | `UpdateDelivers`, `MenuStays`, `CollectsNoDefault`, `Settles` |

Why the bounds suffice. Three kernels of a type are the running one, the
selection and the last good one, all different, or one of them and two to
collect; a second type shows that the types do not disturb each other. An event
is anything from outside (power loss, kill, package, damage, command, report).
Power loss, kill and a boot report come at any step of a process. Packages,
damage and other systems' changes come at any step in `Freestanding` (the
directories) and `LegacyBoot` (kernels and link), and between two processes in
`NativeUpdate`, `SystemdBoot`, `ShimSystemd` and `BootVar`: update is run by the
packages' post-install step, and a second package that changes the kernels
meanwhile is left out there. Two events are enough for a damage or an
interruption and one more during the repair, and every update in between is
free. `native_update` starts from machines that booted their loader's default
(`MCInit`), the other runs of `NativeUpdate` from every installed system. Four
boot numbers give a gap at the start, in the middle, none, and a full table.
Failing calls are not bounded in `NativeUpdate` and `BootVar`; in `SystemdBoot`
they are, because `OneCopySurvives` counts them, and in `ShimSystemd`,
`Freestanding` and `LegacyBoot` failures and outside events share one bound, so
that the same behaviours can be checked for liveness. Two suffice there for an
interruption and another during the repair. Two initrd names are one that is
wanted and one that goes, or one that is being replaced while another is listed;
three kernels are again the default, the running one and one to collect.
`mount_boot` has no bound: the machine and the mount table are finite.

Runs that are expected to fail show where the code and what the repository says
of it part; "findings" in `PROJECT.json` quotes the lines:

| Run | What happens |
|---|---|
| `torn_entry` | update is killed between creating and writing the running kernel's loader entry, and the machine stays up; every later update dies reading the empty file and repairs nothing |
| `two_writers` | two updates at once share `.TmpWrite`: one truncates it, the other renames it into place; the initrd of every kernel is cut short until the first has written on |
| `set_kernel` | under GRUB2 set-kernel writes a menu whose only entry has no paths, since the queue is empty and the kernel handed over has none; syslinux, which compares type, version and release, is right |

Seen in the models, without a run of their own:

* `NativeUpdate`: a release above 32767 is negative after the cast to `int16_t`
  (`kernel.c:262`), and the most recent booted kernel is collected, though the
  man page promises to keep it; the proof of `GcSpares` therefore assumes
  `ReleasesFit`. A removal cut short after the cmdline file leaves files that no
  later update sees (the TODO at `kernel.c:140`).
* `BootVar`: with no boot record at all `FreeNo` is -1 and none is ever created,
  because the test for an empty list comes before "no records"
  (`bootvar.c:222-227`); `FindsFirstFree` is about lists that are not empty. When
  the enumeration of the EFI variables fails part-way (`bootvar.c:129`), which is
  only logged (`shim-systemd.c:398-400`), there are records in the list and the
  count is 0: the number taken is 0, and another system's record is overwritten.
  `BootVar` has the case (`NvFaults = {"read"}` refutes `NeverOverwrites` at
  once); the run `boot_records` therefore lets only the writes fail.
* `ShimSystemd`: power lost between the record and BootOrder leaves a record that
  never gets into the order. In image mode the fallback is compared with shim but
  written with systemd-boot (`shim-systemd.c:264`), and with `--no-efi-update` a
  missing record alone calls for an installation: every update writes all files
  again, though the README says that only what needs it is updated. An update of
  an installed system replaces `EFI/Boot/BOOTX64.EFI` (`shim-systemd.c:332`),
  which the comment at lines 54-55 reserves to images.
* `SystemdBoot`: a second mishap while repairing may leave no copy, since
  `install` unlinks the healthy copy first (`systemd-class.c:638`).
* `MountBoot`: an image update whose boot directory is not a mount point gets to
  `set_default_kernel`, which mounts the host's ESP on it or switches to where
  the host has mounted it (`bootman.c:445`), so that kernels and configuration
  part; `update.c:65-66` says that no attempt is made to mount a boot partition,
  and `OnePlace` is about native commands only. The comment at `bootman.c:63`
  expects a later loader to override GRUB2, but the first match wins. syslinux
  installs its program on the partition found, whatever directory the kernels
  go to.
* `Freestanding`: after a failed installation, or with the running kernel
  unknown, the clean-up removes initrds that entries of kernels it did not
  rewrite still name; `CleanSparesNamed` is about the entries it wrote, in every
  case, and about all entries if the running kernel is known and nothing failed.
  A source emptied or masked between its listing and its copy becomes an empty
  initrd, which every entry names until the next update (`files.c:430-437`);
  `NamedInFull` excepts it and nothing else. The copy of an initrd that was
  masked later stays on the ESP, since the clean-up finds the mask's key
  (`bootman.c:1044`); `Delivered` excepts it. A source truncated during its copy
  makes `copy_file` spin for ever.
* `LegacyBoot`: power lost between the writing of the GRUB2 script and its chmod
  leaves a script that no update makes executable, since its text is right
  (`grub2.c:445`), and grub.cfg loses its entries; an empty script kills every
  update. syslinux.cfg lists kernels that were collected until the next update,
  because the queue starts with all of them (`syslinux-common.c:285`) and
  `syslinux_remove_kernel` does nothing. A package that moves the vendor's link
  during an update makes it set a default that it then removes.

### Fairness

`NativeUpdate!FairSpec`: the process runs on (weak fairness of its steps; it
waits for nobody), a started `report-booted` completes, and updates keep being
called, which the packages' post-install step does. `SelectionInstalled` excepts
states with an empty text file, which `torn_entry` shows to be permanent.
`ShimSystemd!FairSpec`, `Freestanding!FairSpec` and `LegacyBoot!FairSpec` are the
same for their components: weak fairness of the process's steps together and of
starting it again. Failures and events are bounded, so that power is not lost
and calls do not fail for ever; nothing could be promised if they did. `Ends`
and `Converges` except a process that spins on a truncated source; `Settles`
excepts a GRUB2 script that is empty or not executable and a running kernel of
another vendor.

## 4. Proofs

Every safety property of the passing runs is a theorem, checked by tlapm for
every value of the constants. What the runs show for three kernels, four boot
numbers or two events holds for any number of them.

### Assumptions

On constants, evaluated by TLC in every run: `KernelAssumption` (types of the
constants), `IdentityAssumption` (type, version and narrowed release determine a
kernel, as the file name does), `BootVarAssumption`, `ShimAssumption`,
`SystemdBootAssumption`, the two `BoundAssumption`s, `SystemsAssumption`,
`OpsAssumption`, `LoadersAssumption` (bounds are naturals; machines, commands,
modes and loaders are those of the code), `ContentsAssumption`,
`SourcesAssumption` and `NamesAssumption` (a file's content is not one of the
markers such as *part*).

Some theorems have a hypothesis, stated in the theorem. Each names a situation
in which the code does not do what the property says:

| Hypothesis | Of | Without it |
|---|---|---|
| `ReleasesFit` | `GcSpares` | a release of 32768 is negative after the cast, and the most recent booted kernel is collected |
| `"flush" \notin Faults` | `GcLeavesBootable`, `KeptBootable`, `NativeUpdate!UpdateDelivers`, `DefaultSwitchedToBootable` | `file_set_text` ignores `fclose`, so update reports success with an empty entry on a full ESP |
| `ReleasesDiffer` | `NativeUpdate!Idempotent` | of two kernels of a type with one release the unstable sort may take the other one next time |
| `Readable` | `NoDuplicate`, `NeverOverwrites`, `OthersKeepOrder` | the number is chosen from a list that an enumeration left incomplete |
| `OneProcess` | all of `FreestandingProofs` | two updates share `.TmpWrite`; `two_writers` shows the torn initrd |

`native_update` keeps to them with the values of its constants (so do
`two_types`, `boot_records` and `freestanding`); everything else is proved as it
stands, with failing calls and interruptions at any step, and changes from
outside where the module has them (section 3).

### Native update

* `TypeCorrect`: `[]TypeOK`, part by part.
* `GcInvariant`: `[](TypeOK /\ GcInv)`. `GcSpares` is about a single step late in
  an update; why it holds was settled when the arrays were built. `GcInv` carries
  that along: `ControlInv` (which operation a step belongs to), `PlanOnDisk` (the
  arrays agree with the disk, up to `report-booted` and the removals done so
  far), `SelectionKept` and `LastGoodKept` (each type worked off keeps its
  selection and a last good kernel), `RemovalsSpare` (nothing kept is in the
  removal array, nor will be).
* `UpdateSpares`: `GcSpares`. Only a removal discards anything (`DiscardsJob`),
  and only the kernel at hand, which `GcInv` says is not needed. That a last good
  kernel exists (`LastBootedHighest`) rests on a maximum of a bounded set of
  integers, from the library's well-founded induction.
* `UpdateLeavesBootable`, `KeptStaysBootable`: `GcLeavesBootable` from the
  additional invariant `KeptBootable`: what is kept is bootable or being
  installed.
* `DeliverInvariant` and `SuccessDelivers`: a success is the end of a long
  sequence, so `DeliverInv` accounts for every kernel found (kept, running, still
  to be decided on, or to be removed) at every step, ties the default to the
  running type (`LinkTyped`, `DefaultInv`) and says how a success is reached
  (`RetInv`, `EndInv`). None of the parts is inductive without the others.
* `SwitchesToBootable`: `loader.conf` changes in one step, to `NewDefault`, which
  by then is a kernel kept and so bootable.
* `UpdateIdempotent`: `IdemInv` relates two updates. While the first is
  undisturbed, what it has dealt with is installed and its arrays are the disk's
  (`InstalledInv`, `StillInv`), and it keeps exactly what the rules choose
  (`ChoiceInv`); at its end the disk is `Settled`, that is, what the rules would
  choose *again from what is left* is installed and nothing is to be collected;
  and on a settled disk an update only looks (`CleanInv`). The middle part is the
  argument: collecting does not change what would be chosen.

### The loaders

* `SystemdBoot`: `CopiesInvariant`, `UpdateDelivers`, `SurvivesOneMishap`,
  `UpdateIdempotent`. `CopiesInv` says which copies may be missing where after
  how many mishaps; `OneCopySurvives` alone is not inductive, since it speaks of
  the time between updates only.
* `ShimSystemd`: `ShimInvariant` and from it `UpdateLeavesCurrent`,
  `SuccessBootsFirst`, `FilesBeforeRecord`, `UpdateIdempotent`. `CopyInv` says
  that the files copied so far are in place; one target occurs twice in an image,
  so while it is being replaced the earlier copy is excepted. The steps of
  `BootVar` are used through its INSTANCE.
* `LegacyBoot`: `MenuInvariant` and from it `TypeCorrect`, `UpdateDeliversMenu`,
  `MenuStaysBootable`, `DefaultNotCollected`. The order matters: the kernels kept
  are installed and queued (`InstallInv`) before the menu is replaced, and the
  menu is the new one or empty (`MenuInv`) before anything is collected.
  `QuietInv` and `QuietMenuInv` add that an undisturbed update works on what it
  found.

### Boot records

`TypeCorrect`, `FreeNumberFound`; and with `RecordsInvariant` `AtMostOneRecord`,
`OthersNotWritten`, `OrderOfOthersKept`. The invariant says that between reading
and deciding the list is what is in NVRAM and the count its size; `NoDuplicate`
and `NeverOverwrites` need both. `FreeNumberFound` and `OrderOfOthersKept` are
about data of any size: that a finite set can be sorted, that the loop finds the
first gap, and that filtering twice is filtering once are inductions over numbers
and lengths. The library's induction theorems take an operator and cannot be
instantiated here; the lemmas argue with a least counterexample instead
(`LeastNumber`, `ShortestSequence`), and `Filter` is a recursive function of the
position for that reason.

### Mounting

`MountInvariant` and from it `TypeCorrect`, `LoaderPathsFresh`, `TableRestored`,
`WritesOnePlace`, `BootDeviceReached`. `FramesInv` gives each step the number of
`detect_and_mount_boot` calls under way, `TableInv` says that the mount table
differs from the one found by what the first of them mounted. The argument behind
`OnePlace` is `Found`: whatever the first call found or did, the second, made by
`set_default_kernel`, finds nothing left to mount and does not move the boot
directory. `ReachesBootDevice` excepts a directory that was its own boot
partition *when the command began*. The code asks when it looks for the boot
device, and its own writes could make an empty directory look like one;
`DeviceInv` says why they do not: before the first call nothing is written
(`full = full0`), and from then on the boot device is what is at the boot
directory.

### Freestanding initrds

`UpdateInvariant` and from it `EntriesNameInFull`, `CleanUpSpares`,
`TargetsWhole`, `UndisturbedDelivers` and the refinement `ReplacesAtomically`.
`CopyInv` says that the one descriptor there is is on the `.TmpWrite` file of
the target at hand and that the target goes only when that file is complete;
`NamedInv` and `EntryInv` carry what has been copied and what entries name to
the clean-up. `EmptyInv` follows an empty content from the source through the
open descriptor and the `.TmpWrite` file to the target: it gets there only if
the source was emptied after it was listed. `CleanUpSpares` is unconditional for
the entries this update wrote; for the others it assumes what the property says,
a known running kernel and no kernel that failed. The refinement has a lemma per
kind of abstract step: opening, writing and failing change only what is staged,
unlinking takes a target away that has a complete replacement, renaming puts it
there, a clean-up discards what no update under way has listed.

### Only model-checked

Liveness under fairness, which is out of the prover's reach: `Terminates`,
`SelectionInstalled`, `CurrentAgain`, `Ends`, `Converges`, `Settles`.

## 5. Plan

The components that carry the program's logic are modelled and the safety
properties of their runs proved. What is left:

1. Where a hypothesis can be narrowed: `GcLeavesBootable` with lost writes, for
   kernels whose entries were not rewritten; `NoDuplicate` when a read fails
   before the list is used.
2. The merging and removal of command line fragments as operators against a
   reference definition.

## 6. Not modelled

* The kernel command line (`lib/cmdline.c`): text handling, character by
  character. Reading it shows that the removal of a fragment looks at its first
  occurrence only and checks its right end only (line 187).
* Timeout and console mode: one value each, written whole, after which `update`
  is run; in the models the configuration files they end up in are replaced as a
  whole.
* Argument parsing, logging, string building, os-release parsing and the blkid
  probe have no state that a sequence of steps could spoil; what the probe finds
  is the machine of `MountBoot`.
* libnica is vendored. `sd_class_remove` is called by no command and
  `shim_systemd_remove` does nothing; nor do the `remove` operations of GRUB2 and
  syslinux, which no command calls either.
