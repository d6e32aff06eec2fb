----------------------------- MODULE ShimSystemd -----------------------------
(***************************************************************************)
(* The shim + systemd-boot loader (bootloaders/shim-systemd.c): seven      *)
(* files on the EFI system partition and one boot record in NVRAM, and     *)
(* what boot_manager_update_bootloader (update.c) does to them.  The boot  *)
(* records are those of BootVar, whose calls are steps of this process.    *)
(***************************************************************************)
EXTENDS Integers, Sequences, FiniteSets

CONSTANTS
    Modes,          \* how clr-boot-manager is used: native, noefi or image
    IoFaults,       \* file operations may fail, within MaxChanges
    MaxNo, NvFaults, MaxChanges     \* of BootVar

ASSUME ShimAssumption ==
    Modes \subseteq {"native", "noefi", "image"} /\ IoFaults \in BOOLEAN

VARIABLES
    nvram, order, recs, cnt, rec, has, status, pc, changes,     \* of BootVar
    mode,       \* an installed system, one with --no-efi-update, or an image
    esp,        \* content of each file: absent, stale, or the source it equals
    next,       \* index of the file being copied
    ret,        \* result of boot_manager_update_bootloader
    disturbed,  \* a file operation of this process failed
    clean       \* the last update was undisturbed and nothing changed since

NV == INSTANCE BootVar

loader == <<mode, esp, next, ret, disturbed, clean>>
vars == <<nvram, order, recs, cnt, rec, has, status, pc, changes, loader>>

ImageMode == mode = "image"
UpdateEfiVars == mode # "noefi"

\* Destination |-> source, as named at the top of shim-systemd.c: the fallback
\* BOOTX64.EFI and fbx64.efi in EFI/Boot, the others in the kernels' directory.
Source == [fallback |-> "shim", fb |-> "fb", shim |-> "shim", mm |-> "mm",
           systemd |-> "systemd", mok |-> "mok", csv |-> "csv"]
Files == DOMAIN Source
Sources == {Source[f] : f \in Files}

\* The copies of shim_systemd_install in their order; in image mode the fallback
\* is overwritten at last.
Copies ==
    LET copy(f) == <<f, Source[f]>> IN
    <<copy("fallback"), copy("fb"), copy("shim"), copy("mm"), copy("systemd"),
      copy("mok"), copy("csv")>>
      \o (IF ImageMode THEN <<<<"fallback", "systemd">>>> ELSE <<>>)

-----------------------------------------------------------------------------
\* Mutant: the CSV file is not compared.
NeedsUpdateNoCsv == (\E f \in Files \ {"csv"} : esp[f] # Source[f]) \/ ~has

\* Mutant: the fallback is compared with systemd-boot.
NeedsUpdateFallback ==
    \/ \E f \in Files : esp[f] # (IF f = "fallback" THEN "systemd" ELSE Source[f])
    \/ ~has

\* shim_systemd_needs_update
NeedsUpdate == (\E f \in Files : esp[f] # Source[f]) \/ ~has

\* shim_systemd_needs_install
NeedsInstall == (\E f \in Files : esp[f] = "absent") \/ ~has

\* The update ends with result r.
Return(r) == pc' = "done" /\ ret' = r

Fault == IoFaults /\ NV!Changed /\ disturbed' = TRUE /\ clean' = FALSE /\ UNCHANGED mode

Steady == UNCHANGED <<mode, disturbed, clean, changes>>

noNvram == UNCHANGED <<nvram, order, recs, cnt, rec, status>>

\* shim_systemd_init, for the first time or after the ESP was mounted.
Start ==
    /\ pc = "off"
    /\ IF ImageMode THEN pc' = "check" /\ noNvram /\ UNCHANGED <<has, changes>>
                    ELSE NV!BootvarInit("check")
    /\ UNCHANGED loader

\* The boot record is looked up once, by needs_install. A look-up that misses
\* our record, because a call failed, disturbs the update.
LookUp ==
    /\ pc = "check"
    /\ IF ImageMode THEN pc' = "decide" /\ has' = TRUE /\ noNvram /\ UNCHANGED <<clean, changes>>
       ELSE /\ NV!HasBootRec("decide")
            /\ clean' = (clean /\ (has' \/ \A n \in 0..MaxNo : nvram[n] # "ours"))
    /\ UNCHANGED <<mode, esp, next, ret, disturbed>>

\* boot_manager_update_bootloader: shim_systemd_update is shim_systemd_install.
Decide ==
    /\ pc = "decide"
    /\ IF NeedsInstall \/ NeedsUpdate THEN pc' = "reinit" /\ UNCHANGED ret
                                      ELSE Return(TRUE)
    /\ noNvram /\ UNCHANGED <<has, esp, next>> /\ Steady

\* boot_manager_modify_bootloader initialises the loader anew.
Reinit ==
    /\ pc = "reinit"
    /\ IF ImageMode THEN pc' = "layout" /\ noNvram /\ UNCHANGED <<has, changes>>
                    ELSE NV!BootvarInit("layout")
    /\ UNCHANGED loader

\* make_layout
MakeLayout ==
    /\ pc = "layout"
    /\ \/ pc' = "copy" /\ next' = 1 /\ UNCHANGED ret /\ Steady
       \/ Return(FALSE) /\ UNCHANGED next /\ Fault
    /\ noNvram /\ UNCHANGED <<has, esp>>

\* Mutant: a failed copy does not end the installation.
CopyFailedIgnored ==
    IF next < Len(Copies) THEN pc' = "copy" /\ next' = next + 1 /\ UNCHANGED ret
    ELSE pc' = "record" /\ UNCHANGED <<next, ret>>

\* A copy that fails ends the installation.
CopyFailed == Return(FALSE) /\ UNCHANGED next

\* copy_file_atomic up to the unlink of the target.
CopyFile ==
    /\ pc = "copy"
    /\ \/ /\ pc' = "rename" /\ esp' = [esp EXCEPT ![Copies[next][1]] = "absent"]
          /\ UNCHANGED <<next, ret>> /\ Steady
       \/ CopyFailed /\ UNCHANGED esp /\ Fault
    /\ noNvram /\ UNCHANGED has

\* ... and its rename.
RenameFile ==
    /\ pc = "rename"
    /\ \/ /\ esp' = [esp EXCEPT ![Copies[next][1]] = Copies[next][2]]
          /\ IF next < Len(Copies) THEN pc' = "copy" /\ next' = next + 1
                                   ELSE pc' = "record" /\ UNCHANGED next
          /\ UNCHANGED ret /\ Steady
       \/ CopyFailed /\ UNCHANGED esp /\ Fault
    /\ noNvram /\ UNCHANGED has

\* The boot record is created if there was none; a failure is only logged.
Record ==
    /\ pc = "record"
    /\ IF ~ImageMode /\ ~has /\ UpdateEfiVars
         THEN NV!AddBootRec("logged") /\ UNCHANGED ret
         ELSE Return(TRUE) /\ noNvram /\ UNCHANGED has
    /\ UNCHANGED <<esp, next>> /\ Steady

RecordContinue ==
    /\ \/ pc = "reread" /\ NV!RereadBootRecs("logged") /\ UNCHANGED ret
       \/ pc = "push" /\ NV!PushToBootOrder("logged") /\ UNCHANGED ret
       \/ pc = "logged" /\ Return(TRUE) /\ noNvram /\ UNCHANGED has
    /\ UNCHANGED <<esp, next>> /\ Steady

Idle == next' = 0 /\ ret' = FALSE /\ disturbed' = FALSE /\ UNCHANGED mode

Exit ==
    /\ pc = "done"
    /\ NV!ProcessGone /\ Idle
    /\ clean' = (ret /\ ~disturbed /\ (has \/ status # "error"))
    /\ UNCHANGED <<nvram, order, changes, esp>>

-----------------------------------------------------------------------------
(* The world.                                                              *)

\* The distribution updates a loader.
PkgUpdate(s) ==
    /\ pc = "off" /\ NV!Changed
    /\ esp' = [f \in Files |-> IF esp[f] = s THEN "stale" ELSE esp[f]]
    /\ clean' = FALSE
    /\ UNCHANGED <<nvram, order, recs, cnt, rec, has, status, pc, mode, next, ret, disturbed>>

\* Another system on the shared ESP replaces or deletes a file.
Damage(f) ==
    /\ pc = "off" /\ NV!Changed
    /\ \E c \in {"absent", "stale"} : esp' = [esp EXCEPT ![f] = c]
    /\ clean' = FALSE
    /\ UNCHANGED <<nvram, order, recs, cnt, rec, has, status, pc, mode, next, ret, disturbed>>

\* BootVar's world: other systems' records, and the end of this process.
NvWorld == NV!World /\ Idle /\ clean' = FALSE /\ UNCHANGED esp

World == NvWorld \/ (\E s \in Sources : PkgUpdate(s)) \/ (\E f \in Files : Damage(f))

Init ==
    /\ NV!BootInit /\ pc = "off" /\ mode \in Modes
    /\ esp \in {[f \in Files |-> "absent"], Source}
    /\ next = 0 /\ ret = FALSE /\ disturbed = FALSE /\ clean = FALSE

Process ==
    \/ LookUp \/ Decide \/ Reinit \/ MakeLayout \/ CopyFile \/ RenameFile
    \/ Record \/ RecordContinue \/ Exit

Next == Start \/ Process \/ World

Spec == Init /\ [][Next]_vars

\* The process runs to its end, and updates are called again.
FairSpec == Spec /\ WF_vars(Process) /\ WF_vars(Start)

-----------------------------------------------------------------------------
(* Properties.                                                             *)

\* Every file is in place; the fallback of an image may be systemd-boot.
Current ==
    \A f \in Files : esp[f] = Source[f] \/ (ImageMode /\ f = "fallback" /\ esp[f] = "systemd")

\* A successful update leaves every file equal to its source, whatever an earlier
\* interruption, another system or a package left behind (update.c:383-401).
LoaderCurrent == pc = "done" /\ ret => Current

\* The firmware is never pointed at a loader that is not completely there: a boot
\* record appears only once all files are in place (shim-systemd.c:362-368).
RecordAfterFiles ==
    [][\A n \in 0..MaxNo : nvram[n] # "ours" /\ nvram'[n] = "ours" => Current]_vars

\* On an installed system, after an undisturbed update and with no change since,
\* nothing is written: what needs_update compares is what install writes.
Idempotent ==
    [][mode = "native" /\ clean /\ clean' => UNCHANGED <<esp, nvram, order>>]_vars

\* A success of bootvar_create is real also when called by this loader, whatever
\* calls of the efivar library failed (shim-systemd.c:364).
CreatedBootsFirst == NV!CreatedBootsFirst

\* Whatever happens, the loader is complete again some time later, provided the
\* file operations work: no interrupted update leaves a state that a later one
\* takes for done (shim-systemd.c:220-286).
CurrentAgain == []<>Current
=============================================================================
