----------------------------- MODULE SystemdBoot -----------------------------
(***************************************************************************)
(* The loader binary of the systemd-boot class (systemd-class.c): one EFI  *)
(* program kept twice on the ESP, in the vendor directory and at the       *)
(* firmware's default path, and what boot_manager_update_bootloader does   *)
(* to the two copies.                                                      *)
(***************************************************************************)
EXTENDS Naturals, Sequences

CONSTANTS
    MaxMishaps,     \* bound on failing file operations and power failures
    MaxChanges      \* bound on what the package manager and other systems do

ASSUME SystemdBootAssumption ==
    MaxMishaps \in Nat /\ MaxChanges \in Nat

VARIABLES
    source,     \* the distribution's program is there
    blob,       \* each copy: absent, stale (differs) or good
    pc,
    op,         \* install or update
    next,       \* index of the copy at hand
    ret,
    failed,     \* a file operation of this process failed
    mishaps, changes,
    clean       \* the last update was undisturbed and nothing changed since

vars == <<source, blob, pc, op, next, ret, failed, mishaps, changes, clean>>
world == <<source, changes>>

\* Both operations treat the vendor's copy first.
Copies == <<"vendor", "default">>
Paths == {"vendor", "default"}

-----------------------------------------------------------------------------
\* Mutant: a loader that is there is installed again.
NeedsInstallAlways == TRUE

\* sd_class_needs_install: a missing source is left for the install to report.
NeedsInstall == ~source \/ \E p \in Paths : blob[p] = "absent"

\* Mutant: only the vendor's copy is compared.
NeedsUpdateVendor == blob["vendor"] = "stale"

\* sd_class_needs_update
NeedsUpdate == \E p \in Paths : blob[p] = "stale"

Return(r) == pc' = "done" /\ ret' = r

Steady == UNCHANGED <<failed, mishaps, clean>>

\* A file operation fails.
Fault ==
    /\ mishaps < MaxMishaps /\ mishaps' = mishaps + 1
    /\ failed' = TRUE /\ clean' = FALSE

\* boot_manager_update_bootloader
Start ==
    /\ pc = "off"
    /\ IF NeedsInstall THEN pc' = "dirs" /\ op' = "install" /\ UNCHANGED ret
       ELSE IF NeedsUpdate THEN pc' = "dirs" /\ op' = "update" /\ UNCHANGED ret
       ELSE Return(TRUE) /\ op' = "none"
    /\ UNCHANGED <<blob, next, world>> /\ Steady

\* sd_class_ensure_dirs
EnsureDirs ==
    /\ pc = "dirs"
    /\ \/ pc' = "copy" /\ next' = 1 /\ UNCHANGED ret /\ Steady
       \/ Return(FALSE) /\ UNCHANGED next /\ Fault
    /\ UNCHANGED <<blob, op, world>>

\* The copy at hand is in place.
Advance ==
    IF next = 1 THEN pc' = "copy" /\ next' = 2 /\ UNCHANGED ret
                ELSE Return(TRUE) /\ UNCHANGED next

\* Mutant: both copies are unlinked before the first is renamed.
CopyUnlinkBoth ==
    /\ pc = "copy"
    /\ IF source
         THEN /\ pc' = "rename" /\ blob' = [p \in Paths |-> "absent"]
              /\ UNCHANGED <<next, ret>> /\ Steady
         ELSE Return(FALSE) /\ UNCHANGED <<blob, next>> /\ Steady
    /\ UNCHANGED <<op, world>>

\* sd_class_install copies always, sd_class_update what differs; copy_file_atomic
\* up to the unlink of the target.
Copy ==
    /\ pc = "copy"
    /\ \/ /\ op = "update" /\ source /\ blob[Copies[next]] = "good"
          /\ Advance /\ UNCHANGED blob /\ Steady
       \/ /\ source /\ (op = "install" \/ blob[Copies[next]] # "good")
          /\ pc' = "rename" /\ blob' = [blob EXCEPT ![Copies[next]] = "absent"]
          /\ UNCHANGED <<next, ret>> /\ Steady
       \/ ~source /\ Return(FALSE) /\ UNCHANGED <<blob, next>> /\ Steady
       \/ Return(FALSE) /\ UNCHANGED <<blob, next>> /\ Fault
    /\ UNCHANGED <<op, world>>

\* ... and its rename.
Rename ==
    /\ pc = "rename"
    /\ \/ blob' = [blob EXCEPT ![Copies[next]] = "good"] /\ Advance /\ Steady
       \/ Return(FALSE) /\ UNCHANGED <<blob, next>> /\ Fault
    /\ UNCHANGED <<op, world>>

Idle == pc' = "off" /\ op' = "none" /\ next' = 0 /\ ret' = FALSE /\ failed' = FALSE

Exit ==
    /\ pc = "done" /\ Idle
    /\ clean' = (ret /\ ~failed)
    /\ UNCHANGED <<blob, mishaps, world>>

-----------------------------------------------------------------------------
\* Power is lost or the process is killed.
PowerLoss ==
    /\ pc # "off" /\ mishaps < MaxMishaps
    /\ mishaps' = mishaps + 1
    /\ Idle /\ clean' = FALSE
    /\ UNCHANGED <<source, blob, changes>>

\* The package manager replaces the program, or it is missing.
PkgUpdate ==
    /\ pc = "off" /\ changes < MaxChanges
    /\ changes' = changes + 1 /\ clean' = FALSE
    /\ source' \in BOOLEAN
    /\ blob' = [p \in Paths |-> IF blob[p] = "good" THEN "stale" ELSE blob[p]]
    /\ UNCHANGED <<pc, op, next, ret, failed, mishaps>>

\* Another system installs its own program at the default path.
OtherLoader ==
    /\ pc = "off" /\ changes < MaxChanges
    /\ changes' = changes + 1 /\ clean' = FALSE
    /\ blob' = [blob EXCEPT !["default"] = "stale"]
    /\ UNCHANGED <<source, pc, op, next, ret, failed, mishaps>>

Init ==
    /\ source = TRUE
    /\ blob \in {[p \in Paths |-> "good"], [p \in Paths |-> "stale"]}
    /\ pc = "off" /\ op = "none" /\ next = 0 /\ ret = FALSE /\ failed = FALSE
    /\ mishaps = 0 /\ changes = 0 /\ clean = FALSE

Process == EnsureDirs \/ Copy \/ Rename \/ Exit

Next == Start \/ Process \/ PowerLoss \/ PkgUpdate \/ OtherLoader

Spec == Init /\ [][Next]_vars

-----------------------------------------------------------------------------
(* Properties.                                                             *)

FlagsOK == source \in BOOLEAN /\ ret \in BOOLEAN /\ failed \in BOOLEAN /\ clean \in BOOLEAN

PlaceOK ==
    /\ blob \in [Paths -> {"absent", "stale", "good"}]
    /\ pc \in {"off", "dirs", "copy", "rename", "done"} /\ op \in {"none", "install", "update"}
    /\ next \in {0, 1, 2}

BoundsOK ==
    /\ mishaps \in Nat /\ mishaps <= MaxMishaps
    /\ changes \in Nat /\ changes <= MaxChanges

\* Every variable has its type.
TypeOK == FlagsOK /\ PlaceOK /\ BoundsOK

\* A successful update leaves both copies equal to the distribution's program
\* (update.c:383-401).
LoaderCurrent == pc = "done" /\ ret => \A p \in Paths : blob[p] = "good"

\* One power loss at any moment, or one rename that fails, leaves a program for
\* the firmware to start: the copies are replaced one after the other
\* (systemd-class.c:638-657, 672-695). A second one during the repair may not.
OneCopySurvives == pc = "off" /\ mishaps <= 1 => \E p \in Paths : blob[p] # "absent"

\* The copy at hand is one of the two.
AtHand == pc \in {"copy", "rename"} => next \in {1, 2}

\* What the copies are like along the way: while nothing went wrong only the one
\* being renamed is missing; after one mishap both may be, but only until the
\* rename; the vendor's is good once the other's turn has come.
CopiesInv ==
    /\ AtHand
    /\ mishaps = 0 => \A p \in Paths : blob[p] = "absent" => pc = "rename" /\ p = Copies[next]
    /\ mishaps <= 1 => (\E p \in Paths : blob[p] # "absent") \/ pc = "rename"
    /\ pc \in {"copy", "rename"} /\ next = 2 => blob["vendor"] = "good"
    /\ LoaderCurrent

\* "clr-boot-manager will only update exactly what needs to be updated" (README).
Idempotent == [][clean /\ clean' => UNCHANGED blob]_vars
=============================================================================
