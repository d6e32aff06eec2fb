---------------------------- MODULE Freestanding -----------------------------
(***************************************************************************)
(* The initrds that belong to no kernel: update lists the user's and the   *)
(* vendor's directory, copies what is listed to the ESP (AtomicCopy),      *)
(* names it in the entry of every kernel it installs, and in the end       *)
(* removes what is not listed. Every kernel boots with the same files, so  *)
(* what goes wrong here concerns all of them, the rollback kernels too.    *)
(***************************************************************************)
EXTENDS AtomicCopy

CONSTANTS
    Kernels,
    UserContents, VendorContents    \* what the files of each directory hold

VARIABLES
    user, vendor,   \* the files of the two directories
    pc, mode,       \* of each process; mode: is the running kernel known, or image
    map,            \* self->initrd_freestanding: where each name was found
    todo,           \* names still to be copied
    keep, kern,     \* kernels installed by this update; still to be worked off
    bad,            \* kernels that could not be installed or removed
    quiet,          \* history: nothing failed or changed since the update began
    emptied,        \* history: listed names whose source was emptied or masked since
    entry           \* the initrds named by each kernel's entry on the ESP

ownVars == <<user, vendor, pc, mode, map, todo, keep, kern, bad, quiet, emptied, entry>>
vars == <<copyVars, changes, ownVars>>
kernelVars == <<mode, keep, kern, bad, entry>>
history == <<quiet, emptied>>

ASSUME SourcesAssumption ==
    /\ UserContents \cup VendorContents \cup {"empty"} = Contents
    /\ {"none", "mask", "empty"} \cap (UserContents \cup VendorContents) = {}

NoEntry == {"no entry"}
NoMap == [f \in Files |-> "none"]

\* What is listed under a name when its file holds c: empty files are skipped,
\* a link to /dev/null masks the name.
Listed(c, dir) ==
    CASE c \in {"none", "empty"} -> "none"
      [] c = "mask" -> "masked"
      [] OTHER -> dir

\* The names an entry gets: boot_manager_initrd_iterator_next skips the masked.
Names(mp) == {f \in Files : mp[f] \in {"user", "vendor"}}

\* What the source of f holds now: a mask has a name of its own only if its
\* link was changed after the listing, when it reads as an empty file.
Source(p, f) ==
    LET c == IF map[p][f] = "user" THEN user[f] ELSE vendor[f]
    IN IF c = "mask" THEN "empty" ELSE c

Stop(p) ==
    /\ pc' = [pc EXCEPT ![p] = "off"]
    /\ map' = [map EXCEPT ![p] = NoMap] /\ todo' = [todo EXCEPT ![p] = {}]
    /\ mode' = [mode EXCEPT ![p] = "none"]
    /\ keep' = [keep EXCEPT ![p] = {}] /\ kern' = [kern EXCEPT ![p] = {}]
    /\ bad' = [bad EXCEPT ![p] = {}]
    /\ quiet' = [quiet EXCEPT ![p] = FALSE] /\ emptied' = [emptied EXCEPT ![p] = {}]

-----------------------------------------------------------------------------
(* Listing (bootman.c:822-954) and copying (bootman.c:956-1005).           *)

\* The user's directory first.
ListUser(p) ==
    /\ pc[p] = "off"
    /\ pc' = [pc EXCEPT ![p] = "list"]
    /\ map' = [map EXCEPT ![p] = [f \in Files |-> Listed(user[f], "user")]]
    /\ quiet' = [quiet EXCEPT ![p] = TRUE]
    /\ UNCHANGED <<copyVars, changes, user, vendor, todo, emptied, kernelVars>>

\* Mutant: the vendor's file replaces the user's.
MergedVendorWins(p) ==
    [f \in Files |-> IF Listed(vendor[f], "vendor") # "none"
                     THEN Listed(vendor[f], "vendor") ELSE map[p][f]]

\* A name that is listed already is skipped.
Merged(p) ==
    [f \in Files |-> IF map[p][f] # "none" THEN map[p][f] ELSE Listed(vendor[f], "vendor")]

ListVendor(p) ==
    /\ pc[p] = "list"
    /\ pc' = [pc EXCEPT ![p] = "copy"]
    /\ map' = [map EXCEPT ![p] = Merged(p)]
    /\ todo' = [todo EXCEPT ![p] = Names(Merged(p))]
    /\ UNCHANGED <<copyVars, changes, user, vendor, history, kernelVars>>

\* Mutant: only the presence of the target is asked for.
CurrentIfThere(p, f) ==
    /\ pc[p] = "copy" /\ cp[p] = "idle" /\ f \in todo[p]
    /\ Source(p, f) # "none" /\ dst[f] # "none"
    /\ todo' = [todo EXCEPT ![p] = @ \ {f}]
    /\ UNCHANGED <<copyVars, changes, user, vendor, pc, map, history, kernelVars>>

\* Mutant: the iteration does not get past a match.
CurrentStays(p, f) ==
    /\ pc[p] = "copy" /\ cp[p] = "idle" /\ f \in todo[p]
    /\ Source(p, f) # "none" /\ Source(p, f) = dst[f]
    /\ UNCHANGED vars

\* cbm_files_match
Current(p, f) ==
    /\ pc[p] = "copy" /\ cp[p] = "idle" /\ f \in todo[p]
    /\ Source(p, f) # "none" /\ Source(p, f) = dst[f]
    /\ todo' = [todo EXCEPT ![p] = @ \ {f}]
    /\ UNCHANGED <<copyVars, changes, user, vendor, pc, map, history, kernelVars>>

CopyBegins(p, f) ==
    /\ pc[p] = "copy" /\ f \in todo[p] /\ Source(p, f) # dst[f]
    /\ Open(p, f, Source(p, f))
    /\ UNCHANGED ownVars

\* The source cannot be opened: copy_file_atomic fails, and so does the update.
SourceMissing(p, f) ==
    /\ pc[p] = "copy" /\ cp[p] = "idle" /\ f \in todo[p] /\ Source(p, f) = "none"
    /\ tmp' = [tmp EXCEPT ![f] = "none"] /\ fd' = Unlinked(f, "tmp")
    /\ Stop(p)
    /\ UNCHANGED <<dst, cp, cur, got, changes, user, vendor, entry>>

\* Mutant: a failed copy does not end the update.
CopyReturnsIgnored(p) ==
    /\ cp[p] \in {"ok", "failed"} /\ Return(p)
    /\ todo' = [todo EXCEPT ![p] = @ \ {cur[p]}]
    /\ UNCHANGED <<user, vendor, pc, map, history, kernelVars>>

\* A failed copy ends the update at once; nothing is cleaned up.
CopyReturns(p) ==
    /\ cp[p] \in {"ok", "failed"} /\ Return(p)
    /\ IF cp[p] = "ok"
       THEN /\ todo' = [todo EXCEPT ![p] = @ \ {cur[p]}]
            /\ UNCHANGED <<pc, map, history, mode, keep, kern, bad>>
       ELSE Stop(p)
    /\ UNCHANGED <<user, vendor, entry>>

-----------------------------------------------------------------------------
(* The kernels' entries (update.c:214-366, 123-143).                       *)

\* Which kernels are kept, and whether the running one is known, is up to the
\* rest of update; in image mode all are installed.
CopiesDone(p) ==
    /\ pc[p] = "copy" /\ todo[p] = {} /\ cp[p] = "idle"
    /\ pc' = [pc EXCEPT ![p] = "entries"]
    /\ \E m \in {"known", "unknown", "image"}, K \in (SUBSET Kernels) \ {{}} :
          /\ m = "image" => K = Kernels
          /\ mode' = [mode EXCEPT ![p] = m]
          /\ keep' = [keep EXCEPT ![p] = K] /\ kern' = [kern EXCEPT ![p] = K]
    /\ UNCHANGED <<copyVars, changes, user, vendor, map, todo, bad, history, entry>>

\* Mutant: an installed kernel keeps the entry it has.
WriteEntryOnce(p, k) ==
    /\ pc[p] = "entries" /\ k \in kern[p]
    /\ entry' = IF entry[k] # NoEntry THEN entry ELSE [entry EXCEPT ![k] = Names(map[p])]
    /\ kern' = [kern EXCEPT ![p] = @ \ {k}] /\ bad' = [bad EXCEPT ![p] = @ \ {k}]
    /\ UNCHANGED <<copyVars, changes, user, vendor, pc, mode, map, todo, keep, history>>

\* The entry of a kernel that is installed or repaired.
WriteEntry(p, k) ==
    /\ pc[p] = "entries" /\ k \in kern[p]
    /\ entry' = [entry EXCEPT ![k] = Names(map[p])]
    /\ kern' = [kern EXCEPT ![p] = @ \ {k}] /\ bad' = [bad EXCEPT ![p] = @ \ {k}]
    /\ UNCHANGED <<copyVars, changes, user, vendor, pc, mode, map, todo, keep, history>>

\* It fails with the entry removed or as it was. The repair of the running
\* kernel may fail, which is installed once more if it is also the tip or the last
\* good one; any other failure leads to the clean-up, in image mode out.
InstallFails(p, k) ==
    /\ pc[p] = "entries" /\ k \in kern[p] /\ Disturb
    /\ entry' \in {entry, [entry EXCEPT ![k] = NoEntry]}
    /\ \/ /\ mode[p] = "known" /\ kern[p] = keep[p] /\ bad[p] = {}
          /\ kern' \in {kern, [kern EXCEPT ![p] = @ \ {k}]}
          /\ bad' = [bad EXCEPT ![p] = {k}] /\ quiet' = [q \in Procs |-> FALSE]
          /\ UNCHANGED <<pc, mode, map, todo, keep, emptied>>
       \/ /\ mode[p] # "image"
          /\ pc' = [pc EXCEPT ![p] = "clean"]
          /\ bad' = [bad EXCEPT ![p] = @ \cup {k}] /\ quiet' = [q \in Procs |-> FALSE]
          /\ UNCHANGED <<mode, map, todo, keep, kern, emptied>>
       \/ mode[p] = "image" /\ Stop(p)
    /\ UNCHANGED <<copyVars, user, vendor>>

\* All are installed. The collection needs the running kernel to be known.
EntriesDone(p) ==
    /\ pc[p] = "entries" /\ kern[p] = {}
    /\ IF mode[p] = "image" THEN Stop(p)
       ELSE /\ pc' = [pc EXCEPT ![p] = IF mode[p] = "known" THEN "gc" ELSE "clean"]
            /\ kern' = [kern EXCEPT ![p] = IF mode[p] = "known" THEN Kernels \ keep[p] ELSE {}]
            /\ UNCHANGED <<map, todo, mode, keep, bad, history>>
    /\ UNCHANGED <<copyVars, changes, user, vendor, entry>>

Collect(p, k) ==
    /\ pc[p] = "gc" /\ k \in kern[p]
    /\ \/ /\ entry' = [entry EXCEPT ![k] = NoEntry]
          /\ kern' = [kern EXCEPT ![p] = @ \ {k}]
          /\ UNCHANGED <<changes, pc, bad, quiet>>
       \/ /\ Disturb /\ pc' = [pc EXCEPT ![p] = "clean"]
          /\ bad' = [bad EXCEPT ![p] = @ \cup {k}] /\ quiet' = [q \in Procs |-> FALSE]
          /\ UNCHANGED <<entry, kern>>
    /\ UNCHANGED <<copyVars, user, vendor, mode, map, todo, keep, emptied>>

CollectDone(p) ==
    /\ pc[p] = "gc" /\ kern[p] = {}
    /\ pc' = [pc EXCEPT ![p] = "clean"]
    /\ UNCHANGED <<copyVars, changes, user, vendor, mode, map, todo, keep, kern, bad, history, entry>>

-----------------------------------------------------------------------------
(* Removing what is not listed (bootman.c:1007-1060).                      *)

\* The files of the ESP with a key that is not listed, under the target's name ...
Stale(p) == {f \in Files : dst[f] # "none" /\ map[p][f] = "none"}

\* ... or under that of a copy, for which there is never a key.
Leftover == {f \in Files : tmp[f] # "none"}

Clean(p) ==
    /\ pc[p] = "clean"
    /\ \/ \E f \in Stale(p) :
             dst' = [dst EXCEPT ![f] = "none"] /\ fd' = Unlinked(f, "dst") /\ UNCHANGED tmp
       \/ \E f \in Leftover :
             tmp' = [tmp EXCEPT ![f] = "none"] /\ fd' = Unlinked(f, "tmp") /\ UNCHANGED dst
    /\ UNCHANGED <<cp, cur, got, changes, ownVars>>

CleanDone(p) ==
    /\ pc[p] = "clean"
    /\ \/ Stale(p) \cup Leftover = {} /\ UNCHANGED changes
       \/ Stale(p) \cup Leftover # {} /\ Disturb
    /\ Stop(p)
    /\ UNCHANGED <<copyVars, user, vendor, entry>>

-----------------------------------------------------------------------------
(* Outside events.                                                         *)

\* The history when there is nothing left in f of a directory.
Emptied(f, dir) ==
    [p \in Procs |-> IF map[p][f] = dir THEN emptied[p] \cup {f} ELSE emptied[p]]

\* A file of either directory is replaced (by rename: an open one is not
\* affected), added or removed.
Replace ==
    /\ Disturb
    /\ \E f \in Files :
          \/ \E c \in UserContents \cup {"none"} :
                user' = [user EXCEPT ![f] = c] /\ UNCHANGED <<vendor, emptied>>
          \/ \E c \in {"empty", "mask"} :
                user' = [user EXCEPT ![f] = c] /\ emptied' = Emptied(f, "user") /\ UNCHANGED vendor
          \/ \E c \in VendorContents \cup {"none"} :
                vendor' = [vendor EXCEPT ![f] = c] /\ UNCHANGED <<user, emptied>>
    /\ quiet' = [p \in Procs |-> FALSE]
    /\ UNCHANGED <<copyVars, pc, map, todo, kernelVars>>

\* A file of the vendor's directory is truncated to be written in place.
Truncate ==
    /\ Disturb
    /\ \E f \in Files :
          /\ vendor[f] \in VendorContents
          /\ vendor' = [vendor EXCEPT ![f] = "empty"]
          /\ got' = [p \in Procs |->
                IF cp[p] = "open" /\ cur[p] = f /\ map[p][f] = "vendor" /\ got[p] # "empty"
                THEN "short" ELSE got[p]]
          /\ emptied' = Emptied(f, "vendor")
    /\ quiet' = [p \in Procs |-> FALSE]
    /\ UNCHANGED <<dst, tmp, cp, cur, fd, user, pc, map, todo, kernelVars>>

\* Power is lost: a copy that is not synced may be there or not, and an entry
\* that is being replaced is lost.
PowerLoss ==
    /\ Disturb
    /\ \E F \in SUBSET {f \in Files : tmp[f] = "part"} :
          tmp' = [f \in Files |-> IF f \in F THEN "none" ELSE tmp[f]]
    /\ entry' \in {entry} \cup {[entry EXCEPT ![k] = NoEntry] :
          k \in UNION {kern[p] : p \in {q \in Procs : pc[q] = "entries"}}}
    /\ cp' = [p \in Procs |-> "idle"] /\ cur' = [p \in Procs |-> "none"]
    /\ fd' = [p \in Procs |-> "none"] /\ got' = [p \in Procs |-> "none"]
    /\ pc' = [p \in Procs |-> "off"] /\ map' = [p \in Procs |-> NoMap]
    /\ todo' = [p \in Procs |-> {}] /\ mode' = [p \in Procs |-> "none"]
    /\ keep' = [p \in Procs |-> {}] /\ kern' = [p \in Procs |-> {}]
    /\ bad' = [p \in Procs |-> {}]
    /\ quiet' = [p \in Procs |-> FALSE] /\ emptied' = [p \in Procs |-> {}]
    /\ UNCHANGED <<dst, user, vendor>>

-----------------------------------------------------------------------------
\* The system as it is delivered: the user's directory and the ESP are empty.
Init ==
    /\ CopyInit
    /\ user = [f \in Files |-> "none"]
    /\ vendor \in [Files -> VendorContents \cup {"none", "empty"}]
    /\ pc = [p \in Procs |-> "off"] /\ mode = [p \in Procs |-> "none"]
    /\ map = [p \in Procs |-> NoMap] /\ todo = [p \in Procs |-> {}]
    /\ keep = [p \in Procs |-> {}] /\ kern = [p \in Procs |-> {}]
    /\ bad = [p \in Procs |-> {}]
    /\ quiet = [p \in Procs |-> FALSE] /\ emptied = [p \in Procs |-> {}]
    /\ entry = [k \in Kernels |-> NoEntry]

\* A step of copy_file_atomic; a failure is not quiet.
Copying(p) ==
    /\ CopyStep(p)
    /\ quiet' = IF changes' # changes THEN [q \in Procs |-> FALSE] ELSE quiet
    /\ UNCHANGED <<user, vendor, pc, map, todo, emptied, kernelVars>>

Step(p) ==
    \/ ListVendor(p) \/ Copying(p) \/ CopyReturns(p) \/ CopiesDone(p)
    \/ \E f \in Files : Current(p, f) \/ CopyBegins(p, f) \/ SourceMissing(p, f)
    \/ \E k \in Kernels : WriteEntry(p, k) \/ InstallFails(p, k) \/ Collect(p, k)
    \/ EntriesDone(p) \/ CollectDone(p) \/ Clean(p) \/ CleanDone(p)

Next ==
    \/ \E p \in Procs : ListUser(p) \/ Step(p)
    \/ Replace \/ Truncate \/ PowerLoss

Spec == Init /\ [][Next]_vars

\* An update that runs takes its steps; update is run again and again.
FairSpec == Spec /\ \A p \in Procs : WF_vars(Step(p)) /\ WF_vars(ListUser(p))

-----------------------------------------------------------------------------
(* Properties.                                                             *)

\* Once the entries are being written, and until the update is over, everything
\* they will name is on the ESP in full: no order of failures lets an entry name
\* an initrd that is missing, cut short or empty (update.c:209-212 comes before
\* 214-366). Empty files are not listed (bootman.c:859-860); the exception is a
\* source that was emptied or masked between its listing and its copy, of which
\* copy_file makes an empty file and reports success (files.c:430-437).
NamedInFull ==
    \A p \in Procs : pc[p] \in {"entries", "gc", "clean"} =>
        \A f \in Names(map[p]) :
            dst[f] \in Contents /\ (dst[f] = "empty" => f \in emptied[p])

\* The kernels whose entries this update has written.
Written(p) == keep[p] \ (kern[p] \cup bad[p])

\* The clean-up never takes an initrd away from an entry that this update has
\* written, whatever changed in the directories since they were listed, whatever
\* failed after it and whether or not the running kernel is known; and from none
\* of the entries that are left if it is known and every kernel was installed or
\* removed (update.c:368-372). After a failure the entries of kernels that were
\* not reached, and with the running kernel unknown those of kernels that are
\* not kept, are the old ones and may lose what they name.
CleanSparesNamed ==
    \A p \in Procs : pc[p] = "clean" =>
        \A k \in Kernels :
            entry[k] # NoEntry /\ (k \in Written(p) \/ (mode[p] = "known" /\ bad[p] = {})) =>
                entry[k] \cap (Stale(p) \cup {f \in Files : dst[f] = "none"}) = {}

\* What is wanted under each name: the user's file before the vendor's.
WantedContent(f) ==
    IF user[f] \in UserContents THEN user[f]
    ELSE IF user[f] = "mask" \/ vendor[f] \notin VendorContents THEN "none" ELSE vendor[f]

\* The ESP is as the directories say: the wanted contents, and no entry that
\* names anything else or less. A copy made before its name was masked stays: the
\* clean-up asks only whether there is a key, and a mask is one (bootman.c:1044).
Delivered ==
    /\ \A f \in Files : WantedContent(f) # "none" => dst[f] = WantedContent(f)
    /\ \A k \in Kernels : entry[k] # NoEntry =>
          entry[k] = {f \in Files : WantedContent(f) # "none"}
    /\ \A f \in Files : user[f] # "mask" /\ WantedContent(f) = "none" => dst[f] = "none"
    /\ Leftover = {}

\* An update during which nothing fails or changes delivers, whatever earlier
\* ones left behind when they failed, were killed or lost power.
QuietDelivers ==
    [][\A p \in Procs :
          pc[p] = "clean" /\ pc'[p] = "off" /\ quiet[p] /\ changes' = changes
          /\ mode[p] = "known" => Delivered]_vars

\* What is on the ESP is replaced the way the header promises (files.h:122-130).
AF == INSTANCE AtomicFiles WITH
        Absent <- "none",
        content <- dst,
        staged <- [f \in Files |-> IF tmp[f] = "part" THEN "none" ELSE tmp[f]],
        kept <- UNION {Names(map[p]) : p \in Procs}
Replaces == AF!AFSpec

\* Every update ends, unless a source was truncated while it was copied
\* (files.c:429-437).
Ends == \A p \in Procs : pc[p] # "off" ~> (pc[p] = "off" \/ cp[p] = "spin")

\* Updates that are repeated bring every wanted initrd to the ESP and keep it
\* there, whatever happened before.
Converges ==
    <>[]((\E p \in Procs : cp[p] = "spin")
         \/ \A f \in Files : WantedContent(f) # "none" => dst[f] = WantedContent(f))

\* "ensure an atomic update of files. This requires that a new file first be
\* written with a new unique name" (files.h:123-124): no target is ever in part.
TargetWhole == \A f \in Files : dst[f] # "part"
=============================================================================
