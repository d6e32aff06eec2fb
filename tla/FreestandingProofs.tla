-------------------------- MODULE FreestandingProofs --------------------------
(***************************************************************************)
(* Proofs about Freestanding and AtomicCopy, for any files, kernels and    *)
(* contents and any number of failures and outside events, when one        *)
(* clr-boot-manager runs at a time. Two at a time share the name of the    *)
(* copy, and what is proved here fails for them (run two_writers).         *)
(***************************************************************************)
EXTENDS Freestanding, TLAPS

OneProcess == \A p, q \in Procs : p = q

-----------------------------------------------------------------------------
(* The inductive invariant.                                                *)

CopyTypes ==
    /\ dst \in [Files -> States] /\ tmp \in [Files -> States]
    /\ cp \in [Procs -> {"idle", "open", "sent", "gone", "ok", "failed", "spin"}]
    /\ cur \in [Procs -> Files \cup {"none"}]
    /\ fd \in [Procs -> {"none", "tmp", "dst", "gone"}]
    /\ got \in [Procs -> Contents \cup {"none", "short"}]

UpdateTypes ==
    /\ user \in [Files -> UserContents \cup {"none", "empty", "mask"}]
    /\ vendor \in [Files -> VendorContents \cup {"none", "empty"}]
    /\ pc \in [Procs -> {"off", "list", "copy", "entries", "gc", "clean"}]
    /\ map \in [Procs -> [Files -> {"none", "masked", "user", "vendor"}]]
    /\ todo \in [Procs -> SUBSET Files]

KernelTypes ==
    /\ mode \in [Procs -> {"none", "known", "unknown", "image"}]
    /\ keep \in [Procs -> SUBSET Kernels] /\ kern \in [Procs -> SUBSET Kernels]
    /\ entry \in [Kernels -> (SUBSET Files) \cup {NoEntry}]

FlagTypes ==
    /\ bad \in [Procs -> SUBSET Kernels]
    /\ quiet \in [Procs -> BOOLEAN] /\ emptied \in [Procs -> SUBSET Files]

Types == CopyTypes /\ UpdateTypes /\ KernelTypes /\ FlagTypes /\ changes \in Nat

\* The copy under way writes the .TmpWrite file of its target and nothing else,
\* the target goes only when that file is complete, and it is a name still to do.
CopyInv ==
    \A p \in Procs :
        /\ cp[p] # "idle" => pc[p] = "copy" /\ cur[p] \in todo[p]
        /\ fd[p] = IF cp[p] \in {"open", "spin"} THEN "tmp" ELSE "none"
        /\ cp[p] \in {"open", "spin"} => got[p] # "none"
        /\ cp[p] \in {"sent", "gone"} => tmp[cur[p]] \in Contents
        /\ cp[p] = "ok" => dst[cur[p]] \in Contents

\* What is listed and not to be copied any more is on the ESP.
NamedInv ==
    \A p \in Procs :
        /\ pc[p] \in {"entries", "gc", "clean"} => todo[p] = {}
        /\ pc[p] \in {"copy", "entries", "gc", "clean"} =>
              \A f \in Names(map[p]) \ todo[p] : dst[f] \in Contents

\* An empty file is found, read or copied under a listed name only if its source
\* was emptied after the listing.
EmptyInv ==
    \A p \in Procs :
        /\ pc[p] = "copy" => todo[p] \subseteq Names(map[p])
        /\ pc[p] # "off" =>
              \A f \in Names(map[p]) : Source(p, f) = "empty" => f \in emptied[p]
        /\ cp[p] \in {"open", "spin"} /\ got[p] = "empty" => cur[p] \in emptied[p]
        /\ cp[p] \in {"sent", "gone"} /\ tmp[cur[p]] = "empty" => cur[p] \in emptied[p]
        /\ cp[p] = "ok" /\ dst[cur[p]] = "empty" => cur[p] \in emptied[p]
        /\ pc[p] \in {"copy", "entries", "gc", "clean"} =>
              \A f \in Names(map[p]) \ todo[p] : dst[f] = "empty" => f \in emptied[p]

\* The entries written name what is listed, whatever fails, and the collection
\* does not touch them; if nothing failed there are no others in the end.
EntryInv ==
    \A p \in Procs :
        /\ pc[p] = "entries" => kern[p] \subseteq keep[p]
        /\ pc[p] = "gc" => kern[p] \cap keep[p] = {}
        /\ pc[p] \in {"entries", "gc", "clean"} =>
              \A k \in Written(p) : entry[k] = Names(map[p])
        /\ mode[p] = "known" /\ bad[p] = {} =>
              /\ pc[p] = "gc" => \A k \in Kernels \ (keep[p] \cup kern[p]) : entry[k] = NoEntry
              /\ pc[p] = "clean" =>
                    kern[p] = {} /\ \A k \in Kernels \ keep[p] : entry[k] = NoEntry

\* What an update that nothing disturbed knows is still so.
QuietInv ==
    \A p \in Procs :
        /\ pc[p] = "off" => bad[p] = {}
        /\ quiet[p] =>
            /\ bad[p] = {}
            /\ pc[p] = "list" => map[p] = [f \in Files |-> Listed(user[f], "user")]
            /\ pc[p] \in {"copy", "entries", "gc", "clean"} =>
                  /\ map[p] = [f \in Files |->
                        IF Listed(user[f], "user") # "none" THEN Listed(user[f], "user")
                        ELSE Listed(vendor[f], "vendor")]
                  /\ \A f \in Names(map[p]) \ todo[p] : dst[f] = Source(p, f)
            /\ cp[p] \in {"open", "spin"} => got[p] = Source(p, cur[p])
            /\ cp[p] \in {"sent", "gone"} => tmp[cur[p]] = Source(p, cur[p])
            /\ cp[p] = "ok" => dst[cur[p]] = Source(p, cur[p])

Inv == Types /\ CopyInv /\ TargetWhole /\ NamedInv /\ EmptyInv /\ EntryInv /\ QuietInv

-----------------------------------------------------------------------------
(* Types.                                                                  *)

\* A source that is there has a complete content.
LEMMA SourceContent ==
    ASSUME Types, NEW p \in Procs, NEW f \in Files
    PROVE  Source(p, f) \in Contents \cup {"none"}
BY SourcesAssumption DEF Types, UpdateTypes, Source

\* What is listed is a place or a mask.
LEMMA ListedType ==
    ASSUME NEW c, NEW dir \in {"user", "vendor"}
    PROVE  Listed(c, dir) \in {"none", "masked", "user", "vendor"}
BY DEF Listed

\* The steps that touch the files of the ESP or a copy under way.
LEMMA CopyFrame ==
    ASSUME [Next]_vars
    PROVE  \/ UNCHANGED copyVars
           \/ Truncate \/ PowerLoss
           \/ \E p \in Procs :
                 \/ Copying(p) \/ CopyReturns(p) \/ Clean(p)
                 \/ \E f \in Files : CopyBegins(p, f) \/ SourceMissing(p, f)
<1> USE DEF copyVars
<1>1. ASSUME NEW p \in Procs, Step(p)
      PROVE  \/ UNCHANGED copyVars \/ Copying(p) \/ CopyReturns(p) \/ Clean(p)
             \/ \E f \in Files : CopyBegins(p, f) \/ SourceMissing(p, f)
  BY <1>1, Zenon DEF Step, ListVendor, CopiesDone, Current, WriteEntry, InstallFails, Collect,
            EntriesDone, CollectDone, CleanDone
<1>2. ASSUME NEW p \in Procs, ListUser(p) PROVE UNCHANGED copyVars
  BY <1>2 DEF ListUser
<1>3. CASE Replace
  BY <1>3 DEF Replace
<1>4. CASE UNCHANGED vars
  BY <1>4 DEF vars
<1> QED
  BY <1>1, <1>2, <1>3, <1>4, Zenon DEF Next

\* A copy step keeps the types of what copies.
LEMMA CopyTypesStep == ASSUME Types, CopyInv, [Next]_vars PROVE CopyTypes'
<1> USE DEF Types, CopyTypes, States, copyVars
<1>1. ASSUME NEW p \in Procs, Copying(p) PROVE CopyTypes'
  <2> USE <1>1 DEF Copying
  <2>1. CASE Send(p)
    BY <2>1 DEF Send
  <2>2. CASE Spin(p)
    BY <2>2 DEF Spin
  <2>3. CASE SendFails(p)
    BY <2>3 DEF SendFails, Unlinked
  <2>4. CASE UnlinkTarget(p)
    BY <2>4 DEF UnlinkTarget, Unlinked
  <2>5. CASE Rename(p)
    BY <2>5 DEF Rename, Renamed
  <2>6. CASE ReplaceFails(p)
    BY <2>6 DEF ReplaceFails
  <2> QED
    BY <2>1, <2>2, <2>3, <2>4, <2>5, <2>6 DEF CopyStep
<1>2. ASSUME NEW p \in Procs, CopyReturns(p) PROVE CopyTypes'
  BY <1>2 DEF CopyReturns, Return
<1>3. ASSUME NEW p \in Procs, NEW f \in Files, CopyBegins(p, f) PROVE CopyTypes'
  BY <1>3, SourceContent DEF CopyBegins, Open
<1>4. ASSUME NEW p \in Procs, NEW f \in Files, SourceMissing(p, f) PROVE CopyTypes'
  BY <1>4 DEF SourceMissing, Unlinked
<1>5. ASSUME NEW p \in Procs, Clean(p) PROVE CopyTypes'
  BY <1>5 DEF Clean, Unlinked, Stale, Leftover
<1>6. CASE Truncate
  BY <1>6 DEF Truncate
<1>7. CASE PowerLoss
  BY <1>7 DEF PowerLoss
<1>8. CASE UNCHANGED copyVars
  BY <1>8
<1> QED
  BY <1>1, <1>2, <1>3, <1>4, <1>5, <1>6, <1>7, <1>8, CopyFrame, Zenon
\* Whatever ends the update keeps the types.
LEMMA StopTypes ==
    ASSUME Types, NEW p \in Procs, Stop(p)
    PROVE  /\ pc' \in [Procs -> {"off", "list", "copy", "entries", "gc", "clean"}]
           /\ map' \in [Procs -> [Files -> {"none", "masked", "user", "vendor"}]]
           /\ todo' \in [Procs -> SUBSET Files]
           /\ mode' \in [Procs -> {"none", "known", "unknown", "image"}]
           /\ keep' \in [Procs -> SUBSET Kernels] /\ kern' \in [Procs -> SUBSET Kernels]
BY DEF Types, UpdateTypes, KernelTypes, Stop, NoMap

\* The steps that touch the listing or the place in the update.
LEMMA UpdateTypesStep == ASSUME Types, [Next]_vars PROVE UpdateTypes'
<1> USE DEF Types, UpdateTypes
<1>1. ASSUME NEW p \in Procs, ListUser(p) PROVE UpdateTypes'
  BY <1>1, ListedType DEF ListUser
<1>2. ASSUME NEW p \in Procs, ListVendor(p) PROVE UpdateTypes'
  BY <1>2, ListedType DEF ListVendor, Merged, Names
<1>3. ASSUME NEW p \in Procs, Copying(p) PROVE UpdateTypes'
  BY <1>3 DEF Copying
<1>4. ASSUME NEW p \in Procs, CopyReturns(p) PROVE UpdateTypes'
  <2>1. CASE cp[p] = "ok"
    BY <1>4, <2>1 DEF CopyReturns
  <2>2. CASE cp[p] # "ok"
    BY <1>4, <2>2, StopTypes DEF CopyReturns
  <2> QED
    BY <2>1, <2>2
<1>5. ASSUME NEW p \in Procs, CopiesDone(p) PROVE UpdateTypes'
  BY <1>5 DEF CopiesDone
<1>6. ASSUME NEW p \in Procs, NEW f \in Files, Current(p, f) PROVE UpdateTypes'
  BY <1>6 DEF Current
<1>7. ASSUME NEW p \in Procs, NEW f \in Files, CopyBegins(p, f) PROVE UpdateTypes'
  BY <1>7 DEF CopyBegins, ownVars
<1>8. ASSUME NEW p \in Procs, NEW f \in Files, SourceMissing(p, f) PROVE UpdateTypes'
  BY <1>8, StopTypes DEF SourceMissing
<1>9. ASSUME NEW p \in Procs, NEW k \in Kernels, WriteEntry(p, k) PROVE UpdateTypes'
  BY <1>9 DEF WriteEntry
<1>10. ASSUME NEW p \in Procs, NEW k \in Kernels, InstallFails(p, k) PROVE UpdateTypes'
  <2>1. CASE Stop(p)
    BY <1>10, <2>1, StopTypes DEF InstallFails
  <2>2. CASE ~Stop(p)
    BY <1>10, <2>2 DEF InstallFails
  <2> QED
    BY <2>1, <2>2
<1>11. ASSUME NEW p \in Procs, NEW k \in Kernels, Collect(p, k) PROVE UpdateTypes'
  BY <1>11 DEF Collect
<1>12. ASSUME NEW p \in Procs, EntriesDone(p) PROVE UpdateTypes'
  <2>1. CASE mode[p] = "image"
    BY <1>12, <2>1, StopTypes DEF EntriesDone
  <2>2. CASE mode[p] # "image"
    BY <1>12, <2>2 DEF EntriesDone
  <2> QED
    BY <2>1, <2>2
<1>13. ASSUME NEW p \in Procs, CollectDone(p) PROVE UpdateTypes'
  BY <1>13 DEF CollectDone
<1>14. ASSUME NEW p \in Procs, Clean(p) PROVE UpdateTypes'
  BY <1>14 DEF Clean, ownVars
<1>15. ASSUME NEW p \in Procs, CleanDone(p) PROVE UpdateTypes'
  BY <1>15, StopTypes DEF CleanDone
<1>16. CASE Replace
  BY <1>16 DEF Replace
<1>17. CASE Truncate
  BY <1>17 DEF Truncate
<1>18. CASE PowerLoss
  BY <1>18 DEF PowerLoss, NoMap
<1>19. CASE UNCHANGED vars
  BY <1>19 DEF vars, ownVars
<1> QED
  BY <1>1, <1>2, <1>3, <1>4, <1>5, <1>6, <1>7, <1>8, <1>9, <1>10, <1>11, <1>12, <1>13,
       <1>14, <1>15, <1>16, <1>17, <1>18, <1>19, Zenon DEF Next, Step

\* The steps that touch the kernels and their entries.
LEMMA KernelTypesStep == ASSUME Types, [Next]_vars PROVE KernelTypes'
<1> USE DEF Types, KernelTypes, kernelVars
<1>1. ASSUME NEW p \in Procs, ListUser(p) PROVE KernelTypes'
  BY <1>1 DEF ListUser
<1>2. ASSUME NEW p \in Procs, ListVendor(p) PROVE KernelTypes'
  BY <1>2 DEF ListVendor
<1>3. ASSUME NEW p \in Procs, Copying(p) PROVE KernelTypes'
  BY <1>3 DEF Copying
<1>4. ASSUME NEW p \in Procs, CopyReturns(p) PROVE KernelTypes'
  BY <1>4 DEF CopyReturns, Stop
<1>5. ASSUME NEW p \in Procs, CopiesDone(p) PROVE KernelTypes'
  BY <1>5 DEF CopiesDone
<1>6. ASSUME NEW p \in Procs, NEW f \in Files, Current(p, f) PROVE KernelTypes'
  BY <1>6 DEF Current
<1>7. ASSUME NEW p \in Procs, NEW f \in Files, CopyBegins(p, f) PROVE KernelTypes'
  BY <1>7 DEF CopyBegins, ownVars
<1>8. ASSUME NEW p \in Procs, NEW f \in Files, SourceMissing(p, f) PROVE KernelTypes'
  BY <1>8 DEF SourceMissing, Stop
<1>9. ASSUME NEW p \in Procs, NEW k \in Kernels, WriteEntry(p, k) PROVE KernelTypes'
  BY <1>9 DEF WriteEntry, Names
<1>10. ASSUME NEW p \in Procs, NEW k \in Kernels, InstallFails(p, k) PROVE KernelTypes'
  <2>1. entry' \in [Kernels -> (SUBSET Files) \cup {NoEntry}]
    BY <1>10 DEF InstallFails
  <2>2. CASE Stop(p)
    BY <2>1, <2>2, StopTypes
  <2>3. CASE ~Stop(p)
    BY <1>10, <2>1, <2>3 DEF InstallFails
  <2> QED
    BY <2>2, <2>3
<1>11. ASSUME NEW p \in Procs, NEW k \in Kernels, Collect(p, k) PROVE KernelTypes'
  <2>1. entry' \in [Kernels -> (SUBSET Files) \cup {NoEntry}]
    BY <1>11 DEF Collect
  <2>2. kern' \in [Procs -> SUBSET Kernels]
    BY <1>11 DEF Collect
  <2> QED
    BY <1>11, <2>1, <2>2 DEF Collect
<1>12. ASSUME NEW p \in Procs, EntriesDone(p) PROVE KernelTypes'
  BY <1>12 DEF EntriesDone, Stop
<1>13. ASSUME NEW p \in Procs, CollectDone(p) PROVE KernelTypes'
  BY <1>13 DEF CollectDone
<1>14. ASSUME NEW p \in Procs, Clean(p) PROVE KernelTypes'
  BY <1>14 DEF Clean, ownVars
<1>15. ASSUME NEW p \in Procs, CleanDone(p) PROVE KernelTypes'
  BY <1>15 DEF CleanDone, Stop
<1>16. CASE Replace
  BY <1>16 DEF Replace
<1>17. CASE Truncate
  BY <1>17 DEF Truncate
<1>18. CASE PowerLoss
  <2>1. entry' \in [Kernels -> (SUBSET Files) \cup {NoEntry}]
    BY <1>18 DEF PowerLoss
  <2> QED
    BY <1>18, <2>1 DEF PowerLoss
<1>19. CASE UNCHANGED vars
  BY <1>19 DEF vars, ownVars
<1> QED
  BY <1>1, <1>2, <1>3, <1>4, <1>5, <1>6, <1>7, <1>8, <1>9, <1>10, <1>11, <1>12, <1>13,
       <1>14, <1>15, <1>16, <1>17, <1>18, <1>19, Zenon DEF Next, Step

\* The flags stay flags.
LEMMA FlagTypesStep == ASSUME Types, [Next]_vars PROVE FlagTypes'
<1> USE DEF Types, FlagTypes, kernelVars, history
<1>1. ASSUME NEW p \in Procs, ListUser(p) PROVE FlagTypes'
  BY <1>1 DEF ListUser
<1>2. ASSUME NEW p \in Procs, ListVendor(p) PROVE FlagTypes'
  BY <1>2 DEF ListVendor
<1>3. ASSUME NEW p \in Procs, Copying(p) PROVE FlagTypes'
  BY <1>3 DEF Copying
<1>4. ASSUME NEW p \in Procs, CopyReturns(p) PROVE FlagTypes'
  BY <1>4 DEF CopyReturns, Stop
<1>5. ASSUME NEW p \in Procs, CopiesDone(p) PROVE FlagTypes'
  BY <1>5 DEF CopiesDone
<1>6. ASSUME NEW p \in Procs, NEW f \in Files, Current(p, f) PROVE FlagTypes'
  BY <1>6 DEF Current
<1>7. ASSUME NEW p \in Procs, NEW f \in Files, CopyBegins(p, f) PROVE FlagTypes'
  BY <1>7 DEF CopyBegins, ownVars
<1>8. ASSUME NEW p \in Procs, NEW f \in Files, SourceMissing(p, f) PROVE FlagTypes'
  BY <1>8 DEF SourceMissing, Stop
<1>9. ASSUME NEW p \in Procs, NEW k \in Kernels, WriteEntry(p, k) PROVE FlagTypes'
  BY <1>9 DEF WriteEntry
<1>10. ASSUME NEW p \in Procs, NEW k \in Kernels, InstallFails(p, k) PROVE FlagTypes'
  <2>1. CASE Stop(p)
    BY <2>1 DEF Stop
  <2>2. CASE ~Stop(p)
    <3>1. bad' = [bad EXCEPT ![p] = {k}] \/ bad' = [bad EXCEPT ![p] = @ \cup {k}]
      BY <1>10, <2>2 DEF InstallFails
    <3>2. quiet' = [q \in Procs |-> FALSE] /\ UNCHANGED emptied
      BY <1>10, <2>2 DEF InstallFails
    <3> QED
      BY <3>1, <3>2
  <2> QED
    BY <2>1, <2>2
<1>11. ASSUME NEW p \in Procs, NEW k \in Kernels, Collect(p, k) PROVE FlagTypes'
  <2>1. UNCHANGED bad \/ bad' = [bad EXCEPT ![p] = @ \cup {k}]
    BY <1>11 DEF Collect
  <2>2. (UNCHANGED quiet \/ quiet' = [q \in Procs |-> FALSE]) /\ UNCHANGED emptied
    BY <1>11 DEF Collect
  <2>3. bad' \in [Procs -> SUBSET Kernels]
    BY <2>1
  <2>4. quiet' \in [Procs -> BOOLEAN]
    BY <2>2
  <2> QED
    BY <2>2, <2>3, <2>4
<1>12. ASSUME NEW p \in Procs, EntriesDone(p) PROVE FlagTypes'
  BY <1>12 DEF EntriesDone, Stop
<1>13. ASSUME NEW p \in Procs, CollectDone(p) PROVE FlagTypes'
  BY <1>13 DEF CollectDone
<1>14. ASSUME NEW p \in Procs, Clean(p) PROVE FlagTypes'
  BY <1>14 DEF Clean, ownVars
<1>15. ASSUME NEW p \in Procs, CleanDone(p) PROVE FlagTypes'
  BY <1>15 DEF CleanDone, Stop
<1>16. CASE Replace
  BY <1>16 DEF Replace, Emptied
<1>17. CASE Truncate
  BY <1>17 DEF Truncate, Emptied
<1>18. CASE PowerLoss
  BY <1>18 DEF PowerLoss
<1>19. CASE UNCHANGED vars
  BY <1>19 DEF vars, ownVars
<1> QED
  BY <1>1, <1>2, <1>3, <1>4, <1>5, <1>6, <1>7, <1>8, <1>9, <1>10, <1>11, <1>12, <1>13,
       <1>14, <1>15, <1>16, <1>17, <1>18, <1>19, Zenon DEF Next, Step
-----------------------------------------------------------------------------
(* Copying.                                                                *)

\* A copy under way belongs to the copying phase and writes its own file.
LEMMA CopyStepInv == ASSUME OneProcess, Types, CopyInv, [Next]_vars PROVE CopyInv'
<1> USE ContentsAssumption DEF OneProcess, Types, CopyTypes, UpdateTypes, States, CopyInv,
     copyVars
<1>1. ASSUME NEW p \in Procs, ListUser(p) PROVE CopyInv'
  BY <1>1 DEF ListUser
<1>2. ASSUME NEW p \in Procs, ListVendor(p) PROVE CopyInv'
  BY <1>2 DEF ListVendor
<1>3. ASSUME NEW p \in Procs, Copying(p) PROVE CopyInv'
  <2> USE <1>3 DEF Copying
  <2>1. CASE Send(p)
    BY <2>1 DEF Send
  <2>2. CASE Spin(p)
    BY <2>2 DEF Spin
  <2>3. CASE SendFails(p)
    BY <2>3 DEF SendFails, Unlinked
  <2>4. CASE UnlinkTarget(p)
    BY <2>4 DEF UnlinkTarget, Unlinked
  <2>5. CASE Rename(p)
    BY <2>5 DEF Rename, Renamed
  <2>6. CASE ReplaceFails(p)
    BY <2>6 DEF ReplaceFails
  <2> QED
    BY <2>1, <2>2, <2>3, <2>4, <2>5, <2>6 DEF CopyStep
<1>4. ASSUME NEW p \in Procs, CopyReturns(p) PROVE CopyInv'
  BY <1>4 DEF CopyReturns, Return, Stop
<1>5. ASSUME NEW p \in Procs, CopiesDone(p) PROVE CopyInv'
  BY <1>5 DEF CopiesDone
<1>6. ASSUME NEW p \in Procs, NEW f \in Files, Current(p, f) PROVE CopyInv'
  BY <1>6 DEF Current
<1>7. ASSUME NEW p \in Procs, NEW f \in Files, CopyBegins(p, f) PROVE CopyInv'
  BY <1>7 DEF CopyBegins, Open, ownVars
<1>8. ASSUME NEW p \in Procs, NEW f \in Files, SourceMissing(p, f) PROVE CopyInv'
  BY <1>8 DEF SourceMissing, Unlinked, Stop
<1>9. ASSUME NEW p \in Procs, NEW k \in Kernels, WriteEntry(p, k) PROVE CopyInv'
  BY <1>9 DEF WriteEntry
<1>10. ASSUME NEW p \in Procs, NEW k \in Kernels, InstallFails(p, k) PROVE CopyInv'
  BY <1>10 DEF InstallFails, Stop
<1>11. ASSUME NEW p \in Procs, NEW k \in Kernels, Collect(p, k) PROVE CopyInv'
  BY <1>11 DEF Collect
<1>12. ASSUME NEW p \in Procs, EntriesDone(p) PROVE CopyInv'
  BY <1>12 DEF EntriesDone, Stop
<1>13. ASSUME NEW p \in Procs, CollectDone(p) PROVE CopyInv'
  BY <1>13 DEF CollectDone
<1>14. ASSUME NEW p \in Procs, Clean(p) PROVE CopyInv'
  BY <1>14 DEF Clean, Unlinked, Stale, Leftover, ownVars
<1>15. ASSUME NEW p \in Procs, CleanDone(p) PROVE CopyInv'
  BY <1>15 DEF CleanDone, Stop
<1>16. CASE Replace
  BY <1>16 DEF Replace
<1>17. CASE Truncate
  BY <1>17 DEF Truncate
<1>18. CASE PowerLoss
  BY <1>18 DEF PowerLoss
<1>19. CASE UNCHANGED vars
  BY <1>19 DEF vars, ownVars
<1> QED
  BY <1>1, <1>2, <1>3, <1>4, <1>5, <1>6, <1>7, <1>8, <1>9, <1>10, <1>11, <1>12, <1>13,
       <1>14, <1>15, <1>16, <1>17, <1>18, <1>19, Zenon DEF Next, Step

\* A target is replaced by a complete copy only.
LEMMA TargetStep == ASSUME OneProcess, Types, CopyInv, TargetWhole, [Next]_vars PROVE TargetWhole'
<1> USE ContentsAssumption DEF Types, CopyTypes, States, CopyInv, TargetWhole
<1>1. ASSUME NEW p \in Procs, Copying(p) PROVE TargetWhole'
  <2> USE <1>1 DEF Copying
  <2>1. CASE Send(p)
    BY <2>1 DEF Send
  <2>2. CASE Spin(p)
    BY <2>2 DEF Spin
  <2>3. CASE SendFails(p)
    BY <2>3 DEF SendFails, Unlinked
  <2>4. CASE UnlinkTarget(p)
    BY <2>4 DEF UnlinkTarget, Unlinked
  <2>5. CASE Rename(p)
    BY <2>5 DEF Rename, Renamed
  <2>6. CASE ReplaceFails(p)
    BY <2>6 DEF ReplaceFails
  <2> QED
    BY <2>1, <2>2, <2>3, <2>4, <2>5, <2>6 DEF CopyStep
<1>2. ASSUME NEW p \in Procs, CopyReturns(p) PROVE TargetWhole'
  BY <1>2 DEF CopyReturns, Return
<1>3. ASSUME NEW p \in Procs, NEW f \in Files, CopyBegins(p, f) PROVE TargetWhole'
  BY <1>3 DEF CopyBegins, Open
<1>4. ASSUME NEW p \in Procs, NEW f \in Files, SourceMissing(p, f) PROVE TargetWhole'
  BY <1>4 DEF SourceMissing
<1>5. ASSUME NEW p \in Procs, Clean(p) PROVE TargetWhole'
  BY <1>5 DEF Clean, Stale, Leftover
<1>6. CASE Truncate
  BY <1>6 DEF Truncate
<1>7. CASE PowerLoss
  BY <1>7 DEF PowerLoss
<1>8. CASE UNCHANGED copyVars
  BY <1>8 DEF copyVars
<1> QED
  BY <1>1, <1>2, <1>3, <1>4, <1>5, <1>6, <1>7, <1>8, CopyFrame, Zenon

\* What was copied stays.
LEMMA NamedStep == ASSUME OneProcess, Types, CopyInv, NamedInv, [Next]_vars PROVE NamedInv'
<1> USE ContentsAssumption DEF OneProcess, Types, CopyTypes, UpdateTypes, States, CopyInv,
     NamedInv, copyVars
<1>1. ASSUME NEW p \in Procs, ListUser(p) PROVE NamedInv'
  BY <1>1 DEF ListUser
<1>2. ASSUME NEW p \in Procs, ListVendor(p) PROVE NamedInv'
  BY <1>2 DEF ListVendor
<1>3. ASSUME NEW p \in Procs, Copying(p) PROVE NamedInv'
  <2> USE <1>3 DEF Copying
  <2>1. CASE Send(p)
    BY <2>1 DEF Send
  <2>2. CASE Spin(p)
    BY <2>2 DEF Spin
  <2>3. CASE SendFails(p)
    BY <2>3 DEF SendFails, Unlinked
  <2>4. CASE UnlinkTarget(p)
    BY <2>4 DEF UnlinkTarget, Unlinked
  <2>5. CASE Rename(p)
    BY <2>5 DEF Rename, Renamed
  <2>6. CASE ReplaceFails(p)
    BY <2>6 DEF ReplaceFails
  <2> QED
    BY <2>1, <2>2, <2>3, <2>4, <2>5, <2>6 DEF CopyStep
<1>4. ASSUME NEW p \in Procs, CopyReturns(p) PROVE NamedInv'
  BY <1>4 DEF CopyReturns, Return, Stop
<1>5. ASSUME NEW p \in Procs, CopiesDone(p) PROVE NamedInv'
  BY <1>5 DEF CopiesDone
<1>6. ASSUME NEW p \in Procs, NEW f \in Files, Current(p, f) PROVE NamedInv'
  BY <1>6, SourceContent DEF Current
<1>7. ASSUME NEW p \in Procs, NEW f \in Files, CopyBegins(p, f) PROVE NamedInv'
  BY <1>7 DEF CopyBegins, Open, ownVars
<1>8. ASSUME NEW p \in Procs, NEW f \in Files, SourceMissing(p, f) PROVE NamedInv'
  BY <1>8 DEF SourceMissing, Stop
<1>9. ASSUME NEW p \in Procs, NEW k \in Kernels, WriteEntry(p, k) PROVE NamedInv'
  BY <1>9 DEF WriteEntry
<1>10. ASSUME NEW p \in Procs, NEW k \in Kernels, InstallFails(p, k) PROVE NamedInv'
  BY <1>10 DEF InstallFails, Stop
<1>11. ASSUME NEW p \in Procs, NEW k \in Kernels, Collect(p, k) PROVE NamedInv'
  BY <1>11 DEF Collect
<1>12. ASSUME NEW p \in Procs, EntriesDone(p) PROVE NamedInv'
  BY <1>12 DEF EntriesDone, Stop
<1>13. ASSUME NEW p \in Procs, CollectDone(p) PROVE NamedInv'
  BY <1>13 DEF CollectDone
<1>14. ASSUME NEW p \in Procs, Clean(p) PROVE NamedInv'
  BY <1>14 DEF Clean, Stale, Leftover, ownVars, Names
<1>15. ASSUME NEW p \in Procs, CleanDone(p) PROVE NamedInv'
  BY <1>15 DEF CleanDone, Stop
<1>16. CASE Replace
  BY <1>16 DEF Replace
<1>17. CASE Truncate
  BY <1>17 DEF Truncate
<1>18. CASE PowerLoss
  BY <1>18 DEF PowerLoss
<1>19. CASE UNCHANGED vars
  BY <1>19 DEF vars, ownVars
<1> QED
  BY <1>1, <1>2, <1>3, <1>4, <1>5, <1>6, <1>7, <1>8, <1>9, <1>10, <1>11, <1>12, <1>13,
       <1>14, <1>15, <1>16, <1>17, <1>18, <1>19, Zenon DEF Next, Step

\* A file that was listed is empty only if it was emptied since.
LEMMA EmptyStep == ASSUME OneProcess, Types, CopyInv, NamedInv, EmptyInv, [Next]_vars PROVE EmptyInv'
<1> USE ContentsAssumption DEF OneProcess, Types, CopyTypes, UpdateTypes, States, CopyInv,
     FlagTypes, NamedInv, EmptyInv, Source, copyVars, kernelVars, history
<1>1. ASSUME NEW p \in Procs, ListUser(p) PROVE EmptyInv'
  BY <1>1 DEF ListUser, Listed, Names
<1>2. ASSUME NEW p \in Procs, ListVendor(p) PROVE EmptyInv'
  BY <1>2 DEF ListVendor, Merged, Listed, Names
<1>3. ASSUME NEW p \in Procs, Copying(p) PROVE EmptyInv'
  <2> USE <1>3 DEF Copying
  <2>1. CASE Send(p)
    BY <2>1 DEF Send
  <2>2. CASE Spin(p)
    BY <2>2 DEF Spin
  <2>3. CASE SendFails(p)
    BY <2>3 DEF SendFails, Unlinked
  <2>4. CASE UnlinkTarget(p)
    BY <2>4 DEF UnlinkTarget, Unlinked
  <2>5. CASE Rename(p)
    BY <2>5 DEF Rename, Renamed
  <2>6. CASE ReplaceFails(p)
    BY <2>6 DEF ReplaceFails
  <2> QED
    BY <2>1, <2>2, <2>3, <2>4, <2>5, <2>6 DEF CopyStep
<1>4. ASSUME NEW p \in Procs, CopyReturns(p) PROVE EmptyInv'
  BY <1>4 DEF CopyReturns, Return, Stop
<1>5. ASSUME NEW p \in Procs, CopiesDone(p) PROVE EmptyInv'
  BY <1>5 DEF CopiesDone
<1>6. ASSUME NEW p \in Procs, NEW f \in Files, Current(p, f) PROVE EmptyInv'
  BY <1>6, SourceContent DEF Current
<1>7. ASSUME NEW p \in Procs, NEW f \in Files, CopyBegins(p, f) PROVE EmptyInv'
  BY <1>7 DEF CopyBegins, Open, ownVars
<1>8. ASSUME NEW p \in Procs, NEW f \in Files, SourceMissing(p, f) PROVE EmptyInv'
  BY <1>8 DEF SourceMissing, Stop
<1>9. ASSUME NEW p \in Procs, NEW k \in Kernels, WriteEntry(p, k) PROVE EmptyInv'
  BY <1>9 DEF WriteEntry
<1>10. ASSUME NEW p \in Procs, NEW k \in Kernels, InstallFails(p, k) PROVE EmptyInv'
  BY <1>10 DEF InstallFails, Stop
<1>11. ASSUME NEW p \in Procs, NEW k \in Kernels, Collect(p, k) PROVE EmptyInv'
  BY <1>11 DEF Collect
<1>12. ASSUME NEW p \in Procs, EntriesDone(p) PROVE EmptyInv'
  BY <1>12 DEF EntriesDone, Stop
<1>13. ASSUME NEW p \in Procs, CollectDone(p) PROVE EmptyInv'
  BY <1>13 DEF CollectDone
<1>14. ASSUME NEW p \in Procs, Clean(p) PROVE EmptyInv'
  BY <1>14 DEF Clean, Stale, Leftover, ownVars, Names
<1>15. ASSUME NEW p \in Procs, CleanDone(p) PROVE EmptyInv'
  <2>1. /\ pc[p] = "clean" /\ pc' = [pc EXCEPT ![p] = "off"]
        /\ map' = [map EXCEPT ![p] = NoMap] /\ todo' = [todo EXCEPT ![p] = {}]
        /\ emptied' = [emptied EXCEPT ![p] = {}]
    BY <1>15 DEF CleanDone, Stop
  <2>2. UNCHANGED <<dst, tmp, cp, cur, got, user, vendor>>
    BY <1>15 DEF CleanDone
  <2> QED
    BY <2>1, <2>2
<1>16. CASE Replace
  <2>1. PICK f \in Files :
            \/ /\ \E c \in UserContents \cup {"none"} : user' = [user EXCEPT ![f] = c]
               /\ UNCHANGED <<vendor, emptied>>
            \/ /\ \E c \in {"empty", "mask"} : user' = [user EXCEPT ![f] = c]
               /\ emptied' = Emptied(f, "user") /\ UNCHANGED vendor
            \/ /\ \E c \in VendorContents \cup {"none"} : vendor' = [vendor EXCEPT ![f] = c]
               /\ UNCHANGED <<user, emptied>>
    BY <1>16, Zenon DEF Replace
  <2>2. UNCHANGED <<dst, tmp, cp, cur, got, pc, map, todo>>
    BY <1>16 DEF Replace
  <2>3. \A p \in Procs : emptied[p] \subseteq emptied'[p]
    BY <2>1 DEF Emptied
  <2>4. ASSUME NEW p \in Procs, pc[p] # "off", NEW g \in Names(map[p]), Source(p, g)' = "empty"
        PROVE  g \in emptied'[p]
    BY <2>1, <2>2, <2>3, <2>4, SourcesAssumption DEF Emptied, Names
  <2> QED
    BY <2>2, <2>3, <2>4 DEF Names
<1>17. CASE Truncate
  BY <1>17 DEF Truncate, Emptied, Names
<1>18. CASE PowerLoss
  BY <1>18 DEF PowerLoss
<1>19. CASE UNCHANGED vars
  BY <1>19 DEF vars, ownVars
<1> QED
  BY <1>1, <1>2, <1>3, <1>4, <1>5, <1>6, <1>7, <1>8, <1>9, <1>10, <1>11, <1>12, <1>13,
       <1>14, <1>15, <1>16, <1>17, <1>18, <1>19, Zenon DEF Next, Step
-----------------------------------------------------------------------------
(* The entries, and the update that nothing disturbs.                      *)

\* Every kernel that is worked off names what is listed, or has no entry.
LEMMA EntryStep == ASSUME OneProcess, Types, CopyInv, EntryInv, [Next]_vars PROVE EntryInv'
<1> USE DEF OneProcess, Types, KernelTypes, UpdateTypes, FlagTypes, CopyInv, EntryInv,
     Written, kernelVars, history
<1>1. ASSUME NEW p \in Procs, ListUser(p) PROVE EntryInv'
  BY <1>1 DEF ListUser
<1>2. ASSUME NEW p \in Procs, ListVendor(p) PROVE EntryInv'
  BY <1>2 DEF ListVendor
<1>3. ASSUME NEW p \in Procs, Copying(p) PROVE EntryInv'
  BY <1>3 DEF Copying
<1>4. ASSUME NEW p \in Procs, CopyReturns(p) PROVE EntryInv'
  BY <1>4 DEF CopyReturns, Return, Stop
<1>5. ASSUME NEW p \in Procs, CopiesDone(p) PROVE EntryInv'
  BY <1>5 DEF CopiesDone
<1>6. ASSUME NEW p \in Procs, NEW f \in Files, Current(p, f) PROVE EntryInv'
  BY <1>6 DEF Current
<1>7. ASSUME NEW p \in Procs, NEW f \in Files, CopyBegins(p, f) PROVE EntryInv'
  BY <1>7 DEF CopyBegins, Open, ownVars
<1>8. ASSUME NEW p \in Procs, NEW f \in Files, SourceMissing(p, f) PROVE EntryInv'
  BY <1>8 DEF SourceMissing, Stop
<1>9. ASSUME NEW p \in Procs, NEW k \in Kernels, WriteEntry(p, k) PROVE EntryInv'
  BY <1>9 DEF WriteEntry
<1>10. ASSUME NEW p \in Procs, NEW k \in Kernels, InstallFails(p, k) PROVE EntryInv'
  <2>1. pc[p] = "entries" /\ k \in kern[p] /\ \A q \in Procs : q = p
    BY <1>10 DEF InstallFails
  <2>2. \A j \in Kernels \ {k} : entry'[j] = entry[j]
    BY <1>10 DEF InstallFails
  <2>3. CASE Stop(p)
    BY <2>1, <2>3 DEF Stop
  <2>4. CASE /\ kern' \in {kern, [kern EXCEPT ![p] = @ \ {k}]} /\ bad[p] = {}
             /\ bad' = [bad EXCEPT ![p] = {k}] /\ UNCHANGED <<pc, mode, map, keep>>
    <3>1. kern'[p] \subseteq kern[p] /\ kern[p] \subseteq kern'[p] \cup {k} /\ bad'[p] = {k}
      BY <2>4
    <3>2. Written(p)' \subseteq Written(p) \ {k}
      BY <2>1, <2>4, <3>1
    <3>3. \A j \in Written(p)' : entry'[j] = Names(map[p])'
      BY <2>1, <2>2, <2>4, <3>2 DEF Names
    <3> QED
      BY <2>1, <2>4, <3>1, <3>3
  <2>5. CASE /\ pc' = [pc EXCEPT ![p] = "clean"]
             /\ bad' = [bad EXCEPT ![p] = @ \cup {k}] /\ UNCHANGED <<mode, map, keep, kern>>
    <3>1. Written(p)' \subseteq Written(p) \ {k}
      BY <2>5
    <3>2. \A j \in Written(p)' : entry'[j] = Names(map[p])'
      BY <2>1, <2>2, <2>5, <3>1 DEF Names
    <3>3. pc'[p] = "clean" /\ k \in bad'[p]
      BY <2>5
    <3> QED
      BY <2>1, <3>2, <3>3
  <2> QED
    BY <1>10, <2>3, <2>4, <2>5 DEF InstallFails
<1>11. ASSUME NEW p \in Procs, NEW k \in Kernels, Collect(p, k) PROVE EntryInv'
  <2>1. /\ pc[p] = "gc" /\ k \in kern[p] /\ k \notin keep[p] /\ \A q \in Procs : q = p
        /\ UNCHANGED <<map, keep, mode>>
    BY <1>11 DEF Collect
  <2>2. CASE /\ entry' = [entry EXCEPT ![k] = NoEntry] /\ kern' = [kern EXCEPT ![p] = @ \ {k}]
             /\ UNCHANGED <<pc, bad>>
    <3>1. Written(p)' = Written(p) /\ k \notin Written(p)
      BY <2>1, <2>2
    <3>2. \A j \in Written(p)' : entry'[j] = Names(map[p])'
      BY <2>1, <2>2, <3>1 DEF Names
    <3> QED
      BY <2>1, <2>2, <3>2
  <2>3. CASE /\ pc' = [pc EXCEPT ![p] = "clean"] /\ bad' = [bad EXCEPT ![p] = @ \cup {k}]
             /\ UNCHANGED <<entry, kern>>
    <3>1. Written(p)' \subseteq Written(p)
      BY <2>1, <2>3
    <3>2. \A j \in Written(p)' : entry'[j] = Names(map[p])'
      BY <2>1, <2>3, <3>1 DEF Names
    <3> QED
      BY <2>1, <2>3, <3>2
  <2> QED
    BY <1>11, <2>2, <2>3 DEF Collect
<1>12. ASSUME NEW p \in Procs, EntriesDone(p) PROVE EntryInv'
  BY <1>12 DEF EntriesDone, Stop
<1>13. ASSUME NEW p \in Procs, CollectDone(p) PROVE EntryInv'
  BY <1>13 DEF CollectDone
<1>14. ASSUME NEW p \in Procs, Clean(p) PROVE EntryInv'
  BY <1>14 DEF Clean, ownVars
<1>15. ASSUME NEW p \in Procs, CleanDone(p) PROVE EntryInv'
  BY <1>15 DEF CleanDone, Stop
<1>16. CASE Replace
  BY <1>16 DEF Replace
<1>17. CASE Truncate
  BY <1>17 DEF Truncate
<1>18. CASE PowerLoss
  BY <1>18 DEF PowerLoss
<1>19. CASE UNCHANGED vars
  BY <1>19 DEF vars, ownVars
<1> QED
  BY <1>1, <1>2, <1>3, <1>4, <1>5, <1>6, <1>7, <1>8, <1>9, <1>10, <1>11, <1>12, <1>13,
       <1>14, <1>15, <1>16, <1>17, <1>18, <1>19, Zenon DEF Next, Step

\* What an undisturbed update knows stays so until it ends or is disturbed.
LEMMA QuietStep == ASSUME OneProcess, Types, CopyInv, NamedInv, QuietInv, [Next]_vars PROVE QuietInv'
<1> USE ContentsAssumption DEF OneProcess, Types, KernelTypes, CopyTypes, UpdateTypes,
     FlagTypes, CopyInv, NamedInv, QuietInv, Source, kernelVars, history, copyVars, Disturb
<1>1. ASSUME NEW p \in Procs, ListUser(p) PROVE QuietInv'
  BY <1>1 DEF ListUser
<1>2. ASSUME NEW p \in Procs, ListVendor(p) PROVE QuietInv'
  BY <1>2 DEF ListVendor, Merged
<1>3. ASSUME NEW p \in Procs, Copying(p) PROVE QuietInv'
  <2> USE <1>3 DEF Copying
  <2>1. CASE Send(p)
    BY <2>1 DEF Send
  <2>2. CASE Spin(p)
    BY <2>2 DEF Spin
  <2>3. CASE SendFails(p)
    BY <2>3 DEF SendFails, Unlinked
  <2>4. CASE UnlinkTarget(p)
    BY <2>4 DEF UnlinkTarget, Unlinked
  <2>5. CASE Rename(p)
    BY <2>5 DEF Rename, Renamed
  <2>6. CASE ReplaceFails(p)
    BY <2>6 DEF ReplaceFails
  <2> QED
    BY <2>1, <2>2, <2>3, <2>4, <2>5, <2>6 DEF CopyStep
<1>4. ASSUME NEW p \in Procs, CopyReturns(p) PROVE QuietInv'
  <2>1. CASE cp[p] = "ok"
    BY <1>4, <2>1 DEF CopyReturns, Return
  <2>2. CASE cp[p] # "ok"
    BY <1>4, <2>2 DEF CopyReturns, Return, Stop
  <2> QED
    BY <2>1, <2>2
<1>5. ASSUME NEW p \in Procs, CopiesDone(p) PROVE QuietInv'
  BY <1>5 DEF CopiesDone
<1>6. ASSUME NEW p \in Procs, NEW f \in Files, Current(p, f) PROVE QuietInv'
  BY <1>6 DEF Current
<1>7. ASSUME NEW p \in Procs, NEW f \in Files, CopyBegins(p, f) PROVE QuietInv'
  BY <1>7 DEF CopyBegins, Open, ownVars
<1>8. ASSUME NEW p \in Procs, NEW f \in Files, SourceMissing(p, f) PROVE QuietInv'
  BY <1>8 DEF SourceMissing, Stop
<1>9. ASSUME NEW p \in Procs, NEW k \in Kernels, WriteEntry(p, k) PROVE QuietInv'
  BY <1>9 DEF WriteEntry
<1>10. ASSUME NEW p \in Procs, NEW k \in Kernels, InstallFails(p, k) PROVE QuietInv'
  BY <1>10 DEF InstallFails, Stop
<1>11. ASSUME NEW p \in Procs, NEW k \in Kernels, Collect(p, k) PROVE QuietInv'
  BY <1>11 DEF Collect
<1>12. ASSUME NEW p \in Procs, EntriesDone(p) PROVE QuietInv'
  <2>1. CASE mode[p] = "image"
    BY <1>12, <2>1 DEF EntriesDone, Stop
  <2>2. CASE mode[p] # "image"
    BY <1>12, <2>2 DEF EntriesDone
  <2> QED
    BY <2>1, <2>2
<1>13. ASSUME NEW p \in Procs, CollectDone(p) PROVE QuietInv'
  BY <1>13 DEF CollectDone
<1>14. ASSUME NEW p \in Procs, Clean(p) PROVE QuietInv'
  BY <1>14 DEF Clean, ownVars, Stale, Leftover, Names
<1>15. ASSUME NEW p \in Procs, CleanDone(p) PROVE QuietInv'
  BY <1>15 DEF CleanDone, Stop
<1>16. CASE Replace
  BY <1>16 DEF Replace
<1>17. CASE Truncate
  BY <1>17 DEF Truncate
<1>18. CASE PowerLoss
  BY <1>18 DEF PowerLoss
<1>19. CASE UNCHANGED vars
  BY <1>19 DEF vars, ownVars
<1> QED
  BY <1>1, <1>2, <1>3, <1>4, <1>5, <1>6, <1>7, <1>8, <1>9, <1>10, <1>11, <1>12, <1>13,
       <1>14, <1>15, <1>16, <1>17, <1>18, <1>19, Zenon DEF Next, Step

-----------------------------------------------------------------------------
(* The theorems.                                                           *)

\* A step counts one failure or event, or none.
LEMMA CountStep == ASSUME changes \in Nat, [Next]_vars PROVE changes' \in Nat
<1>1. ASSUME NEW p \in Procs, Step(p) PROVE UNCHANGED changes \/ Disturb
  BY <1>1, Zenon DEF Step, ListVendor, Copying, CopyStep, Send, Spin,
         SendFails, UnlinkTarget, Rename, ReplaceFails, CopyReturns, Return, CopiesDone, Current, CopyBegins, Open,
         SourceMissing, WriteEntry, InstallFails, Collect, EntriesDone, CollectDone, Clean, CleanDone
<1>2. UNCHANGED changes \/ Disturb
  BY <1>1 DEF Next, vars, ListUser, Replace, Truncate, PowerLoss
<1> QED
  BY <1>2 DEF Disturb

\* The invariant holds before the first command.
LEMMA InvInit == Init => Inv
<1> SUFFICES ASSUME Init PROVE Inv
  OBVIOUS
<1> USE DEF Init, CopyInit
<1>1. Types
  BY SourcesAssumption DEF Types, CopyTypes, UpdateTypes, KernelTypes, FlagTypes, States, NoMap
<1>2. CopyInv /\ TargetWhole
  BY DEF CopyInv, TargetWhole
<1>3. NamedInv /\ EmptyInv /\ EntryInv /\ QuietInv
  BY DEF NamedInv, EmptyInv, EntryInv, QuietInv
<1> QED
  BY <1>1, <1>2, <1>3 DEF Inv

\* The inductive invariant holds while one process runs at a time.
THEOREM UpdateInvariant == ASSUME OneProcess PROVE Spec => []Inv
<1>1. Inv /\ [Next]_vars => Inv'
  <2> SUFFICES ASSUME Inv, [Next]_vars PROVE Inv'
    OBVIOUS
  <2>1. Types'
    BY CountStep, CopyTypesStep, UpdateTypesStep, KernelTypesStep, FlagTypesStep DEF Inv, Types
  <2> QED
    BY <2>1, CopyStepInv, TargetStep, NamedStep, EmptyStep, EntryStep, QuietStep DEF Inv
<1> QED
  BY <1>1, InvInit, PTL DEF Spec

\* No order of failures lets an entry name an initrd that is missing or cut short,
\* or that is empty unless its source was emptied or masked after it was listed.
THEOREM EntriesNameInFull == ASSUME OneProcess PROVE Spec => []NamedInFull
<1>1. Inv => NamedInFull
  BY DEF Inv, NamedInv, EmptyInv, NamedInFull
<1> QED
  BY <1>1, UpdateInvariant, PTL

\* The clean-up takes no initrd away from an entry that the update has written,
\* whatever failed; with the running kernel known and nothing failed, from none.
THEOREM CleanUpSpares == ASSUME OneProcess PROVE Spec => []CleanSparesNamed
<1>1. Inv => CleanSparesNamed
  BY ContentsAssumption DEF Inv, NamedInv, EntryInv, CleanSparesNamed, Written, Stale, Names
<1> QED
  BY <1>1, UpdateInvariant, PTL

\* "ensure an atomic update of files" (files.h:123): with one writer at a time, no
\* target is ever there in part.
THEOREM TargetsWhole == ASSUME OneProcess PROVE Spec => []TargetWhole
BY UpdateInvariant, PTL DEF Inv

\* An undisturbed update leaves the ESP as the two directories say.
THEOREM UndisturbedDelivers == ASSUME OneProcess PROVE Spec => QuietDelivers
<1>1. ASSUME Inv, [Next]_vars, NEW p \in Procs, pc[p] = "clean", pc'[p] = "off",
             quiet[p], changes' = changes, mode[p] = "known"
      PROVE  Delivered
  <2>1. CleanDone(p)
    <3>1. changes \in Nat
      BY <1>1 DEF Inv, Types
    <3>2. ~Disturb
      BY <1>1, <3>1 DEF Disturb
    <3>3. PICK q \in Procs : ListUser(q) \/ Step(q)
      BY <1>1, <3>2 DEF Next, vars, ownVars, Replace, Truncate, PowerLoss
    <3>4. p = q /\ cp[p] = "idle"
      BY <1>1 DEF Inv, CopyInv, OneProcess
    <3> QED
      BY <1>1, <3>2, <3>3, <3>4 DEF Inv, Types, UpdateTypes, Step, ListUser, ListVendor,
           Copying, CopyStep, Send, Spin,
         SendFails, UnlinkTarget, Rename, ReplaceFails, CopyReturns, CopiesDone, Current, CopyBegins, SourceMissing,
         WriteEntry, InstallFails, Collect, EntriesDone, CollectDone, Clean, ownVars
  <2>2. Stale(p) = {} /\ Leftover = {}
    BY <1>1, <2>1 DEF CleanDone, Disturb, Inv, Types
  <2>3. /\ map[p] = [f \in Files |->
                IF Listed(user[f], "user") # "none" THEN Listed(user[f], "user")
                ELSE Listed(vendor[f], "vendor")]
        /\ \A f \in Names(map[p]) : dst[f] = Source(p, f)
    BY <1>1 DEF Inv, QuietInv, NamedInv
  <2>4. \A k \in Kernels : entry[k] \in {NoEntry, Names(map[p])}
    <3>1. bad[p] = {}
      BY <1>1 DEF Inv, QuietInv
    <3>2. kern[p] = {} /\ \A k \in Kernels \ keep[p] : entry[k] = NoEntry
      BY <1>1, <3>1 DEF Inv, EntryInv
    <3>3. \A k \in keep[p] : entry[k] = Names(map[p])
      BY <1>1, <3>1, <3>2 DEF Inv, EntryInv, Written
    <3> QED
      BY <3>2, <3>3
  <2>5. ASSUME NEW f \in Files
        PROVE  /\ f \in Names(map[p]) <=> WantedContent(f) # "none"
               /\ f \in Names(map[p]) => Source(p, f) = WantedContent(f)
               /\ map[p][f] = "masked" => user[f] = "mask"
    BY <1>1, <2>3, SourcesAssumption DEF Inv, Types, UpdateTypes, Names, WantedContent,
         Source, Listed
  <2>6. Names(map[p]) = {f \in Files : WantedContent(f) # "none"}
    BY <2>5 DEF Names
  <2>7. \A f \in Files : user[f] # "mask" /\ WantedContent(f) = "none" => dst[f] = "none"
    BY <1>1, <2>2, <2>5 DEF Stale, Inv, Types, UpdateTypes, Names
  <2> QED
    BY <2>2, <2>3, <2>4, <2>5, <2>6, <2>7 DEF Delivered
<1>2. Inv /\ [Next]_vars =>
        [\A p \in Procs :
          pc[p] = "clean" /\ pc'[p] = "off" /\ quiet[p] /\ changes' = changes
          /\ mode[p] = "known" => Delivered]_vars
  BY <1>1
<1> QED
  BY <1>2, UpdateInvariant, PTL DEF Spec, QuietDelivers
-----------------------------------------------------------------------------
(* The refinement.                                                         *)

\* The refinement mapping: complete copies are staged, what is listed is kept.
Staged == [f \in Files |-> IF tmp[f] = "part" THEN "none" ELSE tmp[f]]
Kept == UNION {Names(map[p]) : p \in Procs}

\* The files that are kept are files of the abstract specification.
LEMMA KeptFiles == Kept \subseteq Files /\ Kept' \subseteq Files
BY DEF Kept, Names

\* Changing the listing alone is a choice of what to keep.
LEMMA ChooseStep == ASSUME UNCHANGED <<dst, tmp>> PROVE AF!Choose
BY KeptFiles DEF AF!Choose, Kept

\* A .TmpWrite file that becomes incomplete or goes is a discarded copy.
LEMMA DiscardStep ==
    ASSUME Types, UNCHANGED dst, NEW f \in Files, NEW v \in {"part", "none"},
           tmp' = [tmp EXCEPT ![f] = v]
    PROVE  AF!Discard
<1>1. Staged' = [g \in Files |-> IF g \in {f} THEN "none" ELSE Staged[g]]
  BY DEF Staged, Types, CopyTypes
<1> QED
  BY <1>1, KeptFiles DEF AF!Discard, Staged, Kept

\* One that becomes complete is staged.
LEMMA StageStep ==
    ASSUME Types, UNCHANGED <<dst, map>>, NEW f \in Files, NEW v \in Contents,
           tmp' = [tmp EXCEPT ![f] = v]
    PROVE  AF!Stage(f)
<1>1. Staged' = [Staged EXCEPT ![f] = v]
  BY ContentsAssumption DEF Staged, Types, CopyTypes
<1>2. UNCHANGED Kept
  BY DEF Kept
<1> QED
  BY <1>1, <1>2, Zenon DEF AF!Stage, Staged, Kept

\* A complete one that is renamed takes the target's place.
LEMMA SwapStep ==
    ASSUME Types, UNCHANGED map, NEW f \in Files, tmp[f] \in Contents,
           dst' = [dst EXCEPT ![f] = tmp[f]], tmp' = [tmp EXCEPT ![f] = "none"]
    PROVE  AF!Swap(f)
<1>1. Staged' = [Staged EXCEPT ![f] = "none"]
  BY DEF Staged, Types, CopyTypes
<1>2. Staged[f] = tmp[f] /\ Staged[f] # "none"
  BY ContentsAssumption DEF Staged
<1>3. UNCHANGED Kept
  BY DEF Kept
<1>4. dst' = [dst EXCEPT ![f] = Staged[f]]
  BY <1>2
<1> QED
  BY <1>1, <1>2, <1>3, <1>4, Zenon DEF AF!Swap, Staged, Kept

\* Every step of copy_file_atomic is one of the promised ones.
LEMMA CopyingRefines ==
    ASSUME Inv, NEW p \in Procs, CopyStep(p), UNCHANGED map
    PROVE  AF!AFNext \/ UNCHANGED <<dst, tmp, map>>
<1> USE DEF Inv, Types, CopyTypes, CopyInv
<1>1. CASE cp[p] = "idle"
  BY <1>1 DEF CopyStep, Send, Spin, SendFails, UnlinkTarget, Rename, ReplaceFails
<1>2. CASE cp[p] # "idle"
  <2>1. PICK f \in Files : f = cur[p]
    BY <1>2 DEF UpdateTypes
  <2>2. CASE Send(p)
    <3>1. tmp' = [tmp EXCEPT ![f] = got[p]] /\ got[p] \in Contents /\ UNCHANGED dst
      BY <2>1, <2>2 DEF Send
    <3>2. AF!Stage(f)
      BY <3>1, StageStep
    <3> QED
      BY <3>2 DEF AF!AFNext
  <2>3. CASE Spin(p)
    BY <2>3 DEF Spin
  <2>4. CASE SendFails(p)
    BY <2>1, <2>4, DiscardStep DEF SendFails, AF!AFNext
  <2>5. CASE UnlinkTarget(p)
    <3>1. Staged[f] # "none"
      BY <2>1, <2>5, ContentsAssumption DEF UnlinkTarget, Staged
    <3>2. AF!GiveUp(f)
      BY <2>1, <2>5, <3>1 DEF UnlinkTarget, AF!GiveUp, Staged, Kept
    <3> QED
      BY <3>2 DEF AF!AFNext
  <2>6. CASE Rename(p)
    <3>1. /\ tmp[f] \in Contents /\ dst' = [dst EXCEPT ![f] = tmp[f]]
          /\ tmp' = [tmp EXCEPT ![f] = "none"]
      BY <2>1, <2>6 DEF Rename
    <3>2. AF!Swap(f)
      BY <3>1, SwapStep
    <3> QED
      BY <3>2 DEF AF!AFNext
  <2>7. CASE ReplaceFails(p)
    BY <2>7 DEF ReplaceFails
  <2> QED
    BY <2>2, <2>3, <2>4, <2>5, <2>6, <2>7 DEF CopyStep
<1> QED
  BY <1>1, <1>2

\* The clean-up removes what is not listed, and copies that were given up.
LEMMA CleanRefines ==
    ASSUME OneProcess, Inv, NEW p \in Procs, Clean(p) PROVE AF!AFNext
<1>1. CASE \E f \in Stale(p) : dst' = [dst EXCEPT ![f] = "none"] /\ UNCHANGED tmp
  <2>1. PICK f \in Stale(p) : dst' = [dst EXCEPT ![f] = "none"] /\ UNCHANGED tmp
    BY <1>1
  <2>2. f \in Files /\ f \notin Kept
    BY <2>1 DEF Stale, Kept, Names, OneProcess
  <2>3. AF!Remove(f)
    BY <2>1, <2>2 DEF Clean, ownVars, AF!Remove, Kept
  <2> QED
    BY <2>2, <2>3 DEF AF!AFNext
<1>2. CASE \E f \in Leftover : tmp' = [tmp EXCEPT ![f] = "none"] /\ UNCHANGED dst
  <2>1. PICK f \in Leftover : tmp' = [tmp EXCEPT ![f] = "none"] /\ UNCHANGED dst
    BY <1>2
  <2> QED
    BY <2>1, DiscardStep DEF Leftover, AF!AFNext, Inv
<1> QED
  BY <1>1, <1>2 DEF Clean

\* What is on the ESP is replaced the way the header of copy_file_atomic promises:
\* every step of an update and of the world is a step of AtomicFiles or none.
THEOREM ReplacesAtomically == ASSUME OneProcess PROVE Spec => Replaces
<1>1. Init => AF!AFInit
  BY DEF Init, CopyInit, AF!AFInit, NoMap, Names
<1>2. Inv /\ [Next]_vars => AF!AFNext \/ UNCHANGED <<dst, tmp, map>>
  <2> SUFFICES ASSUME Inv, [Next]_vars PROVE AF!AFNext \/ UNCHANGED <<dst, tmp, map>>
    OBVIOUS
  <2>1. CASE UNCHANGED copyVars
    BY <2>1, ChooseStep DEF copyVars, AF!AFNext
  <2>2. ASSUME NEW p \in Procs, Copying(p) PROVE AF!AFNext \/ UNCHANGED <<dst, tmp, map>>
    BY <2>2, CopyingRefines DEF Copying
  <2>3. ASSUME NEW p \in Procs, CopyReturns(p) PROVE AF!AFNext
    BY <2>3, ChooseStep DEF CopyReturns, Return, AF!AFNext
  <2>4. ASSUME NEW p \in Procs, Clean(p) PROVE AF!AFNext
    BY <2>4, CleanRefines
  <2>5. ASSUME NEW p \in Procs, NEW f \in Files, CopyBegins(p, f) PROVE AF!AFNext
    BY <2>5, DiscardStep DEF CopyBegins, Open, Inv, AF!AFNext
  <2>6. ASSUME NEW p \in Procs, NEW f \in Files, SourceMissing(p, f) PROVE AF!AFNext
    BY <2>6, DiscardStep DEF SourceMissing, Inv, AF!AFNext
  <2>7. CASE Truncate
    BY <2>7, ChooseStep DEF Truncate, AF!AFNext
  <2>8. CASE PowerLoss
    <3>1. Staged' = Staged /\ UNCHANGED dst
      BY <2>8 DEF PowerLoss, Staged, Inv, Types, CopyTypes
    <3> QED
      BY <3>1, KeptFiles DEF AF!Choose, AF!AFNext, Staged, Kept
  <2> QED
    BY <2>1, <2>2, <2>3, <2>4, <2>5, <2>6, <2>7, <2>8, CopyFrame, Zenon
<1>3. Inv /\ [Next]_vars => [AF!AFNext]_(AF!vars)
  BY <1>2 DEF AF!vars
<1> QED
  BY <1>1, <1>3, UpdateInvariant, PTL DEF Spec, Replaces, AF!AFSpec
=============================================================================
