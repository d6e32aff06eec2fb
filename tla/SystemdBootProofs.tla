-------------------------- MODULE SystemdBootProofs --------------------------
(***************************************************************************)
(* Proofs about SystemdBoot for every number of mishaps and changes.       *)
(***************************************************************************)
EXTENDS SystemdBoot, TLAPS

\* The two copies are different files.
LEMMA CopiesDiffer == Copies[1] = "vendor" /\ Copies[2] = "default"
BY DEF Copies

\* Every step keeps the types of the flags.
LEMMA FlagsStep == ASSUME FlagsOK, [Next]_vars PROVE FlagsOK'
<1> USE DEF FlagsOK, Steady, Fault, Return, Idle, world
<1>1. CASE Start
  BY <1>1, Zenon DEF Start
<1>2. CASE EnsureDirs
  BY <1>2, Zenon DEF EnsureDirs
<1>3. CASE Copy
  BY <1>3, Zenon DEF Copy, Advance
<1>4. CASE Rename
  BY <1>4, Zenon DEF Rename, Advance
<1>5. CASE Exit
  BY <1>5, Zenon DEF Exit
<1>6. CASE PowerLoss
  BY <1>6, Zenon DEF PowerLoss
<1>7. CASE PkgUpdate
  BY <1>7, Zenon DEF PkgUpdate
<1>8. CASE OtherLoader
  BY <1>8, Zenon DEF OtherLoader
<1>9. CASE UNCHANGED vars
  BY <1>9, Zenon DEF vars
<1>10. QED
  BY <1>1, <1>2, <1>3, <1>4, <1>5, <1>6, <1>7, <1>8, <1>9 DEF Next, Process

\* Every step keeps the types of the copies and of the place in the code.
LEMMA PlaceStep == ASSUME PlaceOK, AtHand, [Next]_vars PROVE PlaceOK'
<1> USE CopiesDiffer DEF PlaceOK, AtHand, Paths, Return, Idle, world
<1>1. CASE Start
  BY <1>1 DEF Start
<1>2. CASE EnsureDirs
  BY <1>2 DEF EnsureDirs
<1>3. CASE Copy
  BY <1>3 DEF Copy, Advance
<1>4. CASE Rename
  BY <1>4 DEF Rename, Advance
<1>5. CASE Exit
  BY <1>5 DEF Exit
<1>6. CASE PowerLoss
  BY <1>6 DEF PowerLoss
<1>7. CASE PkgUpdate
  BY <1>7 DEF PkgUpdate
<1>8. CASE OtherLoader
  BY <1>8 DEF OtherLoader
<1>9. CASE UNCHANGED vars
  BY <1>9 DEF vars
<1>10. QED
  BY <1>1, <1>2, <1>3, <1>4, <1>5, <1>6, <1>7, <1>8, <1>9 DEF Next, Process

\* Every step counts at most one mishap or change, and within its bound.
LEMMA BoundsStep == ASSUME BoundsOK, [Next]_vars PROVE BoundsOK'
<1> DEFINE Counted == /\ mishaps' = mishaps \/ (mishaps < MaxMishaps /\ mishaps' = mishaps + 1)
                      /\ changes' = changes \/ (changes < MaxChanges /\ changes' = changes + 1)
<1>1. Counted
  <2>1. CASE Start
    BY <2>1, Zenon DEF Start, Steady, Fault, world
  <2>2. CASE EnsureDirs
    BY <2>2, Zenon DEF EnsureDirs, Steady, Fault, world
  <2>3. CASE Copy
    BY <2>3, Zenon DEF Copy, Steady, Fault, world
  <2>4. CASE Rename
    BY <2>4, Zenon DEF Rename, Steady, Fault, world
  <2>5. CASE Exit
    BY <2>5, Zenon DEF Exit, world
  <2>6. CASE PowerLoss
    BY <2>6, Zenon DEF PowerLoss
  <2>7. CASE PkgUpdate
    BY <2>7, Zenon DEF PkgUpdate
  <2>8. CASE OtherLoader
    BY <2>8, Zenon DEF OtherLoader
  <2>9. CASE UNCHANGED vars
    BY <2>9, Zenon DEF vars
  <2>10. QED
    BY <2>1, <2>2, <2>3, <2>4, <2>5, <2>6, <2>7, <2>8, <2>9 DEF Next, Process
<1>2. QED
  BY <1>1, SystemdBootAssumption DEF BoundsOK

\* Every step keeps the invariant on the copies (systemd-class.c:578-698).
LEMMA CopiesStep == ASSUME TypeOK, CopiesInv, [Next]_vars PROVE CopiesInv'
<1> USE CopiesDiffer DEF TypeOK, PlaceOK, BoundsOK, CopiesInv, AtHand, LoaderCurrent, Paths,
        Steady, Fault, Return, Idle, world
<1>1. CASE Start
  BY <1>1 DEF Start, NeedsInstall, NeedsUpdate
<1>2. CASE EnsureDirs
  BY <1>2 DEF EnsureDirs
<1>3. CASE Copy
  BY <1>3 DEF Copy, Advance
<1>4. CASE Rename
  BY <1>4 DEF Rename, Advance
<1>5. CASE Exit
  BY <1>5 DEF Exit
<1>6. CASE PowerLoss
  BY <1>6 DEF PowerLoss
<1>7. CASE PkgUpdate
  BY <1>7 DEF PkgUpdate
<1>8. CASE OtherLoader
  BY <1>8 DEF OtherLoader
<1>9. CASE UNCHANGED vars
  BY <1>9 DEF vars
<1>10. QED
  BY <1>1, <1>2, <1>3, <1>4, <1>5, <1>6, <1>7, <1>8, <1>9 DEF Next, Process

\* In every reachable state the two copies of the loader are as CopiesInv says.
THEOREM CopiesInvariant == Spec => [](TypeOK /\ CopiesInv)
<1>1. Init => TypeOK /\ CopiesInv
  <2>1. Init => FlagsOK
    BY Zenon DEF Init, FlagsOK
  <2>2. Init => PlaceOK /\ BoundsOK
    BY SystemdBootAssumption DEF Init, PlaceOK, BoundsOK, Paths
  <2>3. Init => CopiesInv
    BY DEF Init, CopiesInv, AtHand, LoaderCurrent, Paths
  <2>4. QED
    BY <2>1, <2>2, <2>3 DEF TypeOK
<1>2. (TypeOK /\ CopiesInv) /\ [Next]_vars => (TypeOK /\ CopiesInv)'
  <2> SUFFICES ASSUME TypeOK, CopiesInv, [Next]_vars PROVE (TypeOK /\ CopiesInv)'
    OBVIOUS
  <2>1. TypeOK'
    BY FlagsStep, PlaceStep, BoundsStep DEF TypeOK, CopiesInv
  <2>2. QED
    BY <2>1, CopiesStep
<1>3. QED
  BY <1>1, <1>2, PTL DEF Spec

\* A successful update of the loader leaves both copies current, whatever failed
\* or was interrupted before.
THEOREM UpdateDelivers == Spec => []LoaderCurrent
BY CopiesInvariant, PTL DEF CopiesInv

\* After at most one power loss or failed operation the firmware finds a loader.
THEOREM SurvivesOneMishap == Spec => []OneCopySurvives
<1>1. TypeOK /\ CopiesInv => OneCopySurvives
  BY DEF CopiesInv, OneCopySurvives
<1>2. QED
  BY <1>1, CopiesInvariant, PTL

\* The distribution's program is there while it is copied and after a success.
SourceInv == pc = "rename" \/ (pc = "done" /\ ret) => source

\* After an undisturbed success there is nothing to do, until something changes: the
\* process only ever looks. Idempotent alone is not inductive, since whether a copy is
\* made is decided steps before.
CleanInv ==
    clean => source /\ (\A p \in Paths : blob[p] = "good") /\ pc \in {"off", "done"}

\* Every step keeps both.
LEMMA CleanStep ==
  ASSUME TypeOK, CopiesInv, SourceInv, CleanInv, [Next]_vars
  PROVE  SourceInv' /\ CleanInv'
<1> USE DEF TypeOK, FlagsOK, PlaceOK, CopiesInv, LoaderCurrent, SourceInv, CleanInv, Paths,
        Steady, Fault, Return, Idle, world
<1>1. CASE Start
  BY <1>1 DEF Start, NeedsInstall, NeedsUpdate
<1>2. CASE EnsureDirs
  BY <1>2 DEF EnsureDirs
<1>3. CASE Copy
  BY <1>3 DEF Copy, Advance
<1>4. CASE Rename
  BY <1>4 DEF Rename, Advance
<1>5. CASE Exit
  BY <1>5 DEF Exit
<1>6. CASE PowerLoss
  BY <1>6 DEF PowerLoss
<1>7. CASE PkgUpdate
  BY <1>7 DEF PkgUpdate
<1>8. CASE OtherLoader
  BY <1>8 DEF OtherLoader
<1>9. CASE UNCHANGED vars
  BY <1>9 DEF vars
<1>10. QED
  BY <1>1, <1>2, <1>3, <1>4, <1>5, <1>6, <1>7, <1>8, <1>9 DEF Next, Process

\* An update after an undisturbed successful one, with no change in between, writes
\* neither copy, whatever happened before those.
THEOREM UpdateIdempotent == Spec => Idempotent
<1>1. Init => SourceInv /\ CleanInv
  BY DEF Init, SourceInv, CleanInv
<1>2. TypeOK /\ CopiesInv /\ SourceInv /\ CleanInv /\ [Next]_vars => (SourceInv /\ CleanInv)'
  BY CleanStep
<1>3. CleanInv /\ [Next]_vars => [clean /\ clean' => UNCHANGED blob]_vars
  <2> SUFFICES ASSUME CleanInv, [Next]_vars, clean, clean' PROVE UNCHANGED blob
    OBVIOUS
  <2>1. pc \in {"off", "done"}
    BY DEF CleanInv
  <2>2. QED
    BY <2>1 DEF Next, Process, Start, EnsureDirs, Copy, Rename, Exit, PowerLoss, PkgUpdate,
       OtherLoader, vars
<1>4. QED
  BY <1>1, <1>2, <1>3, CopiesInvariant, PTL DEF Spec, Idempotent
=============================================================================
