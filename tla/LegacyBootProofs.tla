--------------------------- MODULE LegacyBootProofs --------------------------
(***************************************************************************)
(* Proofs about LegacyBoot, for every set of kernels, both loaders and any *)
(* number of failures, power losses and packages.                          *)
(***************************************************************************)
EXTENDS LegacyBoot, TLAPS

-----------------------------------------------------------------------------
(* The inductive invariant.                                                *)

Updating == op = "update"

\* update before it has chosen a default, and the steps of setting one.
Installing == pc \in {"loader", "repair", "install"}
Setting == pc \in {"setdef", "compare", "create", "write", "chmod", "mkconfig", "symlink", "set"}

\* Which steps belong to which command, and what has been chosen by then.
PhaseInv ==
    /\ snap \subseteq Kernels
    /\ pc = "idle" <=> op = "none"
    /\ Installing \/ pc = "gc" => Updating
    /\ Installing => def = None /\ keep # {}
    /\ Setting => def \in Kernels

\* An update succeeds only if the loader's own installation did.
ResultInv ==
    /\ Updating /\ ok => bl /\ pc \in {"gc", "done"}
    /\ bl /\ loader = "syslinux" => sector = 3

\* The kernels that update keeps are installed and queued before the menu is
\* written, and none of them is put down for removal.
InstallInv ==
    /\ pc \in {"loader", "repair"} => todo = keep
    /\ pc = "install" => todo \subseteq keep /\ keep \ todo \subseteq queue \cap blob
    /\ Updating /\ (Setting \/ pc = "gc") =>
          keep # {} /\ keep \subseteq queue \cap blob /\ todo \cap keep = {} /\ run \notin todo

\* The menu is the one to be written, or empty.
MenuInv ==
    /\ pc = "write" => menu = EmptyMenu
    /\ pc \in {"chmod", "mkconfig", "symlink"} => loader = "grub2"
    /\ pc \in {"chmod", "mkconfig"} => menu \in {NewMenu, EmptyMenu}
    /\ pc \in {"symlink", "set"} \/ (pc = "gc" /\ def # None) =>
          BootMenu \in {NewMenu, EmptyMenu, Menu({}, None)}

\* The queue of an update that nothing disturbs: what it has installed, for
\* GRUB2, and otherwise all that it found.
Queue(k) == IF loader = "grub2" THEN k \cup ({run} \ {None}) ELSE snap

Undisturbed == Updating /\ quiet
Ending == pc = "gc" \/ (pc = "done" /\ ok)

\* Nothing has failed and no package came since update began: it works on what
\* it found, to the end ...
QuietInv ==
    Undisturbed =>
        /\ Installing \/ Setting => src = snap
        /\ Installing /\ link \in snap => link \in keep
        /\ pc \in {"loader", "repair"} => queue = (IF loader = "grub2" THEN {} ELSE snap)
        /\ pc = "install" => queue = Queue(keep \ todo) /\ (run # None => run \in blob)
        /\ Setting \/ Ending =>
              /\ def # None => def \in keep
              /\ keep \subseteq blob /\ (run # None => run \in blob)
              /\ queue = Queue(keep)

\* ... and writes the menu.
QuietMenuInv ==
    Undisturbed =>
        /\ pc \in {"chmod", "mkconfig", "symlink", "set"} => menu = NewMenu
        /\ (pc \in {"symlink", "set"} \/ Ending) /\ def # None /\ ~Lame => BootMenu = NewMenu
        /\ (pc = "set" \/ Ending) /\ def # None /\ loader = "grub2" => vmlinuz = def

Inv ==
    /\ FilesOK /\ PlanOK /\ FlagsOK
    /\ PhaseInv /\ ResultInv /\ InstallInv /\ MenuInv /\ QuietInv /\ QuietMenuInv
-----------------------------------------------------------------------------
(* Types.                                                                  *)

\* The menus that are written are menus.
LEMMA NewMenuType ==
    ASSUME FilesOK, PlanOK, PhaseInv, Setting PROVE NewMenu \in MenuFiles
BY DEF FilesOK, PlanOK, PhaseInv, NewMenu, GrubMenu, SyslinuxMenu, Menu, MenuFiles, Given

\* ... also the empty ones.
LEMMA EmptyMenuType ==
    EmptyMenu \in MenuFiles /\ NoMenu \in MenuFiles /\ Menu({}, None) \in MenuFiles
BY DEF MenuFiles, EmptyMenu, NoMenu, Menu

\* The steps keep the files' types.
LEMMA FilesStep == ASSUME FilesOK, PlanOK, PhaseInv, [Next]_vars PROVE FilesOK'
<1> USE DEF FilesOK
<1>1. CASE StartUpdate
  BY <1>1 DEF StartUpdate, files
<1>2. CASE UpdateLoader
  BY <1>2 DEF UpdateLoader, Fault
<1>3. CASE Repair
  BY <1>3 DEF Repair, Installs
<1>4. ASSUME NEW k \in Kernels, InstallKernel(k) PROVE FilesOK'
  BY <1>4 DEF InstallKernel, Installs
<1>5. CASE ChooseDefault
  BY <1>5 DEF ChooseDefault, files
<1>6. CASE BeginDefault
  BY <1>6 DEF BeginDefault, files
<1>7. CASE Compare
  BY <1>7 DEF Compare, files
<1>8. CASE Create
  BY <1>8, NewMenuType, EmptyMenuType DEF Create
<1>9. CASE Write
  BY <1>9, NewMenuType, EmptyMenuType DEF Write, Setting
<1>10. CASE Chmod
  BY <1>10 DEF Chmod, files
<1>11. CASE RunMkConfig
  BY <1>11, NewMenuType, EmptyMenuType DEF RunMkConfig, MkConfig
<1>12. CASE Symlink
  BY <1>12 DEF Symlink, Given, PlanOK
<1>13. CASE DefaultSet
  BY <1>13 DEF DefaultSet, files
<1>14. ASSUME NEW k \in Kernels, Collect(k) PROVE FilesOK'
  BY <1>14 DEF Collect, files
<1>15. CASE CollectDone
  BY <1>15 DEF CollectDone, files
<1>16. ASSUME NEW k \in Kernels, StartSet(k) PROVE FilesOK'
  BY <1>16 DEF StartSet, files
<1>17. ASSUME NEW k \in Kernels, RemoveKernel(k) PROVE FilesOK'
  BY <1>17 DEF RemoveKernel, files
<1>18. CASE Exit
  BY <1>18 DEF Exit, files
<1>19. CASE Package
  BY <1>19 DEF Package, files
<1>20. CASE PowerLoss
  BY <1>20 DEF PowerLoss, files
<1>21. CASE UNCHANGED vars
  BY <1>21 DEF vars, files
<1> QED
  BY <1>1, <1>2, <1>3, <1>4, <1>5, <1>6, <1>7, <1>8, <1>9, <1>10, <1>11, <1>12, <1>13,
       <1>14, <1>15, <1>16, <1>17, <1>18, <1>19, <1>20, <1>21, Zenon
     DEF Next, Step

\* ... those of the plan ...
LEMMA PlanStep == ASSUME FilesOK, PlanOK, PhaseInv, [Next]_vars PROVE PlanOK'
<1> USE BoundAssumption DEF PlanOK, PhaseInv
<1>1. CASE StartUpdate
  <2>1. run' \in src \cup {None}
    BY <1>1, NamesAssumption DEF StartUpdate, RunningKernels, FilesOK
  <2> QED
    BY <1>1, <2>1, NamesAssumption DEF StartUpdate, Fail, Tips, InitQueue, FilesOK
<1>2. CASE UpdateLoader
  BY <1>2 DEF UpdateLoader, Fault, InitQueue, FilesOK
<1>3. CASE Repair
  BY <1>3 DEF Repair, Fault, Installs, Queued, FilesOK
<1>4. ASSUME NEW k \in Kernels, InstallKernel(k) PROVE PlanOK'
  BY <1>4 DEF InstallKernel, Fault, Fail, Installs, Queued, FilesOK
<1>5. CASE ChooseDefault
  BY <1>5 DEF ChooseDefault, plan, Fail, Fault
<1>6. CASE BeginDefault
  BY <1>6 DEF BeginDefault, plan, Fail, Fault
<1>7. CASE Compare
  BY <1>7 DEF Compare, plan, Fail, Fault
<1>8. CASE Create
  BY <1>8 DEF Create, plan, Fail, Fault
<1>9. CASE Write
  BY <1>9 DEF Write, plan, Fail, Fault
<1>10. CASE Chmod
  BY <1>10 DEF Chmod, plan, Fail, Fault
<1>11. CASE RunMkConfig
  BY <1>11 DEF RunMkConfig, plan, Fail, Fault
<1>12. CASE Symlink
  BY <1>12 DEF Symlink, plan, Fail, Fault
<1>13. CASE DefaultSet
  BY <1>13 DEF DefaultSet, plan, Fail, Fault
<1>14. ASSUME NEW k \in Kernels, Collect(k) PROVE PlanOK'
  BY <1>14 DEF Collect, plan, Fail, Fault
<1>15. CASE CollectDone
  BY <1>15 DEF CollectDone, plan, Fail, Fault
<1>16. ASSUME NEW k \in Kernels, StartSet(k) PROVE PlanOK'
  BY <1>16 DEF StartSet, InitQueue, FilesOK
<1>17. ASSUME NEW k \in Kernels, RemoveKernel(k) PROVE PlanOK'
  BY <1>17 DEF RemoveKernel, plan, Fail, Fault
<1>18. CASE Exit
  BY <1>18 DEF Exit, plan, Fail, Fault
<1>19. CASE Package
  BY <1>19 DEF Package, plan, Fail, Fault
<1>20. CASE PowerLoss
  BY <1>20 DEF PowerLoss, plan, Fail, Fault
<1>21. CASE UNCHANGED vars
  BY <1>21 DEF vars, plan
<1> QED
  BY <1>1, <1>2, <1>3, <1>4, <1>5, <1>6, <1>7, <1>8, <1>9, <1>10, <1>11, <1>12, <1>13,
       <1>14, <1>15, <1>16, <1>17, <1>18, <1>19, <1>20, <1>21, Zenon
     DEF Next, Step

\* ... and the flags.
LEMMA FlagsStep == ASSUME FlagsOK, [Next]_vars PROVE FlagsOK'
<1> USE DEF FlagsOK
<1>1. CASE StartUpdate
  BY <1>1, Zenon DEF StartUpdate, Fail, Fault, result, files
<1>2. CASE UpdateLoader
  BY <1>2, Zenon DEF UpdateLoader, Fail, Fault, result, files
<1>3. CASE Repair
  BY <1>3, Zenon DEF Repair, Fail, Fault, result, files
<1>4. ASSUME NEW k \in Kernels, InstallKernel(k) PROVE FlagsOK'
  BY <1>4, Zenon DEF InstallKernel, Fail, Fault, result, files
<1>5. CASE ChooseDefault
  BY <1>5, Zenon DEF ChooseDefault, Fail, Fault, result, files
<1>6. CASE BeginDefault
  BY <1>6, Zenon DEF BeginDefault, Fail, Fault, result, files
<1>7. CASE Compare
  BY <1>7, Zenon DEF Compare, Fail, Fault, result, files
<1>8. CASE Create
  BY <1>8, Zenon DEF Create, Fail, Fault, result, files
<1>9. CASE Write
  BY <1>9, Zenon DEF Write, Fail, Fault, result, files
<1>10. CASE Chmod
  BY <1>10, Zenon DEF Chmod, Fail, Fault, result, files
<1>11. CASE RunMkConfig
  BY <1>11, Zenon DEF RunMkConfig, Fail, Fault, result, files
<1>12. CASE Symlink
  BY <1>12, Zenon DEF Symlink, Fail, Fault, result, files
<1>13. CASE DefaultSet
  BY <1>13, Zenon DEF DefaultSet, Fail, Fault, result, files
<1>14. ASSUME NEW k \in Kernels, Collect(k) PROVE FlagsOK'
  BY <1>14, Zenon DEF Collect, Fail, Fault, result, files
<1>15. CASE CollectDone
  BY <1>15, Zenon DEF CollectDone, Fail, Fault, result, files
<1>16. ASSUME NEW k \in Kernels, StartSet(k) PROVE FlagsOK'
  BY <1>16, Zenon DEF StartSet, Fail, Fault, result, files
<1>17. ASSUME NEW k \in Kernels, RemoveKernel(k) PROVE FlagsOK'
  BY <1>17, Zenon DEF RemoveKernel, Fail, Fault, result, files
<1>18. CASE Exit
  BY <1>18, Zenon DEF Exit, Fail, Fault, result, files
<1>19. CASE Package
  BY <1>19, Zenon DEF Package, Fail, Fault, result, files
<1>20. CASE PowerLoss
  BY <1>20, Zenon DEF PowerLoss, Fail, Fault, result, files
<1>21. CASE UNCHANGED vars
  BY <1>21 DEF vars, files, result
<1> QED
  BY <1>1, <1>2, <1>3, <1>4, <1>5, <1>6, <1>7, <1>8, <1>9, <1>10, <1>11, <1>12, <1>13,
       <1>14, <1>15, <1>16, <1>17, <1>18, <1>19, <1>20, <1>21, Zenon
     DEF Next, Step

-----------------------------------------------------------------------------
(* The steps of the commands.                                              *)

\* Every step stays with its command.
LEMMA PhaseStep == ASSUME FilesOK, PlanOK, PhaseInv, [Next]_vars PROVE PhaseInv'
<1> USE NamesAssumption DEF PhaseInv, Updating, Installing, Setting, FilesOK, PlanOK
<1>1. CASE StartUpdate
  BY <1>1 DEF StartUpdate, Fail, Tips, FilesOK
<1>2. CASE UpdateLoader
  BY <1>2 DEF UpdateLoader, plan, Fail
<1>3. CASE Repair
  BY <1>3 DEF Repair, plan, Fail
<1>4. ASSUME NEW k \in Kernels, InstallKernel(k) PROVE PhaseInv'
  BY <1>4 DEF InstallKernel, plan, Fail
<1>5. CASE ChooseDefault
  BY <1>5 DEF ChooseDefault, plan, Fail
<1>6. CASE BeginDefault
  BY <1>6 DEF BeginDefault, plan, Fail
<1>7. CASE Compare
  BY <1>7 DEF Compare, plan, Fail
<1>8. CASE Create
  BY <1>8 DEF Create, plan, Fail
<1>9. CASE Write
  BY <1>9 DEF Write, plan, Fail
<1>10. CASE Chmod
  BY <1>10 DEF Chmod, plan, Fail
<1>11. CASE RunMkConfig
  BY <1>11 DEF RunMkConfig, plan, Fail
<1>12. CASE Symlink
  BY <1>12 DEF Symlink, plan, Fail
<1>13. CASE DefaultSet
  BY <1>13 DEF DefaultSet, plan, Fail
<1>14. ASSUME NEW k \in Kernels, Collect(k) PROVE PhaseInv'
  BY <1>14 DEF Collect, plan, Fail
<1>15. CASE CollectDone
  BY <1>15 DEF CollectDone, plan, Fail
<1>16. ASSUME NEW k \in Kernels, StartSet(k) PROVE PhaseInv'
  BY <1>16 DEF StartSet, plan, Fail
<1>17. ASSUME NEW k \in Kernels, RemoveKernel(k) PROVE PhaseInv'
  BY <1>17 DEF RemoveKernel, plan, Fail
<1>18. CASE Exit
  BY <1>18 DEF Exit, plan, Fail
<1>19. CASE Package
  BY <1>19 DEF Package, plan, Fail
<1>20. CASE PowerLoss
  BY <1>20 DEF PowerLoss, plan, Fail
<1>21. CASE UNCHANGED vars
  BY <1>21 DEF vars, plan
<1> QED
  BY <1>1, <1>2, <1>3, <1>4, <1>5, <1>6, <1>7, <1>8, <1>9, <1>10, <1>11, <1>12, <1>13,
       <1>14, <1>15, <1>16, <1>17, <1>18, <1>19, <1>20, <1>21, Zenon
     DEF Next, Step

\* Every step keeps the result that of the loader's installation.
LEMMA ResultStep == ASSUME FilesOK, FlagsOK, PhaseInv, ResultInv, [Next]_vars PROVE ResultInv'
<1> USE DEF ResultInv, PhaseInv, Updating, Installing
<1>1. CASE StartUpdate
  <2>1. bl' = FALSE /\ ok' = FALSE
    BY <1>1 DEF StartUpdate, Fail
  <2> QED
    BY <2>1
<1>2. CASE UpdateLoader
  <2>1. ok = FALSE /\ ok' = ok /\ UNCHANGED loader
    BY <1>2 DEF UpdateLoader, FlagsOK
  <2>2. bl' /\ loader = "syslinux" => sector' = 3
    BY <1>2, Zenon DEF UpdateLoader
  <2> QED
    BY <2>1, <2>2
<1>3. CASE Repair
  BY <1>3 DEF Repair, plan, Fail, Fault, files, result
<1>4. ASSUME NEW k \in Kernels, InstallKernel(k) PROVE ResultInv'
  BY <1>4 DEF InstallKernel, plan, Fail, Fault, files, result
<1>5. CASE ChooseDefault
  <2>1. UNCHANGED <<loader, sector, bl, op>>
    BY <1>5 DEF ChooseDefault, files
  <2>2. ok' => (bl /\ pc' = "gc")
    BY <1>5, Zenon DEF ChooseDefault, FlagsOK, Fail, ResultInv, Updating
  <2> QED
    BY <2>1, <2>2
<1>6. CASE BeginDefault
  BY <1>6 DEF BeginDefault, plan, Fail, Fault, files, result
<1>7. CASE Compare
  BY <1>7 DEF Compare, plan, Fail, Fault, files, result
<1>8. CASE Create
  BY <1>8 DEF Create, plan, Fail, Fault, files, result
<1>9. CASE Write
  BY <1>9 DEF Write, plan, Fail, Fault, files, result
<1>10. CASE Chmod
  BY <1>10 DEF Chmod, plan, Fail, Fault, files, result
<1>11. CASE RunMkConfig
  BY <1>11 DEF RunMkConfig, plan, Fail, Fault, files, result
<1>12. CASE Symlink
  BY <1>12 DEF Symlink, plan, Fail, Fault, files, result
<1>13. CASE DefaultSet
  <2>1. UNCHANGED <<loader, sector, bl, op>>
    BY <1>13 DEF DefaultSet, files
  <2>2. op # "set" /\ ok' => (bl /\ pc' = "gc")
    BY <1>13, Zenon DEF DefaultSet
  <2> QED
    BY <2>1, <2>2
<1>14. ASSUME NEW k \in Kernels, Collect(k) PROVE ResultInv'
  BY <1>14 DEF Collect, plan, Fail, Fault, files, result
<1>15. CASE CollectDone
  BY <1>15 DEF CollectDone, plan, Fail, Fault, files, result
<1>16. ASSUME NEW k \in Kernels, StartSet(k) PROVE ResultInv'
  BY <1>16 DEF StartSet, plan, Fail, Fault, files, result
<1>17. ASSUME NEW k \in Kernels, RemoveKernel(k) PROVE ResultInv'
  BY <1>17 DEF RemoveKernel, plan, Fail, Fault, files, result
<1>18. CASE Exit
  BY <1>18 DEF Exit, plan, Fail, Fault, files, result
<1>19. CASE Package
  BY <1>19 DEF Package, plan, Fail, Fault, files, result
<1>20. CASE PowerLoss
  BY <1>20 DEF PowerLoss, plan, Fail, Fault, files, result
<1>21. CASE UNCHANGED vars
  BY <1>21 DEF vars, plan, files, result
<1> HIDE DEF ResultInv
<1> QED
  BY <1>1, <1>2, <1>3, <1>4, <1>5, <1>6, <1>7, <1>8, <1>9, <1>10, <1>11, <1>12, <1>13,
       <1>14, <1>15, <1>16, <1>17, <1>18, <1>19, <1>20, <1>21, Zenon
     DEF Next, Step

\* Every step keeps the kernels that are kept.
LEMMA InstallStep ==
    ASSUME FilesOK, PlanOK, PhaseInv, InstallInv, [Next]_vars PROVE InstallInv'
<1> USE NamesAssumption DEF InstallInv, PhaseInv, FilesOK, PlanOK, Updating, Installing,
     Setting
<1>1. CASE StartUpdate
  BY <1>1 DEF StartUpdate, plan, Fail, files
<1>2. CASE UpdateLoader
  BY <1>2 DEF UpdateLoader, plan, Fail, files
<1>3. CASE Repair
  BY <1>3 DEF Repair, Installs, Queued
<1>4. ASSUME NEW k \in Kernels, InstallKernel(k) PROVE InstallInv'
  BY <1>4 DEF InstallKernel, Installs, Queued, Fail
<1>5. CASE ChooseDefault
  BY <1>5 DEF ChooseDefault, plan, Fail, files
<1>6. CASE BeginDefault
  BY <1>6 DEF BeginDefault, plan, Fail, files
<1>7. CASE Compare
  BY <1>7 DEF Compare, plan, Fail, files
<1>8. CASE Create
  BY <1>8 DEF Create, plan, Fail, files
<1>9. CASE Write
  BY <1>9 DEF Write, plan, Fail, files
<1>10. CASE Chmod
  BY <1>10 DEF Chmod, plan, Fail, files
<1>11. CASE RunMkConfig
  BY <1>11 DEF RunMkConfig, plan, Fail, files
<1>12. CASE Symlink
  BY <1>12 DEF Symlink, plan, Fail, files
<1>13. CASE DefaultSet
  BY <1>13 DEF DefaultSet, plan, Fail, files
<1>14. ASSUME NEW k \in Kernels, Collect(k) PROVE InstallInv'
  BY <1>14 DEF Collect, plan, Fail, files
<1>15. CASE CollectDone
  BY <1>15 DEF CollectDone, plan, Fail, files
<1>16. ASSUME NEW k \in Kernels, StartSet(k) PROVE InstallInv'
  BY <1>16 DEF StartSet, plan, Fail, files
<1>17. ASSUME NEW k \in Kernels, RemoveKernel(k) PROVE InstallInv'
  BY <1>17 DEF RemoveKernel, plan, Fail, files
<1>18. CASE Exit
  BY <1>18 DEF Exit, plan, Fail, files
<1>19. CASE Package
  BY <1>19 DEF Package, plan, Fail, files
<1>20. CASE PowerLoss
  BY <1>20 DEF PowerLoss, plan, Fail, files
<1>21. CASE UNCHANGED vars
  BY <1>21 DEF vars, plan, files
<1> QED
  BY <1>1, <1>2, <1>3, <1>4, <1>5, <1>6, <1>7, <1>8, <1>9, <1>10, <1>11, <1>12, <1>13,
       <1>14, <1>15, <1>16, <1>17, <1>18, <1>19, <1>20, <1>21, Zenon
     DEF Next, Step

\* What is to be written depends on the queue and the default only.
LEMMA SameMenu ==
    /\ UNCHANGED <<loader, op, queue, def>> => NewMenu' = NewMenu
    /\ UNCHANGED <<loader, menu, cfg>> => BootMenu' = BootMenu
    /\ UNCHANGED <<loader, menu, exec>> => Lame' = Lame
BY DEF NewMenu, GrubMenu, SyslinuxMenu, Menu, Given, BootMenu, Lame

\* It is a list with a default, never taken for a missing or an empty menu.
LEMMA NewMenuText ==
    /\ NewMenu.st = "text" /\ NewMenu.list = (IF loader = "grub2" THEN queue \cup {Given} ELSE queue)
    /\ NewMenu # EmptyMenu
BY DEF NewMenu, GrubMenu, SyslinuxMenu, Menu, EmptyMenu

\* Every step leaves the menu whole or empty.
LEMMA MenuStep ==
    ASSUME FilesOK, PlanOK, PhaseInv, MenuInv, [Next]_vars PROVE MenuInv'
<1> USE SameMenu DEF MenuInv, PhaseInv, Installing
<1>1. CASE StartUpdate
  BY <1>1 DEF StartUpdate, plan, Fail, files
<1>2. CASE UpdateLoader
  BY <1>2 DEF UpdateLoader, plan, Fail, files
<1>3. CASE Repair
  BY <1>3 DEF Repair, plan, Fail, files
<1>4. ASSUME NEW k \in Kernels, InstallKernel(k) PROVE MenuInv'
  BY <1>4 DEF InstallKernel, plan, Fail, files
<1>5. CASE ChooseDefault
  BY <1>5 DEF ChooseDefault, plan, Fail, files
<1>6. CASE BeginDefault
  BY <1>6 DEF BeginDefault, plan, Fail, files
<1>7. CASE Compare
  BY <1>7, LoadersAssumption DEF Compare, plan, files, Fail, BootMenu, FilesOK
<1>8. CASE Create
  BY <1>8 DEF Create, plan, Fail
<1>9. CASE Write
  BY <1>9, LoadersAssumption DEF Write, plan, BootMenu, FilesOK
<1>10. CASE Chmod
  BY <1>10 DEF Chmod, plan, Fail, files
<1>11. CASE RunMkConfig
  BY <1>11 DEF RunMkConfig, plan, MkConfig, BootMenu, Fail
<1>12. CASE Symlink
  BY <1>12 DEF Symlink, plan, Fail, files
<1>13. CASE DefaultSet
  BY <1>13 DEF DefaultSet, plan, Fail, files
<1>14. ASSUME NEW k \in Kernels, Collect(k) PROVE MenuInv'
  BY <1>14 DEF Collect, plan, Fail, files
<1>15. CASE CollectDone
  BY <1>15 DEF CollectDone, plan, Fail, files
<1>16. ASSUME NEW k \in Kernels, StartSet(k) PROVE MenuInv'
  BY <1>16 DEF StartSet, plan, Fail, files
<1>17. ASSUME NEW k \in Kernels, RemoveKernel(k) PROVE MenuInv'
  BY <1>17 DEF RemoveKernel, plan, Fail, files
<1>18. CASE Exit
  BY <1>18 DEF Exit, plan, Fail, files
<1>19. CASE Package
  BY <1>19 DEF Package, plan, Fail, files
<1>20. CASE PowerLoss
  BY <1>20 DEF PowerLoss, plan, Fail, files
<1>21. CASE UNCHANGED vars
  BY <1>21 DEF vars, plan, files
<1> HIDE DEF MenuInv
<1> QED
  BY <1>1, <1>2, <1>3, <1>4, <1>5, <1>6, <1>7, <1>8, <1>9, <1>10, <1>11, <1>12, <1>13,
       <1>14, <1>15, <1>16, <1>17, <1>18, <1>19, <1>20, <1>21, Zenon
     DEF Next, Step

\* Every step of an undisturbed update works on what it found.
LEMMA QuietStep ==
    ASSUME FilesOK, PlanOK, FlagsOK, PhaseInv, ResultInv, InstallInv, QuietInv, [Next]_vars
    PROVE  QuietInv'
<1> USE NamesAssumption, LoadersAssumption DEF QuietInv, InstallInv, ResultInv, PhaseInv,
     FilesOK, PlanOK, Updating, Undisturbed, Ending, Installing, Setting, Queue
<1>1. CASE StartUpdate
  BY <1>1 DEF StartUpdate, Fail, Tips, InitQueue
<1>2. CASE UpdateLoader
  BY <1>2 DEF UpdateLoader, Fault, InitQueue
<1>3. CASE Repair
  <2>1. CASE run # None /\ Installs(run) /\ UNCHANGED quiet
    BY <1>3, <2>1 DEF Repair, Installs, Queued
  <2>2. CASE Fault
    BY <1>3, <2>2 DEF Repair, Fault
  <2>3. CASE run \notin src /\ UNCHANGED <<blob, queue, quiet>>
    BY <1>3, <2>3 DEF Repair
  <2> QED
    BY <1>3, <2>1, <2>2, <2>3 DEF Repair
<1>4. ASSUME NEW k \in Kernels, InstallKernel(k) PROVE QuietInv'
  <2>1. CASE Installs(k) /\ pc' = "install" /\ UNCHANGED <<ok, quiet>>
    <3>1. keep \ todo' = (keep \ todo) \cup {k} /\ queue' = queue \cup {k}
      BY <1>4, <2>1 DEF InstallKernel, Installs, Queued
    <3>2. blob' = blob \cup {k} /\ k \in snap /\ UNCHANGED <<loader, keep, run, snap, op, src, link, def>>
      BY <1>4, <2>1 DEF InstallKernel, Installs
    <3> QED
      BY <1>4, <2>1, <3>1, <3>2 DEF InstallKernel
  <2>2. CASE Fail
    BY <1>4, <2>2 DEF InstallKernel, Fail
  <2> QED
    BY <1>4, <2>1, <2>2 DEF InstallKernel
<1>5. CASE ChooseDefault
  BY <1>5 DEF ChooseDefault, plan, Fail, Fault, files
<1>6. CASE BeginDefault
  BY <1>6 DEF BeginDefault, plan, Fail, Fault, files
<1>7. CASE Compare
  BY <1>7 DEF Compare, plan, Fail, Fault, files
<1>8. CASE Create
  BY <1>8 DEF Create, plan, Fail, Fault, files
<1>9. CASE Write
  BY <1>9 DEF Write, plan, Fail, Fault, files
<1>10. CASE Chmod
  BY <1>10 DEF Chmod, plan, Fail, Fault, files
<1>11. CASE RunMkConfig
  BY <1>11 DEF RunMkConfig, plan, Fail, Fault, files
<1>12. CASE Symlink
  BY <1>12 DEF Symlink, plan, Fail, Fault, files
<1>13. CASE DefaultSet
  BY <1>13 DEF DefaultSet, plan, Fail, Fault, files
<1>14. ASSUME NEW k \in Kernels, Collect(k) PROVE QuietInv'
  BY <1>14 DEF Collect, plan, Fail, Fault, files
<1>15. CASE CollectDone
  BY <1>15 DEF CollectDone, plan, files, result
<1>16. ASSUME NEW k \in Kernels, StartSet(k) PROVE QuietInv'
  BY <1>16 DEF StartSet, plan, Fail, Fault, files
<1>17. ASSUME NEW k \in Kernels, RemoveKernel(k) PROVE QuietInv'
  BY <1>17 DEF RemoveKernel, plan, files, result
<1>18. CASE Exit
  BY <1>18 DEF Exit, plan, Fail, Fault, files
<1>19. CASE Package
  BY <1>19 DEF Package, plan, Fail, Fault, files
<1>20. CASE PowerLoss
  BY <1>20 DEF PowerLoss, plan, Fail, Fault, files
<1>21. CASE UNCHANGED vars
  BY <1>21 DEF vars, plan, files, result
<1> HIDE DEF QuietInv
<1> QED
  BY <1>1, <1>2, <1>3, <1>4, <1>5, <1>6, <1>7, <1>8, <1>9, <1>10, <1>11, <1>12, <1>13,
       <1>14, <1>15, <1>16, <1>17, <1>18, <1>19, <1>20, <1>21, Zenon
     DEF Next, Step

\* Every step of an undisturbed update that writes the menu writes it in full.
LEMMA QuietMenuStep ==
    ASSUME FilesOK, PlanOK, FlagsOK, PhaseInv, ResultInv, MenuInv, QuietMenuInv, [Next]_vars
    PROVE  QuietMenuInv'
<1> USE SameMenu DEF QuietMenuInv, MenuInv, PhaseInv, ResultInv, Undisturbed, Updating,
     Ending, Installing
<1>1. CASE StartUpdate
  BY <1>1 DEF StartUpdate, plan, Fail, Fault, files
<1>2. CASE UpdateLoader
  BY <1>2 DEF UpdateLoader, plan, Fail, Fault, files
<1>3. CASE Repair
  BY <1>3 DEF Repair, plan, Fail, Fault, files
<1>4. ASSUME NEW k \in Kernels, InstallKernel(k) PROVE QuietMenuInv'
  BY <1>4 DEF InstallKernel, plan, Fail, Fault, files
<1>5. CASE ChooseDefault
  BY <1>5 DEF ChooseDefault, plan, Fail, Fault, files
<1>6. CASE BeginDefault
  BY <1>6 DEF BeginDefault, plan, Fail, Fault, files
<1>7. CASE Compare
  BY <1>7, LoadersAssumption DEF Compare, plan, files, Fail, BootMenu, FilesOK
<1>8. CASE Create
  BY <1>8 DEF Create, plan, Fail, Fault, files
<1>9. CASE Write
  BY <1>9, LoadersAssumption DEF Write, plan, BootMenu, FilesOK, Fault
<1>10. CASE Chmod
  BY <1>10 DEF Chmod, plan, Fail, Fault, files
<1>11. CASE RunMkConfig
  BY <1>11, NewMenuText DEF RunMkConfig, plan, MkConfig, BootMenu, Fail, Lame
<1>12. CASE Symlink
  <2>1. pc = "symlink" /\ UNCHANGED <<loader, op, queue, def, menu, cfg, exec>>
    BY <1>12 DEF Symlink, plan
  <2>2. quiet' => quiet /\ pc' = "set" /\ vmlinuz' = Given
    BY <1>12, Zenon DEF Symlink, Fault
  <2> QED
    BY <2>1, <2>2 DEF Given
<1>13. CASE DefaultSet
  BY <1>13 DEF DefaultSet, plan, Fail, Fault, files
<1>14. ASSUME NEW k \in Kernels, Collect(k) PROVE QuietMenuInv'
  <2>1. pc = "gc" /\ UNCHANGED <<loader, op, queue, def, menu, cfg, exec, vmlinuz>>
    BY <1>14 DEF Collect
  <2>2. quiet' => quiet /\ pc' = "gc"
    BY <1>14, Zenon DEF Collect, Fault
  <2> QED
    BY <2>1, <2>2
<1>15. CASE CollectDone
  BY <1>15 DEF CollectDone, plan, files, result
<1>16. ASSUME NEW k \in Kernels, StartSet(k) PROVE QuietMenuInv'
  BY <1>16 DEF StartSet, plan, Fail, Fault, files
<1>17. ASSUME NEW k \in Kernels, RemoveKernel(k) PROVE QuietMenuInv'
  BY <1>17 DEF RemoveKernel, plan, result
<1>18. CASE Exit
  BY <1>18 DEF Exit, plan, Fail, Fault, files
<1>19. CASE Package
  BY <1>19 DEF Package, plan, Fail, Fault, files
<1>20. CASE PowerLoss
  BY <1>20 DEF PowerLoss, plan, Fail, Fault, files
<1>21. CASE UNCHANGED vars
  BY <1>21 DEF vars, plan, files, result
<1> HIDE DEF QuietMenuInv
<1> QED
  BY <1>1, <1>2, <1>3, <1>4, <1>5, <1>6, <1>7, <1>8, <1>9, <1>10, <1>11, <1>12, <1>13,
       <1>14, <1>15, <1>16, <1>17, <1>18, <1>19, <1>20, <1>21, Zenon
     DEF Next, Step

-----------------------------------------------------------------------------
(* The theorems.                                                           *)

\* The invariant holds on the machine as it is found.
LEMMA InvInit == Init => Inv
<1> SUFFICES ASSUME Init PROVE Inv
  OBVIOUS
<1> USE DEF Init
<1>1. FilesOK
  BY EmptyMenuType DEF FilesOK
<1>2. PlanOK
  BY BoundAssumption DEF PlanOK
<1>3. FlagsOK
  BY DEF FlagsOK
<1>4. PhaseInv /\ ResultInv /\ InstallInv /\ MenuInv /\ QuietInv /\ QuietMenuInv
  BY DEF PhaseInv, ResultInv, InstallInv, MenuInv, QuietInv, QuietMenuInv, Installing, Setting,
         Updating, Undisturbed
<1> QED
  BY <1>1, <1>2, <1>3, <1>4 DEF Inv

\* Every step keeps the invariant.
LEMMA InvStep == Inv /\ [Next]_vars => Inv'
BY FilesStep, PlanStep, FlagsStep, PhaseStep, ResultStep, InstallStep, MenuStep, QuietStep,
   QuietMenuStep DEF Inv

\* Whatever fails, arrives or is cut short: the kernels that update keeps are
\* installed and queued before the menu is written, the menu is the one to be
\* written or empty, and an undisturbed update works on what it found.
THEOREM MenuInvariant == Spec => []Inv
BY InvInit, InvStep, PTL DEF Spec

\* Every variable has its type, for every set of kernels.
THEOREM TypeCorrect == Spec => []TypeOK
<1>1. Inv => TypeOK
  BY DEF Inv, TypeOK
<1> QED
  BY <1>1, MenuInvariant, PTL

\* An update that succeeds, met no failure and had a default to set leaves a menu
\* with that default, installed, and with all the kernels kept (update.c:331-366).
THEOREM UpdateDeliversMenu == Spec => []UpdateDelivers
<1>1. Inv => UpdateDelivers
  <2> SUFFICES ASSUME Inv, pc = "done", op = "update", ok, quiet, def # None, ~Lame
               PROVE  /\ BootMenu.st = "text" /\ BootMenu.def = def /\ def \in blob
                      /\ keep \subseteq BootMenu.list
                      /\ loader = "grub2" =>
                            /\ BootMenu.list = keep \cup ({run} \ {None})
                            /\ BootMenu.list \subseteq blob /\ vmlinuz = def
                      /\ loader = "syslinux" =>
                            /\ sector = 3
                            /\ BootMenu.list \ blob \subseteq snap \ (keep \cup {run})
    BY Zenon DEF UpdateDelivers
  <2>1. Undisturbed /\ Ending /\ Updating
    BY DEF Undisturbed, Ending, Updating
  <2>2. def \in keep /\ keep \subseteq blob /\ (run # None => run \in blob) /\ queue = Queue(keep)
    BY <2>1 DEF Inv, QuietInv
  <2>3. BootMenu = NewMenu /\ (loader = "grub2" => vmlinuz = def)
    BY <2>1 DEF Inv, QuietMenuInv
  <2>4. Given = def /\ keep \subseteq snap
    BY DEF Given, Inv, PlanOK
  <2>5. NewMenu.st = "text" /\ NewMenu.list = (IF loader = "grub2" THEN queue \cup {def} ELSE queue)
    BY <2>4, NewMenuText
  <2>6. def \in queue
    BY <2>2, <2>4 DEF Queue
  <2>7. NewMenu.def = def
    BY <2>4, <2>6 DEF NewMenu, GrubMenu, SyslinuxMenu, Menu
  <2>8. CASE loader = "grub2"
    <3>1. NewMenu.list = keep \cup ({run} \ {None})
      BY <2>2, <2>5, <2>8 DEF Queue
    <3> QED
      BY <2>2, <2>3, <2>5, <2>7, <2>8, <3>1
  <2>9. CASE loader # "grub2"
    <3>1. NewMenu.list = snap
      BY <2>2, <2>5, <2>9 DEF Queue
    <3>2. loader = "syslinux" => sector = 3
      BY <2>1 DEF Inv, ResultInv
    <3>3. snap \ blob \subseteq snap \ (keep \cup {run})
      BY <2>2, NamesAssumption DEF Inv, PhaseInv
    <3> QED
      BY <2>2, <2>3, <2>4, <2>5, <2>7, <2>9, <3>1, <3>2, <3>3
  <2> QED
    BY <2>8, <2>9
<1> QED
  BY <1>1, MenuInvariant, PTL

\* The menu offers the kernels kept, if it offers any, once setting the default
\* has written it.
LEMMA KeptOffered ==
    ASSUME Inv, Updating, Setting \/ pc = "gc"
    PROVE  keep # {} /\ keep \subseteq NewMenu.list \cap blob
BY NewMenuText DEF Inv, InstallInv

\* The bootable menu of a machine stays bootable in every step of an update but
\* the ones excepted, whatever fails (update.c:331-366).
THEOREM MenuStaysBootable == Spec => MenuStays
<1> DEFINE Covered == /\ op = "update" /\ SomeBootable
                      /\ pc = "gc" => def # None
                      /\ ~(loader = "syslinux" /\ pc = "create")
                      /\ ~(pc = "mkconfig" /\ (Lame \/ menu.st = "empty"))
<1>1. Inv /\ [Next]_vars => (Covered => SomeBootable')
  <2> SUFFICES ASSUME Inv, [Next]_vars, Covered PROVE SomeBootable'
    OBVIOUS
  <2>1. pc # "idle" /\ loader \in {"grub2", "syslinux"}
    BY LoadersAssumption DEF Inv, PhaseInv, FilesOK
  <2>2. ASSUME UNCHANGED <<loader, menu, cfg>>, blob \subseteq blob' PROVE SomeBootable'
    BY <2>2, SameMenu DEF SomeBootable
  <2>3. SomeBootable'
    <3>1. CASE StartUpdate
      BY <3>1, <2>1 DEF StartUpdate
    <3>2. CASE UpdateLoader
      BY <3>2, <2>2 DEF UpdateLoader, files
    <3>3. CASE Repair
      BY <3>3, <2>2 DEF Repair, Installs
    <3>4. ASSUME NEW k \in Kernels, InstallKernel(k) PROVE SomeBootable'
      BY <3>4, <2>2 DEF InstallKernel, Installs
    <3>5. CASE ChooseDefault
      BY <3>5, <2>2 DEF ChooseDefault, files
    <3>6. CASE BeginDefault
      BY <3>6, <2>2 DEF BeginDefault, files
    <3>7. CASE Compare
      BY <3>7, <2>2 DEF Compare, files
    <3>8. CASE Create
      BY <3>8, <2>1 DEF Create, SomeBootable, BootMenu
    <3>9. CASE Write
      <4>1. CASE loader = "grub2"
        BY <3>9, <4>1 DEF Write, SomeBootable, BootMenu
      <4>2. CASE loader = "syslinux"
        <5>1. BootMenu.list = {}
          BY <3>9, <4>2 DEF Write, Inv, MenuInv, BootMenu, EmptyMenu
        <5> QED
          BY <5>1 DEF SomeBootable
      <4> QED
        BY <2>1, <4>1, <4>2
    <3>10. CASE Chmod
      BY <3>10, <2>2 DEF Chmod, files
    <3>11. CASE RunMkConfig
      <4>1. CASE UNCHANGED cfg
        BY <3>11, <2>2, <4>1 DEF RunMkConfig
      <4>2. CASE cfg' = MkConfig
        <5>1. loader = "grub2" /\ menu \in {NewMenu, EmptyMenu} /\ menu.st # "empty" /\ ~Lame
          BY <3>11 DEF RunMkConfig, Inv, MenuInv
        <5>2. menu = NewMenu /\ menu.st = "text" /\ exec
          BY <5>1, NewMenuText DEF EmptyMenu, Lame
        <5>3. BootMenu' = NewMenu /\ UNCHANGED blob
          BY <3>11, <4>2, <5>1, <5>2 DEF RunMkConfig, MkConfig, BootMenu
        <5>4. keep # {} /\ keep \subseteq NewMenu.list \cap blob
          BY <3>11, KeptOffered DEF RunMkConfig, Updating, Setting
        <5> QED
          BY <5>3, <5>4 DEF SomeBootable
      <4> QED
        BY <3>11, <4>1, <4>2 DEF RunMkConfig
    <3>12. CASE Symlink
      BY <3>12, <2>2 DEF Symlink, files
    <3>13. CASE DefaultSet
      BY <3>13, <2>2 DEF DefaultSet, files
    <3>14. ASSUME NEW k \in Kernels, Collect(k) PROVE SomeBootable'
      <4>1. BootMenu \in {NewMenu, EmptyMenu, Menu({}, None)} /\ BootMenu.list # {}
        BY <3>14 DEF Collect, Inv, MenuInv, SomeBootable
      <4>2. BootMenu = NewMenu
        BY <4>1 DEF EmptyMenu, Menu
      <4>3. keep # {} /\ keep \subseteq NewMenu.list \cap blob /\ k \notin keep
        BY <3>14, KeptOffered DEF Collect, Inv, InstallInv, Updating
      <4>4. BootMenu' = BootMenu /\ blob \ {k} \subseteq blob'
        BY <3>14, SameMenu DEF Collect
      <4> QED
        BY <4>2, <4>3, <4>4 DEF SomeBootable
    <3>15. CASE CollectDone
      BY <3>15, <2>2 DEF CollectDone, files
    <3>16. ASSUME NEW k \in Kernels, StartSet(k) PROVE SomeBootable'
      BY <3>16, <2>1 DEF StartSet
    <3>17. ASSUME NEW k \in Kernels, RemoveKernel(k) PROVE SomeBootable'
      BY <3>17, <2>1 DEF RemoveKernel
    <3>18. CASE Exit
      BY <3>18, <2>2 DEF Exit, files
    <3>19. CASE Package
      BY <3>19, <2>2 DEF Package, files
    <3>20. CASE PowerLoss
      BY <3>20, <2>2 DEF PowerLoss, files
    <3>21. CASE UNCHANGED vars
      BY <3>21, <2>2 DEF vars, files
    <3> QED
      BY <3>1, <3>2, <3>3, <3>4, <3>5, <3>6, <3>7, <3>8, <3>9, <3>10, <3>11, <3>12, <3>13,
           <3>14, <3>15, <3>16, <3>17, <3>18, <3>19, <3>20, <3>21, Zenon
         DEF Next, Step
  <2> QED
    BY <2>3
<1> QED
  BY <1>1, MenuInvariant, PTL DEF Spec, MenuStays

\* The collection never removes what the machine boots by default, if that is one
\* of the kernels kept (update.c:322-329).
THEOREM DefaultNotCollected == Spec => CollectsNoDefault
<1> DEFINE Spared == \A k \in Kernels :
                        op = "update" /\ pc = "gc" /\ def \in keep /\ k \in blob \ blob'
                        => k # BootMenu.def
<1>1. Inv /\ [Next]_vars => Spared
  <2> SUFFICES ASSUME Inv, [Next]_vars, NEW x \in Kernels, op = "update", pc = "gc",
                      def \in keep, x \in blob \ blob'
               PROVE  x # BootMenu.def
    OBVIOUS
  <2>1. keep \subseteq queue /\ todo \cap keep = {} /\ keep \subseteq Kernels
    BY DEF Inv, InstallInv, PhaseInv, PlanOK, Updating
  <2>2. def \in Kernels /\ def # None /\ x # None
    BY <2>1, NamesAssumption
  <2>3. BootMenu.def \in {def, None}
    <3>1. BootMenu \in {NewMenu, EmptyMenu, Menu({}, None)}
      BY <2>2 DEF Inv, MenuInv
    <3>2. NewMenu.def \in {def, None}
      BY DEF NewMenu, GrubMenu, SyslinuxMenu, Menu, Given
    <3> QED
      BY <3>1, <3>2 DEF EmptyMenu, Menu
  <2>4. x \in todo
    <3>1. CASE StartUpdate
      BY <3>1 DEF StartUpdate, files
    <3>2. CASE UpdateLoader
      BY <3>2 DEF UpdateLoader, files
    <3>3. CASE Repair
      BY <3>3 DEF Repair, files
    <3>4. ASSUME NEW k \in Kernels, InstallKernel(k) PROVE x \in todo
      BY <3>4 DEF InstallKernel, files
    <3>5. CASE ChooseDefault
      BY <3>5 DEF ChooseDefault, files
    <3>6. CASE BeginDefault
      BY <3>6 DEF BeginDefault, files
    <3>7. CASE Compare
      BY <3>7 DEF Compare, files
    <3>8. CASE Create
      BY <3>8 DEF Create, files
    <3>9. CASE Write
      BY <3>9 DEF Write, files
    <3>10. CASE Chmod
      BY <3>10 DEF Chmod, files
    <3>11. CASE RunMkConfig
      BY <3>11 DEF RunMkConfig, files
    <3>12. CASE Symlink
      BY <3>12 DEF Symlink, files
    <3>13. CASE DefaultSet
      BY <3>13 DEF DefaultSet, files
    <3>14. ASSUME NEW k \in Kernels, Collect(k) PROVE x \in todo
      BY <3>14 DEF Collect, files
    <3>15. CASE CollectDone
      BY <3>15 DEF CollectDone, files
    <3>16. ASSUME NEW k \in Kernels, StartSet(k) PROVE x \in todo
      BY <3>16 DEF StartSet, files
    <3>17. ASSUME NEW k \in Kernels, RemoveKernel(k) PROVE x \in todo
      BY <3>17 DEF RemoveKernel, files
    <3>18. CASE Exit
      BY <3>18 DEF Exit, files
    <3>19. CASE Package
      BY <3>19 DEF Package, files
    <3>20. CASE PowerLoss
      BY <3>20 DEF PowerLoss, files
    <3>21. CASE UNCHANGED vars
      BY <3>21 DEF vars, files
    <3> QED
      BY <3>1, <3>2, <3>3, <3>4, <3>5, <3>6, <3>7, <3>8, <3>9, <3>10, <3>11, <3>12, <3>13,
           <3>14, <3>15, <3>16, <3>17, <3>18, <3>19, <3>20, <3>21, Zenon
         DEF Next, Step
  <2> QED
    BY <2>1, <2>2, <2>3, <2>4
<1> QED
  BY <1>1, MenuInvariant, PTL DEF Spec, CollectsNoDefault
=============================================================================
