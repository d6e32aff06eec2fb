-------------------------- MODULE ShimSystemdProofs --------------------------
(***************************************************************************)
(* Proofs about ShimSystemd, for every mode, every set of failing calls,   *)
(* every number of boot records and any amount of interference.            *)
(***************************************************************************)
EXTENDS ShimSystemd, TLAPS

-----------------------------------------------------------------------------
(* The inductive invariant.                                                *)

\* Our record is in NVRAM.
Recorded == \E n \in 0..MaxNo : nvram[n] = "ours"

Types ==
    /\ nvram \in [0..MaxNo -> {"none", "other", "ours"}]
    /\ DOMAIN esp = Files /\ recs \subseteq 0..MaxNo
    /\ status \in {"none", "ok", "error"} /\ has \in BOOLEAN /\ clean \in BOOLEAN
    /\ pc \in {"off", "check", "decide", "reinit", "layout", "copy", "rename", "record",
               "reread", "push", "logged", "done"}

\* The number of copies.
Last == Len(Copies)

\* The files copied so far are in place; the one that is being renamed is not,
\* and it may be one that was copied before.
CopyInv ==
    /\ pc \in {"copy", "rename"} => next \in 1..Last
    /\ pc = "copy" => \A i \in 1..(next - 1) : esp[Copies[i][1]] = Copies[i][2]
    /\ pc = "rename" =>
          \A i \in 1..(next - 1) :
             Copies[i][1] # Copies[next][1] => esp[Copies[i][1]] = Copies[i][2]
    /\ pc \in {"record", "reread", "push", "logged"} => Current
    /\ pc = "done" /\ ret => Current

\* bootvar_create works on a record that is ours, and its result is that of this
\* process.
RecordInv ==
    /\ pc \in {"reread", "push"} => rec \in 0..MaxNo /\ nvram[rec] = "ours"
    /\ status # "none" => pc \in {"logged", "done"}
    /\ status = "ok" => \E n \in 0..MaxNo : nvram[n] = "ours" /\ order # <<>> /\ order[1] = n
    /\ pc = "logged" => status # "none"
    /\ has /\ ~ImageMode => Recorded
    /\ has => pc # "off"
    /\ pc = "done" /\ ret /\ mode = "native" => has \/ status # "none"

\* After a clean update of an installed system the next one finds nothing to do.
CleanInv ==
    clean /\ mode = "native" =>
        Current /\ Recorded /\ pc \in {"off", "check", "decide", "done"} /\ (pc = "decide" => has)

Inv == Types /\ CopyInv /\ RecordInv /\ CleanInv
-----------------------------------------------------------------------------
(* The copies.                                                             *)

\* The files of the loader.
LEMMA FileNames ==
    /\ Files = {"fallback", "fb", "shim", "mm", "systemd", "mok", "csv"}
    /\ Source["fallback"] = "shim" /\ Source["fb"] = "fb" /\ Source["shim"] = "shim"
    /\ Source["mm"] = "mm" /\ Source["systemd"] = "systemd" /\ Source["mok"] = "mok"
    /\ Source["csv"] = "csv"
BY DEF Files, Source

\* The copies one by one.
LEMMA CopyList ==
    /\ Len(Copies) = IF ImageMode THEN 8 ELSE 7
    /\ Copies[1] = <<"fallback", "shim">> /\ Copies[2] = <<"fb", "fb">>
    /\ Copies[3] = <<"shim", "shim">> /\ Copies[4] = <<"mm", "mm">>
    /\ Copies[5] = <<"systemd", "systemd">> /\ Copies[6] = <<"mok", "mok">>
    /\ Copies[7] = <<"csv", "csv">>
    /\ ImageMode => Copies[8] = <<"fallback", "systemd">>
<1>1. CASE ImageMode
  BY <1>1 DEF Copies, Source
<1>2. CASE ~ImageMode
  BY <1>2 DEF Copies, Source
<1> QED
  BY <1>1, <1>2

\* Every file is copied; only the last copy of an image goes over an earlier one.
LEMMA CopyFacts ==
    /\ Last \in Nat /\ Last >= 7
    /\ \A i \in 1..Last : Copies[i][1] \in Files
    /\ \A i, j \in 1..Last : i < j /\ j < Last => Copies[i][1] # Copies[j][1]
    /\ \A f \in Files : \E i \in 1..Last : Copies[i][1] = f
    /\ \A i \in 1..Last :
          \/ Copies[i][2] = Source[Copies[i][1]]
          \/ ImageMode /\ i = 8 /\ Copies[i][1] = "fallback" /\ Copies[i][2] = "systemd"
<1>1. Last \in {7, 8} /\ (Last = 8 => ImageMode)
  BY CopyList DEF Last
<1>2. \A i \in 1..Last : i \in {1, 2, 3, 4, 5, 6, 7} \/ (i = 8 /\ ImageMode)
  BY <1>1
<1>3. \A i \in 1..Last : Copies[i][1] \in Files
  BY <1>2, CopyList, FileNames
<1>4. \A i, j \in 1..Last : i < j /\ j < Last => Copies[i][1] # Copies[j][1]
  <2> SUFFICES ASSUME NEW i \in {1, 2, 3, 4, 5, 6, 7}, NEW j \in {1, 2, 3, 4, 5, 6, 7}, i # j
               PROVE  Copies[i][1] # Copies[j][1]
    BY <1>1
  <2> QED
    BY CopyList
<1>5. \A f \in Files : \E i \in 1..Last : Copies[i][1] = f
  <2>1. \A f \in Files : \E i \in {1, 2, 3, 4, 5, 6, 7} : Copies[i][1] = f
    BY CopyList, FileNames
  <2> QED
    BY <1>1, <2>1
<1>6. \A i \in 1..Last :
          \/ Copies[i][2] = Source[Copies[i][1]]
          \/ ImageMode /\ i = 8 /\ Copies[i][1] = "fallback" /\ Copies[i][2] = "systemd"
  BY <1>2, CopyList, FileNames
<1> QED
  BY <1>1, <1>3, <1>4, <1>5, <1>6
-----------------------------------------------------------------------------
(* The steps.                                                              *)

\* The mode is chosen when clr-boot-manager is started, and with it the copies.
LEMMA SameMode ==
    ASSUME [Next]_vars
    PROVE  UNCHANGED mode /\ ImageMode' = ImageMode /\ Copies' = Copies /\ Last' = Last
<1>1. UNCHANGED mode
  <2>1. CASE Start
    BY <2>1 DEF Start, loader, Steady, Fault, Idle
  <2>2. CASE LookUp
    BY <2>2 DEF LookUp, loader, Steady, Fault, Idle
  <2>3. CASE Decide
    BY <2>3 DEF Decide, loader, Steady, Fault, Idle
  <2>4. CASE Reinit
    BY <2>4 DEF Reinit, loader, Steady, Fault, Idle
  <2>5. CASE MakeLayout
    BY <2>5 DEF MakeLayout, loader, Steady, Fault, Idle
  <2>6. CASE CopyFile
    BY <2>6 DEF CopyFile, loader, Steady, Fault, Idle
  <2>7. CASE RenameFile
    BY <2>7 DEF RenameFile, loader, Steady, Fault, Idle
  <2>8. CASE Record
    BY <2>8 DEF Record, loader, Steady, Fault, Idle
  <2>9. CASE RecordContinue
    BY <2>9 DEF RecordContinue, loader, Steady, Fault, Idle
  <2>10. CASE Exit
    BY <2>10 DEF Exit, loader, Steady, Fault, Idle
  <2>11. CASE NvWorld
    BY <2>11 DEF NvWorld, loader, Steady, Fault, Idle
  <2>12. ASSUME NEW s \in Sources, PkgUpdate(s) PROVE UNCHANGED mode
    BY <2>12 DEF PkgUpdate, loader, Steady, Fault, Idle
  <2>13. ASSUME NEW f \in Files, Damage(f) PROVE UNCHANGED mode
    BY <2>13 DEF Damage, loader, Steady, Fault, Idle
  <2>14. CASE UNCHANGED vars
    BY <2>14 DEF vars, loader
  <2> QED
    BY <2>1, <2>2, <2>3, <2>4, <2>5, <2>6, <2>7, <2>8, <2>9, <2>10, <2>11, <2>12, <2>13,
         <2>14, Zenon DEF Next, Process, World
<1> QED
  BY <1>1 DEF ImageMode, Copies, Last

\* Files that are not touched stay current.
LEMMA SameFiles == ASSUME UNCHANGED <<mode, esp>> PROVE Current' = Current
BY DEF Current, ImageMode

\* A record that was there stays in every step of a process.
LEMMA SameRecord == ASSUME UNCHANGED nvram PROVE Recorded' = Recorded
BY DEF Recorded

\* Every step keeps the types.
LEMMA TypesStep == ASSUME Types, [Next]_vars PROVE Types'
<1> USE DEF Types
<1>1. CASE Start
  BY <1>1 DEF Start, loader, noNvram, NV!BootvarInit, NV!ReadBootRecs, NV!nv, NV!lib,
       NV!Present, NV!Numbers
<1>2. CASE LookUp
  <2>1. has' \in BOOLEAN /\ clean' \in BOOLEAN
    BY <1>2, Zenon DEF LookUp, NV!HasBootRec
  <2>2. UNCHANGED <<nvram, esp, status, recs>> /\ pc' = "decide"
    BY <1>2 DEF LookUp, noNvram, NV!HasBootRec, NV!nv, NV!lib
  <2> QED
    BY <2>1, <2>2
<1>3. CASE Decide
  BY <1>3 DEF Decide, Steady, Return, noNvram, loader, Fault
<1>4. CASE Reinit
  BY <1>4 DEF Reinit, loader, noNvram, NV!BootvarInit, NV!ReadBootRecs, NV!nv, NV!lib,
       NV!Present, NV!Numbers
<1>5. CASE MakeLayout
  BY <1>5 DEF MakeLayout, Steady, Return, noNvram, loader, Fault
<1>6. CASE CopyFile
  BY <1>6 DEF CopyFile, Steady, CopyFailed, Return, noNvram, Fault
<1>7. CASE RenameFile
  BY <1>7 DEF RenameFile, Steady, CopyFailed, Return, noNvram, Fault
<1>8. CASE Record
  BY <1>8 DEF Record, Steady, Return, noNvram, NV!AddBootRec, NV!CreateFails, NV!Numbers,
       NV!lib
<1>9. CASE RecordContinue
  BY <1>9 DEF RecordContinue, Steady, Return, noNvram, NV!RereadBootRecs,
       NV!PushToBootOrder, NV!CreateFails, NV!nv, NV!lib, NV!ReadBootRecs, NV!Present,
       NV!Numbers
<1>10. CASE Exit
  <2>1. clean' \in BOOLEAN
    BY <1>10, Zenon DEF Exit
  <2> QED
    BY <1>10, <2>1 DEF Exit, NV!ProcessGone
<1>11. CASE NvWorld
  BY <1>11 DEF NvWorld, NV!World, NV!Interrupt, NV!AddOther, NV!DropRecord, NV!ProcessGone,
       NV!nv, NV!lib, NV!Numbers
<1>12. ASSUME NEW s \in Sources, PkgUpdate(s) PROVE Types'
  BY <1>12 DEF PkgUpdate, Steady, Return, noNvram, loader, Fault
<1>13. ASSUME NEW f \in Files, Damage(f) PROVE Types'
  BY <1>13 DEF Damage, Steady, Return, noNvram, loader, Fault
<1>14. CASE UNCHANGED vars
  BY <1>14 DEF vars, loader
<1> QED
  BY <1>1, <1>2, <1>3, <1>4, <1>5, <1>6, <1>7, <1>8, <1>9, <1>10, <1>11, <1>12, <1>13,
       <1>14, Zenon DEF Next, Process, World

\* Every step keeps what was copied in place.
LEMMA CopyStep == ASSUME Types, CopyInv, [Next]_vars PROVE CopyInv'
<1> USE SameMode, SameFiles DEF CopyInv
<1>1. CASE Start
  BY <1>1 DEF Start, loader, NV!BootvarInit
<1>2. CASE LookUp
  BY <1>2 DEF LookUp, NV!HasBootRec
<1>3. CASE Decide
  <2>1. CASE pc' = "reinit"
    BY <2>1
  <2>2. CASE ~NeedsUpdate /\ UNCHANGED esp /\ pc' = "done"
    <3>1. Current
      BY <2>2 DEF NeedsUpdate, Current
    <3> QED
      BY <2>2, <3>1
  <2> QED
    BY <1>3, <2>1, <2>2 DEF Decide, Return
<1>4. CASE Reinit
  BY <1>4 DEF Reinit, loader, NV!BootvarInit
<1>5. CASE MakeLayout
  <2>1. CASE pc' = "copy" /\ next' = 1
    BY <2>1, CopyFacts
  <2>2. CASE Return(FALSE)
    BY <2>2 DEF Return
  <2> QED
    BY <1>5, <2>1, <2>2 DEF MakeLayout
<1>6. CASE CopyFile
  <2>1. CASE Return(FALSE)
    BY <2>1 DEF Return
  <2>2. CASE /\ pc' = "rename" /\ UNCHANGED next
             /\ esp' = [esp EXCEPT ![Copies[next][1]] = "absent"]
    <3>1. pc = "copy" /\ next \in 1..Last /\ \A i \in 1..(next - 1) : i \in 1..Last
      BY <1>6, CopyFacts DEF CopyFile
    <3>2. \A i \in 1..(next - 1) :
             Copies[i][1] # Copies[next][1] => esp'[Copies[i][1]] = Copies[i][2]
      BY <2>2, <3>1, CopyFacts DEF Types
    <3> QED
      BY <2>2, <3>1, <3>2
  <2> QED
    BY <1>6, <2>1, <2>2 DEF CopyFile, CopyFailed
<1>7. CASE RenameFile
  <2>1. CASE Return(FALSE)
    BY <2>1 DEF Return
  <2>2. CASE esp' = [esp EXCEPT ![Copies[next][1]] = Copies[next][2]]
    <3>1. pc = "rename" /\ next \in 1..Last /\ Last \in Nat
      BY <1>7, CopyFacts DEF RenameFile
    <3>2. Copies[next][1] \in Files /\ esp'[Copies[next][1]] = Copies[next][2]
      BY <2>2, <3>1, CopyFacts DEF Types
    <3>3. ASSUME NEW i \in 1..(next - 1), Copies[i][1] # Copies[next][1]
          PROVE  esp'[Copies[i][1]] = Copies[i][2]
      <4>1. i \in 1..Last
        BY <3>1
      <4> QED
        BY <2>2, <3>1, <3>3, <4>1, CopyFacts DEF Types
    <3>4. CASE next < Last /\ pc' = "copy" /\ next' = next + 1
      <4>1. ASSUME NEW i \in 1..(next' - 1) PROVE esp'[Copies[i][1]] = Copies[i][2]
        <5>1. CASE i = next
          BY <3>2, <5>1
        <5>2. CASE i # next
          <6>1. i \in 1..(next - 1) /\ i < next /\ i \in 1..Last
            BY <3>1, <3>4, <5>2
          <6>2. Copies[i][1] # Copies[next][1]
            BY <3>1, <3>4, <6>1, CopyFacts
          <6> QED
            BY <3>3, <6>1, <6>2
        <5> QED
          BY <5>1, <5>2
      <4>2. next' \in 1..Last
        BY <3>1, <3>4
      <4> QED
        BY <3>4, <4>1, <4>2
    <3>5. CASE ~(next < Last) /\ pc' = "record"
      <4>1. next = Last
        BY <3>1, <3>5
      <4>2. ASSUME NEW f \in Files
            PROVE  esp'[f] = Source[f] \/ (ImageMode /\ f = "fallback" /\ esp'[f] = "systemd")
        <5>1. PICK i \in 1..Last : Copies[i][1] = f
          BY <4>2, CopyFacts
        <5>2. CASE f = Copies[next][1]
          BY <3>1, <3>2, <5>2, CopyFacts
        <5>3. CASE f # Copies[next][1]
          <6>1. i \in 1..(next - 1)
            BY <3>1, <4>1, <5>1, <5>3
          <6>2. esp'[f] = Copies[i][2]
            BY <3>3, <5>1, <5>3, <6>1
          <6> QED
            BY <5>1, <6>2, CopyFacts
        <5> QED
          BY <5>2, <5>3
      <4>3. Current'
        BY <4>2 DEF Current
      <4> QED
        BY <3>5, <4>3
    <3> QED
      BY <1>7, <2>2, <3>1, <3>4, <3>5 DEF RenameFile, CopyFailed, Return, Last
  <2> QED
    BY <1>7, <2>1, <2>2 DEF RenameFile, CopyFailed
<1>8. CASE Record
  BY <1>8 DEF Record, Steady, Return, NV!AddBootRec, NV!CreateFails
<1>9. CASE RecordContinue
  BY <1>9 DEF RecordContinue, Steady, Return, NV!RereadBootRecs, NV!PushToBootOrder,
       NV!CreateFails
<1>10. CASE Exit
  BY <1>10 DEF Exit, NV!ProcessGone
<1>11. CASE NvWorld
  BY <1>11 DEF NvWorld, NV!World, NV!Interrupt, NV!AddOther, NV!DropRecord, NV!ProcessGone
<1>12. ASSUME NEW s \in Sources, PkgUpdate(s) PROVE CopyInv'
  BY <1>12 DEF PkgUpdate
<1>13. ASSUME NEW f \in Files, Damage(f) PROVE CopyInv'
  BY <1>13 DEF Damage
<1>14. CASE UNCHANGED vars
  BY <1>14 DEF vars, loader
<1> HIDE DEF CopyInv
<1> QED
  BY <1>1, <1>2, <1>3, <1>4, <1>5, <1>6, <1>7, <1>8, <1>9, <1>10, <1>11, <1>12, <1>13,
       <1>14, Zenon DEF Next, Process, World

\* Every step keeps what is known about our boot record.
LEMMA RecordStep == ASSUME Types, RecordInv, CopyInv, [Next]_vars PROVE RecordInv'
<1> USE SameMode DEF RecordInv, Types
<1>1. CASE Start
  <2>1. UNCHANGED <<nvram, order, status, has, rec>>
    BY <1>1 DEF Start, noNvram, loader, NV!BootvarInit, NV!nv
  <2>2. Recorded' = Recorded
    BY <2>1, SameRecord
  <2> QED
    BY <1>1, <2>1, <2>2 DEF Start, loader, NV!BootvarInit, NV!nv
<1>2. CASE LookUp
  <2>1. UNCHANGED <<nvram, order, status, rec>> /\ pc = "check" /\ pc' = "decide"
    BY <1>2 DEF LookUp, noNvram, NV!HasBootRec, NV!nv
  <2>2. has' /\ ~ImageMode => Recorded
    BY <1>2, Zenon DEF LookUp, NV!HasBootRec, NV!FindBootRec, NV!Matching, NV!Numbers,
         NV!NoNumber, Recorded
  <2>3. Recorded' = Recorded
    BY <2>1, SameRecord
  <2> QED
    BY <2>1, <2>2, <2>3
<1>3. CASE Decide
  <2>1. UNCHANGED <<nvram, order, status, has, rec>>
    BY <1>3 DEF Decide, noNvram
  <2>2. Recorded' = Recorded
    BY <2>1, SameRecord
  <2> QED
    BY <1>3, <2>1, <2>2 DEF Decide, Return, NeedsUpdate
<1>4. CASE Reinit
  <2>1. UNCHANGED <<nvram, order, status, has, rec>>
    BY <1>4 DEF Reinit, noNvram, loader, NV!BootvarInit, NV!nv
  <2>2. Recorded' = Recorded
    BY <2>1, SameRecord
  <2> QED
    BY <1>4, <2>1, <2>2 DEF Reinit, loader, NV!BootvarInit, NV!nv
<1>5. CASE MakeLayout
  <2>1. UNCHANGED <<nvram, order, status, has, rec>>
    BY <1>5 DEF MakeLayout, noNvram, Steady, Return, Fault
  <2>2. Recorded' = Recorded
    BY <2>1, SameRecord
  <2> QED
    BY <1>5, <2>1, <2>2 DEF MakeLayout, Steady, Return, Fault
<1>6. CASE CopyFile
  <2>1. UNCHANGED <<nvram, order, status, has, rec>>
    BY <1>6 DEF CopyFile, noNvram, Steady, Return, Fault, CopyFailed
  <2>2. Recorded' = Recorded
    BY <2>1, SameRecord
  <2> QED
    BY <1>6, <2>1, <2>2 DEF CopyFile, Steady, Return, Fault, CopyFailed
<1>7. CASE RenameFile
  <2>1. UNCHANGED <<nvram, order, status, has, rec>>
    BY <1>7 DEF RenameFile, noNvram, Steady, Return, Fault, CopyFailed
  <2>2. Recorded' = Recorded
    BY <2>1, SameRecord
  <2> QED
    BY <1>7, <2>1, <2>2 DEF RenameFile, Steady, Return, Fault, CopyFailed
<1>8. CASE Record
  <2>1. CASE Return(TRUE) /\ noNvram /\ UNCHANGED has /\ (has \/ mode # "native")
    BY <1>8, <2>1, SameRecord DEF Record, Return, noNvram
  <2>2. CASE NV!AddBootRec("logged")
    <3>1. UNCHANGED <<order, has>> /\ pc = "record" /\ status = "none"
      BY <1>8, <2>2 DEF Record, NV!AddBootRec
    <3>2. ASSUME NEW n \in 0..MaxNo, nvram[n] = "ours", pc' = "push", rec' = n,
                 UNCHANGED <<nvram, status>>
          PROVE  RecordInv'
      BY <3>1, <3>2, SameRecord
    <3>3. ASSUME NEW n \in 0..MaxNo, pc' = "reread", rec' = n,
                 nvram' = [nvram EXCEPT ![n] = "ours"], UNCHANGED status
          PROVE  RecordInv'
      <4>1. nvram'[n] = "ours"
        BY <3>3
      <4>2. Recorded'
        BY <4>1 DEF Recorded
      <4> QED
        BY <3>1, <3>3, <4>1, <4>2
    <3>4. CASE NV!CreateFails("logged") /\ UNCHANGED nvram
      BY <3>1, <3>4, SameRecord DEF NV!CreateFails
    <3>5. \/ \E n \in 0..MaxNo : /\ nvram[n] = "ours" /\ pc' = "push" /\ rec' = n
                                 /\ UNCHANGED <<nvram, status>>
          \/ \E n \in 0..MaxNo : /\ pc' = "reread" /\ rec' = n /\ UNCHANGED status
                                 /\ nvram' = [nvram EXCEPT ![n] = "ours"]
          \/ NV!CreateFails("logged") /\ UNCHANGED nvram
      <4>1. \A n \in NV!Matching : n \in 0..MaxNo /\ nvram[n] = "ours"
        BY DEF NV!Matching
      <4>2. \/ \E n \in NV!Matching : pc' = "push" /\ rec' = n /\ UNCHANGED <<nvram, status>>
            \/ \E n \in 0..MaxNo : /\ pc' = "reread" /\ rec' = n /\ UNCHANGED status
                                   /\ nvram' = [nvram EXCEPT ![n] = "ours"]
            \/ NV!CreateFails("logged") /\ UNCHANGED nvram
        BY <2>2, Zenon DEF NV!AddBootRec, NV!Numbers
      <4> QED
        BY <4>1, <4>2, Zenon
    <3> QED
      BY <3>2, <3>3, <3>4, <3>5
  <2> QED
    BY <1>8, <2>1, <2>2 DEF Record, UpdateEfiVars, ImageMode
<1>9. CASE RecordContinue
  <2>1. UNCHANGED <<nvram, has>>
    BY <1>9 DEF RecordContinue, noNvram, NV!RereadBootRecs, NV!PushToBootOrder, NV!nv
  <2>2. Recorded' = Recorded
    BY <2>1, SameRecord
  <2>3. CASE pc = "reread" /\ NV!RereadBootRecs("logged")
    BY <2>1, <2>2, <2>3 DEF NV!RereadBootRecs, NV!CreateFails, NV!nv
  <2>4. CASE pc = "push" /\ NV!PushToBootOrder("logged")
    <3>1. CASE NV!CreateFails("logged")
      BY <2>1, <2>2, <2>4, <3>1 DEF NV!CreateFails
    <3>2. CASE /\ order' = <<rec>> \o NV!Filter(order, NV!Numbers \ {rec})
               /\ pc' = "logged" /\ status' = "ok"
      <4>1. order' # <<>> /\ order'[1] = rec
        BY <3>2
      <4> QED
        BY <2>1, <2>2, <2>4, <3>2, <4>1
    <3> QED
      BY <2>4, <3>1, <3>2 DEF NV!PushToBootOrder
  <2>5. CASE pc = "logged" /\ Return(TRUE) /\ noNvram
    BY <2>1, <2>2, <2>5 DEF Return, noNvram
  <2> QED
    BY <1>9, <2>3, <2>4, <2>5 DEF RecordContinue
<1>10. CASE Exit
  BY <1>10 DEF Exit, NV!ProcessGone
<1>11. CASE NvWorld
  <2>1. CASE NV!Interrupt
    BY <1>11, <2>1 DEF NvWorld, NV!Interrupt, NV!ProcessGone
  <2>2. CASE NV!Interrupt \/ (pc = "off" /\ pc' = "off" /\ UNCHANGED <<status, has>>)
    BY <1>11, <2>1, <2>2 DEF NvWorld
  <2> QED
    BY <1>11, <2>2 DEF NvWorld, NV!World, NV!AddOther, NV!DropRecord
<1>12. ASSUME NEW s \in Sources, PkgUpdate(s) PROVE RecordInv'
  <2>1. UNCHANGED <<nvram, order, status, has, rec>>
    BY <1>12 DEF PkgUpdate, noNvram, Recorded
  <2>2. Recorded' = Recorded
    BY <2>1, SameRecord
  <2> QED
    BY <1>12, <2>1, <2>2 DEF PkgUpdate, Recorded
<1>13. ASSUME NEW f \in Files, Damage(f) PROVE RecordInv'
  <2>1. UNCHANGED <<nvram, order, status, has, rec>>
    BY <1>13 DEF Damage, noNvram, Recorded
  <2>2. Recorded' = Recorded
    BY <2>1, SameRecord
  <2> QED
    BY <1>13, <2>1, <2>2 DEF Damage, Recorded
<1>14. CASE UNCHANGED vars
  BY <1>14, SameRecord DEF vars, loader
<1> HIDE DEF RecordInv
<1> QED
  BY <1>1, <1>2, <1>3, <1>4, <1>5, <1>6, <1>7, <1>8, <1>9, <1>10, <1>11, <1>12, <1>13,
       <1>14, Zenon DEF Next, Process, World

\* After a clean update nothing needs to be done.
LEMMA NothingToDo ==
    ASSUME Current, mode = "native", has PROVE ~NeedsUpdate /\ ~NeedsInstall
BY FileNames DEF Current, ImageMode, NeedsUpdate, NeedsInstall

\* Every step keeps what an undisturbed update has brought about.
LEMMA CleanStep ==
    ASSUME Types, CopyInv, RecordInv, CleanInv, [Next]_vars PROVE CleanInv'
<1> USE SameMode, SameFiles, SameRecord DEF CleanInv
<1>1. CASE Start
  BY <1>1 DEF Start, loader, NV!BootvarInit, NV!nv, noNvram
<1>2. CASE LookUp
  <2> SUFFICES ASSUME clean', mode = "native" PROVE CleanInv'
    OBVIOUS
  <2>1. UNCHANGED <<nvram, esp>> /\ pc' = "decide"
    BY <1>2 DEF LookUp, noNvram, NV!HasBootRec, NV!nv
  <2>2. clean /\ (has' \/ \A n \in 0..MaxNo : nvram[n] # "ours")
    BY <1>2, Zenon DEF LookUp, ImageMode
  <2>3. has'
    BY <2>2 DEF Recorded
  <2> QED
    BY <2>1, <2>2, <2>3
<1>3. CASE Decide
  <2> SUFFICES ASSUME clean', mode = "native" PROVE CleanInv'
    OBVIOUS
  <2>1. UNCHANGED <<nvram, esp, clean>> /\ pc = "decide"
    BY <1>3 DEF Decide, noNvram, Steady
  <2>2. pc' = "done"
    BY <1>3, <2>1, NothingToDo DEF Decide, Return
  <2> QED
    BY <2>1, <2>2
<1>4. CASE Reinit
  <2>1. ~(clean /\ mode = "native") /\ (clean' => clean)
    BY <1>4 DEF Reinit, loader, Steady, Fault
  <2> QED
    BY <2>1
<1>5. CASE MakeLayout
  <2>1. ~(clean /\ mode = "native")
    BY <1>5 DEF MakeLayout
  <2>2. clean' => clean
    BY <1>5, Zenon DEF MakeLayout, Steady, Fault
  <2> QED
    BY <2>1, <2>2
<1>6. CASE CopyFile
  <2>1. ~(clean /\ mode = "native") /\ (clean' => clean)
    BY <1>6 DEF CopyFile, loader, Steady, Fault
  <2> QED
    BY <2>1
<1>7. CASE RenameFile
  <2>1. ~(clean /\ mode = "native") /\ (clean' => clean)
    BY <1>7 DEF RenameFile, loader, Steady, Fault
  <2> QED
    BY <2>1
<1>8. CASE Record
  <2>1. ~(clean /\ mode = "native") /\ (clean' => clean)
    BY <1>8 DEF Record, loader, Steady, Fault
  <2> QED
    BY <2>1
<1>9. CASE RecordContinue
  <2>1. ~(clean /\ mode = "native") /\ (clean' => clean)
    BY <1>9 DEF RecordContinue, loader, Steady, Fault
  <2> QED
    BY <2>1
<1>10. CASE Exit
  <2> SUFFICES ASSUME clean', mode = "native" PROVE CleanInv'
    OBVIOUS
  <2>1. UNCHANGED <<nvram, esp>> /\ pc = "done" /\ pc' = "off"
    BY <1>10 DEF Exit, NV!ProcessGone
  <2>2. ret /\ (has \/ status # "error")
    BY <1>10, Zenon DEF Exit
  <2>3. Current
    BY <2>1, <2>2 DEF CopyInv
  <2>4. Recorded
    BY <2>1, <2>2 DEF RecordInv, Types, Recorded, ImageMode
  <2> QED
    BY <2>1, <2>3, <2>4
<1>11. CASE NvWorld
  BY <1>11 DEF NvWorld
<1>12. ASSUME NEW s \in Sources, PkgUpdate(s) PROVE CleanInv'
  BY <1>12 DEF PkgUpdate
<1>13. ASSUME NEW f \in Files, Damage(f) PROVE CleanInv'
  BY <1>13 DEF Damage
<1>14. CASE UNCHANGED vars
  BY <1>14 DEF vars, loader
<1> HIDE DEF CleanInv
<1> QED
  BY <1>1, <1>2, <1>3, <1>4, <1>5, <1>6, <1>7, <1>8, <1>9, <1>10, <1>11, <1>12, <1>13,
       <1>14, Zenon DEF Next, Process, World

-----------------------------------------------------------------------------
(* The theorems.                                                           *)

\* The invariant holds before the first update.
LEMMA InvInit == Init => Inv
<1> SUFFICES ASSUME Init PROVE Inv
  OBVIOUS
<1>1. nvram \in [0..MaxNo -> {"none", "other", "ours"}] /\ recs = {}
  BY DEF Init, NV!BootInit, NV!Numbers
<1>2. /\ DOMAIN esp = Files /\ status = "none" /\ has = FALSE /\ clean = FALSE
      /\ pc = "off"
  BY DEF Init, NV!BootInit, Files
<1> QED
  BY <1>1, <1>2 DEF Inv, Types, CopyInv, RecordInv, CleanInv

\* Every step keeps the invariant.
LEMMA InvStep == Inv /\ [Next]_vars => Inv'
BY TypesStep, CopyStep, RecordStep, CleanStep DEF Inv

\* What was copied is in place until the update has ended, the record that
\* bootvar_create works on is ours, and an undisturbed update leaves nothing to
\* do; whatever is interrupted, fails or is changed by others.
THEOREM ShimInvariant == Spec => []Inv
BY InvInit, InvStep, PTL DEF Spec

\* A successful update leaves every file equal to its source (update.c:383-401).
THEOREM UpdateLeavesCurrent == Spec => []LoaderCurrent
<1>1. Inv => LoaderCurrent
  BY DEF Inv, CopyInv, LoaderCurrent
<1> QED
  BY <1>1, ShimInvariant, PTL

\* When bootvar_create reports success the firmware boots our loader first,
\* whatever calls of the efivar library failed (shim-systemd.c:364).
THEOREM SuccessBootsFirst == Spec => []CreatedBootsFirst
<1>1. Inv => CreatedBootsFirst
  BY DEF Inv, RecordInv, CreatedBootsFirst, NV!CreatedBootsFirst
<1> QED
  BY <1>1, ShimInvariant, PTL

\* The firmware is never pointed at a loader that is not completely there
\* (shim-systemd.c:362-368).
THEOREM FilesBeforeRecord == Spec => RecordAfterFiles
<1>1. Inv /\ [Next]_vars =>
          \A n \in 0..MaxNo : nvram[n] # "ours" /\ nvram'[n] = "ours" => Current
  <2> SUFFICES ASSUME Inv, [Next]_vars, NEW n \in 0..MaxNo,
                      nvram[n] # "ours", nvram'[n] = "ours"
               PROVE  Current
    OBVIOUS
  <2>1. pc = "record" => Current
    BY DEF Inv, CopyInv
  <2>2. Current
    <3>1. CASE Start
      BY <3>1 DEF Start, noNvram, NV!BootvarInit, NV!nv
    <3>2. CASE LookUp
      BY <3>2 DEF LookUp, noNvram, NV!HasBootRec, NV!nv
    <3>3. CASE Decide
      BY <3>3 DEF Decide, noNvram
    <3>4. CASE Reinit
      BY <3>4 DEF Reinit, noNvram, NV!BootvarInit, NV!nv
    <3>5. CASE MakeLayout
      BY <3>5 DEF MakeLayout, noNvram
    <3>6. CASE CopyFile
      BY <3>6 DEF CopyFile, noNvram
    <3>7. CASE RenameFile
      BY <3>7 DEF RenameFile, noNvram
    <3>8. CASE Record
      BY <3>8, <2>1 DEF Record
    <3>9. CASE RecordContinue
      BY <3>9 DEF RecordContinue, noNvram, NV!RereadBootRecs, NV!PushToBootOrder, NV!nv
    <3>10. CASE Exit
      BY <3>10 DEF Exit, noNvram
    <3>11. CASE NvWorld
      BY <3>11 DEF NvWorld, Inv, Types, NV!World, NV!Interrupt, NV!AddOther, NV!DropRecord,
           NV!nv, NV!Numbers
    <3>12. ASSUME NEW s \in Sources, PkgUpdate(s) PROVE Current
      BY <3>12 DEF PkgUpdate, noNvram
    <3>13. ASSUME NEW f \in Files, Damage(f) PROVE Current
      BY <3>13 DEF Damage, noNvram
    <3>14. CASE UNCHANGED vars
      BY <3>14 DEF vars
    <3> QED
      BY <3>1, <3>2, <3>3, <3>4, <3>5, <3>6, <3>7, <3>8, <3>9, <3>10, <3>11, <3>12, <3>13,
           <3>14, Zenon DEF Next, Process, World
  <2> QED
    BY <2>2
<1> QED
  BY <1>1, ShimInvariant, PTL DEF Spec, RecordAfterFiles

\* On an installed system, after an undisturbed update and with no change since,
\* nothing is written: needs_update compares what install writes
\* (shim-systemd.c:220-286).
THEOREM UpdateIdempotent == Spec => Idempotent
<1>1. Inv /\ [Next]_vars =>
          (mode = "native" /\ clean /\ clean' => UNCHANGED <<esp, nvram, order>>)
  <2> SUFFICES ASSUME Inv, [Next]_vars, mode = "native", clean, clean'
               PROVE  UNCHANGED <<esp, nvram, order>>
    OBVIOUS
  <2>1. pc \in {"off", "check", "decide", "done"}
    BY DEF Inv, CleanInv
  <2>2. UNCHANGED <<esp, nvram, order>>
    <3>1. CASE Start
      BY <3>1 DEF Start, loader, noNvram, NV!BootvarInit, NV!nv
    <3>2. CASE LookUp
      BY <3>2 DEF LookUp, noNvram, NV!HasBootRec, NV!nv
    <3>3. CASE Decide
      BY <3>3 DEF Decide, noNvram
    <3>4. CASE Reinit
      BY <3>4, <2>1 DEF Reinit
    <3>5. CASE MakeLayout
      BY <3>5, <2>1 DEF MakeLayout
    <3>6. CASE CopyFile
      BY <3>6, <2>1 DEF CopyFile
    <3>7. CASE RenameFile
      BY <3>7, <2>1 DEF RenameFile
    <3>8. CASE Record
      BY <3>8, <2>1 DEF Record
    <3>9. CASE RecordContinue
      BY <3>9, <2>1 DEF RecordContinue
    <3>10. CASE Exit
      BY <3>10, <2>1 DEF Exit
    <3>11. CASE NvWorld
      BY <3>11, <2>1 DEF NvWorld
    <3>12. ASSUME NEW s \in Sources, PkgUpdate(s) PROVE UNCHANGED <<esp, nvram, order>>
      BY <3>12, <2>1 DEF PkgUpdate
    <3>13. ASSUME NEW f \in Files, Damage(f) PROVE UNCHANGED <<esp, nvram, order>>
      BY <3>13, <2>1 DEF Damage
    <3>14. CASE UNCHANGED vars
      BY <3>14 DEF vars, loader
    <3> QED
      BY <3>1, <3>2, <3>3, <3>4, <3>5, <3>6, <3>7, <3>8, <3>9, <3>10, <3>11, <3>12, <3>13,
           <3>14, Zenon DEF Next, Process, World
  <2> QED
    BY <2>2
<1> QED
  BY <1>1, ShimInvariant, PTL DEF Spec, Idempotent
=============================================================================
