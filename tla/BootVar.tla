------------------------------- MODULE BootVar -------------------------------
(***************************************************************************)
(* The UEFI boot records (lib/bootvar.c): the BootXXXX variables and       *)
(* BootOrder in NVRAM, the list of records the process keeps, and the      *)
(* calls bootvar_init, bootvar_has_boot_rec and bootvar_create.            *)
(*                                                                         *)
(* Each call of the efivar library is a step that may fail, and the        *)
(* process may end between any two.  An action takes the step the caller   *)
(* continues with, so that ShimSystemd can use it.                         *)
(***************************************************************************)
EXTENDS Integers, Sequences, FiniteSets

CONSTANTS
    MaxNo,      \* the largest number "Boot%04X" has room for (0xFFFF)
    NvFaults,   \* calls that may fail: subset of {"read", "get", "set", "data"}
    MaxChanges  \* bound on what happens outside the process

ASSUME BootVarAssumption ==
    MaxNo \in Nat /\ NvFaults \subseteq {"read", "get", "set", "data"} /\ MaxChanges \in Nat

Numbers == 0..MaxNo
NoNumber == -1

VARIABLES
    nvram,      \* contents of BootXXXX: "none", "other", or "ours" for our loader
    order,      \* BootOrder; empty if the variable is missing
    recs, cnt,  \* boot_recs, as the set of its numbers, and boot_recs_cnt
    rec,        \* the record bootvar_create works on
    has,        \* last result of bootvar_has_boot_rec
    status,     \* last result of bootvar_create: none yet, ok or error
    pc,         \* the step of the process; "off" if there is none
    changes

nv == <<nvram, order>>
lib == <<recs, cnt>>
bootVars == <<nvram, order, recs, cnt, rec, has, status, pc, changes>>

Present == {n \in Numbers : nvram[n] # "none"}

-----------------------------------------------------------------------------
(* The functions.                                                          *)

\* Mutant: the count goes on from the last reading.
ReadBootRecsAgain(ok) == ok /\ recs' = Present /\ cnt' = cnt + Cardinality(Present)

\* bootvar_read_boot_recs: a failure leaves a part of the list and the old count.
ReadBootRecs(ok) ==
    \/ ok /\ recs' = Present /\ cnt' = Cardinality(Present)
    \/ ~ok /\ "read" \in NvFaults /\ recs' \in SUBSET Present /\ UNCHANGED cnt

\* The array of numbers when it is sorted.
Ascending(S) ==
    CHOOSE nums \in [1..Cardinality(S) -> S] :
        /\ \A i, j \in 1..Cardinality(S) : i < j => nums[i] < nums[j]
        /\ \A n \in S : \E i \in 1..Cardinality(S) : nums[i] = n

\* Mutant: the number after the last one, counted wrongly.
FreeNoHighest(S, c) == IF S = {} THEN -1 ELSE IF c = 0 THEN 0 ELSE c - 1

\* bootvar_find_free_no on the list S and the count c: the array of c numbers is
\* filled up with zeros and sorted; the first index below its number, else c.
FreeNo(S, c) ==
    IF S = {} THEN -1
    ELSE IF c = 0 THEN 0
    ELSE LET nums == [i \in 1..(c - Cardinality(S)) |-> 0] \o Ascending(S)
             gaps == {i \in 1..c : i - 1 < nums[i]}
             res  == IF gaps = {} THEN c ELSE (CHOOSE i \in gaps : \A j \in gaps : i <= j) - 1
         IN IF res = nums[c] THEN res + 1 ELSE res

\* The slots to expect; more numbers than the count overrun the array.
FreeNos == IF Cardinality(recs) > cnt /\ cnt > 0 THEN Numbers ELSE {FreeNo(recs, cnt)}

\* bootvar_find_boot_rec: records whose variable cannot be read are passed over.
Matching == IF cnt = 0 THEN {} ELSE {n \in recs : nvram[n] = "ours"}

FindBootRec(n) ==
    \/ n \in Matching
    \/ n = NoNumber /\ (Matching = {} \/ "get" \in NvFaults)

-----------------------------------------------------------------------------
(* The calls; p is the caller's next step.                                 *)

\* bootvar_init; its result is only logged.
BootvarInit(p) ==
    /\ \E ok \in BOOLEAN : ReadBootRecs(ok)
    /\ pc' = p
    /\ UNCHANGED <<nv, rec, has, status, changes>>

\* bootvar_has_boot_rec; bootvar_make_boot_rec_data may fail.
HasBootRec(p) ==
    /\ \/ \E n \in Numbers \cup {NoNumber} : FindBootRec(n) /\ has' = (n # NoNumber)
       \/ "data" \in NvFaults /\ has' = FALSE
    /\ pc' = p
    /\ UNCHANGED <<nv, lib, rec, status, changes>>

\* bootvar_create returns an error.
CreateFails(p) == pc' = p /\ status' = "error" /\ rec' = NoNumber

\* Mutant: no look-up of an existing record.
AddBootRecAlways(p) ==
    /\ \E slot \in FreeNos \cap Numbers :
          /\ pc' = "reread" /\ rec' = slot
          /\ nvram' = [nvram EXCEPT ![slot] = "ours"]
    /\ UNCHANGED <<order, lib, has, status, changes>>

\* bootvar_create up to bootvar_add_boot_rec's efi_set_variable.
AddBootRec(p) ==
    /\ \/ \E n \in Matching :
            FindBootRec(n) /\ pc' = "push" /\ rec' = n /\ UNCHANGED <<nvram, status>>
       \/ /\ FindBootRec(NoNumber)
          /\ \E slot \in FreeNos :
               IF slot \in Numbers
                 THEN /\ pc' = "reread" /\ rec' = slot
                      /\ nvram' = [nvram EXCEPT ![slot] = "ours"]
                      /\ UNCHANGED status
                 ELSE CreateFails(p) /\ UNCHANGED nvram
       \/ NvFaults \cap {"data", "set"} # {} /\ CreateFails(p) /\ UNCHANGED nvram
    /\ UNCHANGED <<order, lib, has, changes>>

\* The records are read again to find the new one.
RereadBootRecs(p) ==
    /\ \E ok \in BOOLEAN :
          /\ ReadBootRecs(ok)
          /\ IF ok /\ rec \in recs'
               THEN pc' = "push" /\ UNCHANGED <<rec, status>>
               ELSE CreateFails(p)
    /\ UNCHANGED <<nv, has, changes>>

\* The loop that copies the entries of an order that are in S.
Filter(s, S) ==
    LET copied[i \in 0..Len(s)] ==
            IF i = 0 THEN <<>>
            ELSE IF s[i] \in S THEN Append(copied[i - 1], s[i]) ELSE copied[i - 1]
    IN copied[Len(s)]

\* Mutant: an entry that is new is put last.
PushLast(p) ==
    /\ pc' = p /\ status' = "ok" /\ rec' = NoNumber
    /\ order' = Filter(order, Numbers \ {rec}) \o <<rec>>
    /\ UNCHANGED <<nvram, lib, has, changes>>

\* Mutant: the number is written over the head of the order.
PushOver(p) ==
    /\ pc' = p /\ status' = "ok" /\ rec' = NoNumber
    /\ order' = IF order = <<>> THEN <<rec>> ELSE [order EXCEPT ![1] = rec]
    /\ UNCHANGED <<nvram, lib, has, changes>>

\* bootvar_push_to_boot_order: the record first, the others as they were.
PushToBootOrder(p) ==
    /\ \/ /\ order # <<>>
          /\ order' = <<rec>> \o Filter(order, Numbers \ {rec})
          /\ pc' = p /\ status' = "ok" /\ rec' = NoNumber
       \/ /\ order = <<>> \/ NvFaults \cap {"get", "set"} # {}
          /\ CreateFails(p) /\ UNCHANGED order
    /\ UNCHANGED <<nvram, lib, has, changes>>

-----------------------------------------------------------------------------
(* The process and the world.                                              *)

\* A process ends, or power is lost: its list, its count and its results are gone.
ProcessGone ==
    /\ pc' = "off" /\ recs' = {} /\ cnt' = 0 /\ rec' = NoNumber
    /\ has' = FALSE /\ status' = "none"

Changed == changes < MaxChanges /\ changes' = changes + 1

\* Another system adds a record and puts it first.
AddOther(n) ==
    /\ pc = "off" /\ Changed /\ nvram[n] = "none"
    /\ nvram' = [nvram EXCEPT ![n] = "other"]
    /\ order' = <<n>> \o order
    /\ UNCHANGED <<lib, rec, has, status, pc>>

\* The firmware or another system drops a record, with its place in BootOrder or not.
DropRecord(n) ==
    /\ pc = "off" /\ Changed /\ nvram[n] # "none"
    /\ nvram' = [nvram EXCEPT ![n] = "none"]
    /\ order' \in {order, Filter(order, Numbers \ {n})}
    /\ UNCHANGED <<lib, rec, has, status, pc>>

\* The process is killed or power is lost.
Interrupt ==
    /\ pc # "off" /\ Changed /\ ProcessGone
    /\ UNCHANGED nv

World == Interrupt \/ \E n \in Numbers : AddOther(n) \/ DropRecord(n)

\* An installed system: some records, each at most once in BootOrder.
BootInit ==
    /\ nvram \in [Numbers -> {"none", "other"}]
    /\ order \in {<<>>, Ascending(Present)}
    /\ recs = {} /\ cnt = 0 /\ rec = NoNumber /\ has = FALSE /\ status = "none"
    /\ changes = 0

Init == BootInit /\ pc = "off"

\* A caller of the library: it may initialise again, look up and create at will.
Start == pc = "off" /\ BootvarInit("ready")

Call ==
    /\ pc = "ready"
    /\ \/ BootvarInit("ready")
       \/ HasBootRec("ready")
       \/ AddBootRec("ready")

Continue ==
    \/ pc = "reread" /\ RereadBootRecs("ready")
    \/ pc = "push" /\ PushToBootOrder("ready")

\* bootvar_destroy and the end of the process.
Stop == pc = "ready" /\ ProcessGone /\ UNCHANGED <<nv, changes>>

Next == Start \/ Call \/ Continue \/ Stop \/ World

Spec == Init /\ [][Next]_bootVars

-----------------------------------------------------------------------------
(* Properties.                                                             *)

\* Every variable has its type.
TypeOK ==
    /\ nvram \in [Numbers -> {"none", "other", "ours"}]
    /\ order \in Seq(Numbers)
    /\ recs \subseteq Numbers /\ cnt \in 0..(MaxNo + 1)
    /\ rec \in Numbers \cup {NoNumber}
    /\ has \in BOOLEAN /\ status \in {"none", "ok", "error"}
    /\ changes \in 0..MaxChanges

\* "finds the first available free number for a boot var" (bootvar.c:213): an
\* existing record of another system is never written over.
NeverOverwrites ==
    [][\A n \in Numbers : nvram[n] = "other" => nvram'[n] # "ours"]_bootVars

\* However often has_boot_rec and create are called, also by processes that were
\* interrupted, there is at most one record of ours (bootvar.c:351).
NoDuplicate == \A m, n \in Numbers : nvram[m] = "ours" /\ nvram[n] = "ours" => m = n

Others == {n \in Numbers : nvram[n] = "other"}

\* The records of other systems keep their places in BootOrder relative to each
\* other, in every step of a process (bootvar.c:137-206).
OthersKeepOrder ==
    [][pc # "off" => Filter(order', Others') = Filter(order, Others)]_bootVars

\* When bootvar_create reports success the firmware boots our loader first,
\* whatever failed on the way there (bootvar.c:450-485).
CreatedBootsFirst == status = "ok" => order # <<>> /\ nvram[order[1]] = "ours"

\* bootvar_find_free_no agrees with its definition: the least unused number.
FindsFirstFree ==
    cnt = Cardinality(recs) /\ recs # {} =>
        /\ FreeNo(recs, cnt) \in 0..cnt \ recs
        /\ \A n \in 0..(FreeNo(recs, cnt) - 1) : n \in recs
=============================================================================
