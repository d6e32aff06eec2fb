----------------------------- MODULE AtomicCopy ------------------------------
(***************************************************************************)
(* copy_file and copy_file_atomic of files.c, step by step, for several    *)
(* processes at once: the copy is written to "<target>.TmpWrite", synced,  *)
(* the target unlinked and the copy renamed. The name of the copy is the   *)
(* target's, so processes that replace the same target share it; an open   *)
(* descriptor follows its file when the name goes elsewhere.               *)
(***************************************************************************)
EXTENDS Naturals, FiniteSets

CONSTANTS
    Files,      \* the targets
    Procs,      \* processes of clr-boot-manager
    Contents,   \* what a complete file may hold
    MaxChanges  \* bound on failures and outside events

VARIABLES
    dst, tmp,   \* each target and its .TmpWrite file
    cp,         \* where copy_file_atomic is, per process
    cur,        \* its target
    fd,         \* the name under which the file it writes is to be found
    got,        \* what its open source holds, "short" once truncated
    changes     \* failures and outside events so far

copyVars == <<dst, tmp, cp, cur, fd, got>>

\* What a name may stand for: a complete file, one cut short, or nothing.
States == Contents \cup {"part", "none"}

ASSUME ContentsAssumption == {"part", "none", "short"} \cap Contents = {}
ASSUME BoundAssumption == MaxChanges \in Nat

Disturb == changes < MaxChanges /\ changes' = changes + 1

\* Descriptors when names old of file f now stand for new, or for nothing.
Renamed(f, old, new) ==
    [p \in Procs |-> IF cur[p] = f /\ fd[p] = old THEN new
                     ELSE IF cur[p] = f /\ fd[p] = new THEN "gone" ELSE fd[p]]
Unlinked(f, name) ==
    [p \in Procs |-> IF cur[p] = f /\ fd[p] = name THEN "gone" ELSE fd[p]]

\* The copy is opened with O_TRUNC, whoever wrote it, and the source's size read.
Open(p, f, v) ==
    /\ cp[p] = "idle" /\ v \in Contents
    /\ tmp' = [tmp EXCEPT ![f] = "part"]
    /\ cp' = [cp EXCEPT ![p] = "open"]
    /\ cur' = [cur EXCEPT ![p] = f] /\ got' = [got EXCEPT ![p] = v]
    /\ fd' = [fd EXCEPT ![p] = "tmp"]
    /\ UNCHANGED <<dst, changes>>

\* sendfile until all is written; sync.
Send(p) ==
    /\ cp[p] = "open" /\ got[p] # "short"
    /\ tmp' = IF fd[p] = "tmp" THEN [tmp EXCEPT ![cur[p]] = got[p]] ELSE tmp
    /\ dst' = IF fd[p] = "dst" THEN [dst EXCEPT ![cur[p]] = got[p]] ELSE dst
    /\ cp' = [cp EXCEPT ![p] = "sent"] /\ fd' = [fd EXCEPT ![p] = "none"]
    /\ UNCHANGED <<cur, got, changes>>

\* The source has become shorter than its size was: sendfile returns 0 for ever.
Spin(p) ==
    /\ cp[p] \in {"open", "spin"} /\ got[p] = "short"
    /\ cp' = [cp EXCEPT ![p] = "spin"]
    /\ UNCHANGED <<dst, tmp, cur, fd, got, changes>>

\* The copy cannot be written: its name is unlinked.
SendFails(p) ==
    /\ cp[p] = "open" /\ Disturb
    /\ tmp' = [tmp EXCEPT ![cur[p]] = "none"]
    /\ fd' = [Unlinked(cur[p], "tmp") EXCEPT ![p] = "none"]
    /\ cp' = [cp EXCEPT ![p] = "failed"]
    /\ UNCHANGED <<dst, cur, got>>

\* Mutant: the old target goes before the copy is written.
UnlinkTargetFirst(p) ==
    /\ cp[p] = "open"
    /\ dst' = [dst EXCEPT ![cur[p]] = "none"]
    /\ cp' = [cp EXCEPT ![p] = "gone"]
    /\ UNCHANGED <<tmp, fd, cur, got, changes>>

\* "Delete target if needed"; sync.
UnlinkTarget(p) ==
    /\ cp[p] = "sent"
    /\ dst' = [dst EXCEPT ![cur[p]] = "none"]
    /\ fd' = Unlinked(cur[p], "dst")
    /\ cp' = [cp EXCEPT ![p] = "gone"]
    /\ UNCHANGED <<tmp, cur, got, changes>>

\* rename; sync.
Rename(p) ==
    /\ cp[p] = "gone" /\ tmp[cur[p]] # "none"
    /\ dst' = [dst EXCEPT ![cur[p]] = tmp[cur[p]]]
    /\ tmp' = [tmp EXCEPT ![cur[p]] = "none"]
    /\ fd' = Renamed(cur[p], "tmp", "dst")
    /\ cp' = [cp EXCEPT ![p] = "ok"]
    /\ UNCHANGED <<cur, got, changes>>

\* The target cannot be unlinked, or the copy not renamed: it stays behind.
ReplaceFails(p) ==
    /\ \/ cp[p] = "sent" /\ dst[cur[p]] # "none" /\ Disturb
       \/ cp[p] = "gone" /\ Disturb
       \/ cp[p] = "gone" /\ tmp[cur[p]] = "none" /\ UNCHANGED changes
    /\ cp' = [cp EXCEPT ![p] = "failed"]
    /\ UNCHANGED <<dst, tmp, cur, fd, got>>

\* copy_file_atomic returns.
Return(p) ==
    /\ cp' = [cp EXCEPT ![p] = "idle"] /\ cur' = [cur EXCEPT ![p] = "none"]
    /\ got' = [got EXCEPT ![p] = "none"] /\ UNCHANGED <<dst, tmp, fd, changes>>

CopyStep(p) ==
    \/ Send(p) \/ Spin(p) \/ SendFails(p) \/ UnlinkTarget(p) \/ Rename(p) \/ ReplaceFails(p)

CopyInit ==
    /\ dst = [f \in Files |-> "none"] /\ tmp = [f \in Files |-> "none"]
    /\ cp = [p \in Procs |-> "idle"]
    /\ cur = [p \in Procs |-> "none"]
    /\ fd = [p \in Procs |-> "none"] /\ got = [p \in Procs |-> "none"]
    /\ changes = 0

=============================================================================
