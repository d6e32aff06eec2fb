----------------------------- MODULE AtomicFiles -----------------------------
(***************************************************************************)
(* What the header of copy_file_atomic promises of the files below the     *)
(* boot directory: a complete replacement is staged first, the old content *)
(* is taken away only while one is staged, and what takes its place is     *)
(* that replacement. Only a file nobody keeps may go without one. Once the *)
(* old content is gone the replacement itself may be lost, and the file is *)
(* then absent until another attempt has staged and swapped one in.        *)
(***************************************************************************)
CONSTANTS Files, Contents, Absent

VARIABLES
    content,    \* what each file holds
    staged,     \* the complete replacement beside it
    kept        \* the files the update under way keeps

vars == <<content, staged, kept>>

AFInit ==
    /\ content \in [Files -> Contents \cup {Absent}]
    /\ staged = [f \in Files |-> Absent]
    /\ kept = {}

Choose == kept' \in SUBSET Files /\ UNCHANGED <<content, staged>>

Stage(f) ==
    /\ \E v \in Contents : staged' = [staged EXCEPT ![f] = v]
    /\ UNCHANGED <<content, kept>>

\* An attempt is given up, or power is lost, or the next attempt truncates what
\* an interrupted one has staged, even if the old content is gone (files.c:422).
Discard ==
    /\ \E F \in SUBSET Files :
          staged' = [f \in Files |-> IF f \in F THEN Absent ELSE staged[f]]
    /\ kept' \in SUBSET Files
    /\ UNCHANGED content

GiveUp(f) ==
    /\ staged[f] # Absent
    /\ content' = [content EXCEPT ![f] = Absent]
    /\ UNCHANGED <<staged, kept>>

Swap(f) ==
    /\ staged[f] # Absent
    /\ content' = [content EXCEPT ![f] = staged[f]]
    /\ staged' = [staged EXCEPT ![f] = Absent]
    /\ UNCHANGED kept

Remove(f) ==
    /\ f \notin kept
    /\ content' = [content EXCEPT ![f] = Absent]
    /\ UNCHANGED <<staged, kept>>

AFNext ==
    \/ Choose \/ Discard
    \/ \E f \in Files : Stage(f) \/ GiveUp(f) \/ Swap(f) \/ Remove(f)

AFSpec == AFInit /\ [][AFNext]_vars
=============================================================================
