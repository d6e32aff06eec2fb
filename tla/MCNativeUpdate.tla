--------------------------- MODULE MCNativeUpdate ---------------------------
(* Small instances of NativeUpdate for TLC.                                *)
EXTENDS NativeUpdate, TLC

CONSTANTS k1, k2, k3, k4

MCType2    == k1 :> "lts" @@ k2 :> "lts"
MCVersion2 == k1 :> "4.9.1" @@ k2 :> "4.9.1"
MCRelease2 == k1 :> 1 @@ k2 :> 2

\* k1 < k2 < k3 of one type, k4 of another.
MCType3    == k1 :> "lts" @@ k2 :> "lts" @@ k3 :> "lts"
MCVersion3 == k1 :> "4.9.1" @@ k2 :> "4.9.1" @@ k3 :> "4.9.2"
MCRelease3 == k1 :> 1 @@ k2 :> 2 @@ k3 :> 3

MCType4    == MCType3 @@ k4 :> "native"
MCVersion4 == MCVersion3 @@ k4 :> "4.10"
MCRelease4 == MCRelease3 @@ k4 :> 2

\* A machine that booted its loader's default; what else loader.conf may name is
\* reached by set-kernel, packages and reboots.
MCInit == Init /\ ldef = uname

MCSpec == MCInit /\ [][Next]_vars
=============================================================================
