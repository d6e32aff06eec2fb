---------------------------- MODULE MCMountBoot ----------------------------
(***************************************************************************)
(* The machines of the runs of MountBoot.                                  *)
(***************************************************************************)
EXTENDS MountBoot

\* Every combination of firmware, partitions, file system and programs.
MCSystems == System

MCOps == {"update", "set", "remove", "list", "mount"}
=============================================================================
