---------------------------- MODULE MCInodeAlloc -----------------------------
(***************************************************************************)
(* InodeAlloc for TLC.  What a free sector still holds is overwritten      *)
(* before it is read, so states that differ only in that are identified;   *)
(* once the free map's inode is gone the run goes no further.              *)
(***************************************************************************)
EXTENDS InodeAlloc, TLC

InUse == <<free_map, map_file, [s \in free_map |-> disk[s]], dir,
           open_inodes, file_table, failed>>
NameSymmetry == Permutations(Names)
=============================================================================
