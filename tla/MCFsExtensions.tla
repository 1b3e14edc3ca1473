--------------------------- MODULE MCFsExtensions ----------------------------
(***************************************************************************)
(* FsExtensions for TLC.  Of a free sector only the inode it may hold is   *)
(* ever read again, by recover.                                            *)
(***************************************************************************)
EXTENDS FsExtensions, TLC

View == <<[s \in Sectors |-> IF s \in free_map THEN disk[s] ELSE disk[s].inode],
          free_map, map_file, dir, open_inodes, file_table, failed, extra>>
NameSymmetry == Permutations(Names)

\* The run goes no further where the free map's inode is gone, where memory is
\* garbage, after a failed call (InodeAlloc's run goes on from there), after
\* recover_0, and with files after recover_1.
Explored ==
    /\ MapInodeIntact /\ phase # "ub" /\ failed = {}
    /\ "recover_0" \notin ran
    /\ Recovered => Files = {} \/ writing # <<>>
=============================================================================
