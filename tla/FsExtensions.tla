---------------------------- MODULE FsExtensions -----------------------------
(***************************************************************************)
(* The commands of fsutil2.c (copy_in, copy_out, find_file,                *)
(* fragmentation_degree, defragment, recover), cat, and the lifetime of    *)
(* struct inode and of the root directory under them, over InodeAlloc.     *)
(* The commands run one after the other; defragment and copy_in take       *)
(* several steps, between which no other command can start.  The order in  *)
(* which dir_readdir lists the files is left open.                         *)
(***************************************************************************)
EXTENDS InodeAlloc

CONSTANTS
    BLOCK_SECTOR_SIZE,  \* 512 in the code
    CopySizes           \* bound: bytes of the host files given to copy_in, and one

ASSUME CopyAssumption ==
    /\ BLOCK_SECTOR_SIZE \in Nat \ {0, 1}
    /\ CopySizes \subseteq Nat \ {0}
    /\ DIRECT_BLOCKS_COUNT + INDIRECT_BLOCKS_PER_SECTOR >= 3

VARIABLES
    freed,           \* files in the file table whose struct inode has been freed
    cwd,             \* "NULL", or "end": left open by defragment, read to its end
    phase,           \* of defragment: "idle", "collect", "restore"; "ub" after garbage
    existing_files,  \* defragment's list of <<name, size>>
    writing,         \* the <<name, size>> that fsutil_write is about to write
    ran,             \* ghost: commands that leave struct inodes wrong
    before,          \* ghost: the lengths of the files when defragment started
    last             \* ghost: what the last command was, where a property asks

extra == <<freed, cwd, phase, existing_files, writing, ran, before, last>>
allvars == <<vars, extra>>

NoCommand == [cmd |-> "none"]

ExtInit ==
    /\ Init
    /\ freed = {}
    /\ cwd = "NULL"
    /\ phase = "idle"
    /\ existing_files = <<>>
    /\ writing = <<>>
    /\ ran = {}
    /\ before = <<>>
    /\ last = NoCommand

Prompt == phase = "idle" /\ writing = <<>>
Steps == <<phase, existing_files, writing, before>>

-----------------------------------------------------------------------------
\* dir_open_root and dir_readdir until it returns false: the files that a
\* command over all files sees.
Listed == IF cwd = "NULL" THEN Files ELSE {}

SectorsOf(files) == {dir[f] : f \in files}
Opened(sectors) == [s \in DOMAIN open_inodes \cup sectors |-> DataOf(s)]

\* filesys_open and file_close: the struct inode is freed, whoever else uses it.
OpenAndClose(files) ==
    /\ open_inodes' = Drop(open_inodes, SectorsOf(files))
    /\ freed' = freed \cup (files \cap file_table)

\* Commands that only open and close files.
ReadOnly ==
    /\ Prompt
    /\ last' = NoCommand
    /\ UNCHANGED <<free_map, map_file, disk, dir, failed, cwd, Steps>>

\* Mutant: file_close instead of remove_from_file_table.
fsutil_cat_close(f) ==
    /\ ReadOnly
    /\ f \in Files \ file_table
    /\ open_inodes' = Drop(open_inodes, {dir[f]})
    /\ file_table' = file_table \cup {f}
    /\ UNCHANGED <<freed, ran>>

\* A file that is not open is put into the file table and taken out again.
fsutil_cat(f) ==
    /\ ReadOnly
    /\ f \in Files \ file_table
    /\ open_inodes' = Drop(open_inodes, {dir[f]})
    /\ UNCHANGED <<file_table, freed, ran>>

\* fsutil_file_exists opens the file and leaves it open, fsutil_size puts it
\* into the file table: the same struct inode.
copy_out(f) ==
    /\ ReadOnly
    /\ f \in Files \ file_table
    /\ open_inodes' = Opened({dir[f]})
    /\ file_table' = file_table \cup {f}
    /\ UNCHANGED <<freed, ran>>

find_file ==
    /\ ReadOnly
    /\ OpenAndClose(Listed)
    /\ ran' = ran \cup {"find_file"}
    /\ UNCHANGED file_table

\* With num_sectors = 0 the loop runs to (size_t)-1 over an empty array, and
\* recover_2 looks at sector[-1].
NoEmptyFile == \A f \in Listed : DataOf(dir[f]).length > 0

\* The files are opened and never closed.
fragmentation_degree ==
    /\ ReadOnly
    /\ NoEmptyFile
    /\ open_inodes' = Opened(SectorsOf(Listed))
    /\ UNCHANGED <<file_table, freed, ran>>

\* Its test for one file: two consecutive sectors further apart than 3.
Fragmented(inode) ==
    LET data_sectors == get_inode_data_sectors(inode)
    IN  \E i \in 1..(Len(data_sectors) - 1) : data_sectors[i + 1] - data_sectors[i] > 3

-----------------------------------------------------------------------------
\* Mutant: the inode's own sector is forgotten.
get_overhead_no_inode(size) ==
    LET direct == DIRECT_BLOCKS_COUNT * BLOCK_SECTOR_SIZE
        indirect == direct + INDIRECT_BLOCKS_PER_SECTOR * BLOCK_SECTOR_SIZE
        pt_blocks == DivRoundUp(DivRoundUp(size - indirect, BLOCK_SECTOR_SIZE),
                                INDIRECT_BLOCKS_PER_SECTOR)
    IN  CASE size <= direct -> 0
          [] direct < size /\ size <= indirect -> BLOCK_SECTOR_SIZE
          [] size > indirect -> (2 + pt_blocks) * BLOCK_SECTOR_SIZE

\* Bytes of the inode and pointer blocks of a file of size bytes.
get_overhead(size) ==
    LET direct == DIRECT_BLOCKS_COUNT * BLOCK_SECTOR_SIZE
        indirect == direct + INDIRECT_BLOCKS_PER_SECTOR * BLOCK_SECTOR_SIZE
        pt_blocks == DivRoundUp(DivRoundUp(size - indirect, BLOCK_SECTOR_SIZE),
                                INDIRECT_BLOCKS_PER_SECTOR)
    IN  CASE size <= direct -> BLOCK_SECTOR_SIZE
          [] direct < size /\ size <= indirect -> 2 * BLOCK_SECTOR_SIZE
          [] size > indirect -> (3 + pt_blocks) * BLOCK_SECTOR_SIZE

\* How much of bufsize bytes copy_in writes into free_space bytes: the whole
\* file, or what is left beside the overhead of a file that fills the disk.
\* In between the bytes left are taken for a number of blocks.
FitsWhole(bufsize, free_space) ==
    bufsize < free_space /\ get_overhead(bufsize) <= free_space - bufsize

get_write_size(bufsize, free_space) ==
    LET left == free_space - bufsize
        single == DIRECT_BLOCKS_COUNT + INDIRECT_BLOCKS_PER_SECTOR
    IN  CASE free_space = 1 -> 0
          [] free_space # 1 /\ bufsize >= free_space -> free_space - get_overhead(free_space)
          [] free_space # 1 /\ FitsWhole(bufsize, free_space) -> bufsize
          [] OTHER -> BLOCK_SECTOR_SIZE * (CASE left = 1 -> DIRECT_BLOCKS_COUNT
                                             [] left \in {2, 3} -> single
                                             [] OTHER -> single + left - 3)

\* copy_in up to fsutil_create; fsutil_write follows if the file was created.
copy_in(f, bufsize) ==
    LET free_space == Cardinality(Sectors \ free_map) * BLOCK_SECTOR_SIZE
        size == DivRoundUp(get_write_size(bufsize, free_space), BLOCK_SECTOR_SIZE)
        success == f \in DOMAIN dir' \ DOMAIN dir
    IN  /\ Prompt
        /\ free_space > 0
        /\ Created(f, size)
        /\ writing' = IF success THEN <<f, size>> ELSE <<>>
        /\ last' = [cmd |-> "copy_in", bufsize |-> bufsize, free_space |-> free_space,
                    new |-> f \notin Files, success |-> success]
        /\ UNCHANGED <<open_inodes, file_table, freed, cwd, phase, existing_files, ran, before>>

\* fsutil_write of a file that was just created with that size: it gets into
\* the file table.  Only a stale struct inode makes it extend the file, by bytes
\* of its last sector or by sectors; a file that could not be created is not
\* found.
fsutil_write ==
    LET f == writing[1]
        size == writing[2]
    IN  /\ writing # <<>>
        /\ \/ f \in Files /\ DataOf(dir[f]) # InodeOf(f) /\ inode_write_at(f, size)
           \/ /\ f \in Files => size <= DataOf(dir[f]).length
              /\ open_inodes' = Opened(SectorsOf({f} \cap Files))
              /\ file_table' = file_table \cup ({f} \cap Files)
              /\ UNCHANGED <<free_map, map_file, disk, dir, failed>>
        /\ writing' = <<>>
        /\ last' = NoCommand
        /\ UNCHANGED <<freed, cwd, phase, existing_files, ran, before>>

-----------------------------------------------------------------------------
LengthOf(f) == DataOf(dir[f]).length

\* defragment opens the root directory and never closes it: with no file to
\* read it stays open, with its position at the end.
defragment ==
    /\ Prompt
    /\ phase' = IF Listed = {} THEN "idle" ELSE "collect"
    /\ cwd' = IF Listed = {} THEN "end" ELSE cwd
    /\ before' = IF Listed = {} THEN <<>> ELSE [f \in Files |-> LengthOf(f)]
    /\ last' = NoCommand
    /\ UNCHANGED <<vars, freed, existing_files, writing, ran>>

\* Mutant: the file is not remembered when it is in the file table.
CollectClosed(f) ==
    /\ phase = "collect"
    /\ f \in Files \ freed
    /\ existing_files' = IF f \in file_table THEN existing_files
                         ELSE Append(existing_files, <<f, LengthOf(f)>>)
    /\ filesys_remove(f)
    /\ UNCHANGED <<freed, cwd, phase, writing, ran, before, last>>

\* One turn of its first loop: the file is read and removed.
Collect(f) ==
    /\ phase = "collect"
    /\ f \in Files \ freed
    /\ existing_files' = Append(existing_files, <<f, LengthOf(f)>>)
    /\ filesys_remove(f)
    /\ UNCHANGED <<freed, cwd, phase, writing, ran, before, last>>

\* fsutil_rm closes the struct inode of the root directory, so from the second
\* turn on dir_readdir reads freed memory: it may still hold the inode (then
\* Collect and Collected go on), or not.  A command on a file whose struct
\* inode is freed, defragment's rm included, has no defined outcome at all.
UseFreed ==
    /\ \/ phase = "collect" /\ existing_files # <<>>
       \/ (Prompt \/ phase = "collect") /\ freed # {}
    /\ phase' = "ub"
    /\ UNCHANGED <<vars, freed, cwd, existing_files, writing, ran, before, last>>

Collected ==
    /\ phase = "collect"
    /\ Files = {}
    /\ phase' = "restore"
    /\ UNCHANGED <<vars, freed, cwd, existing_files, writing, ran, before, last>>

\* One turn of its second loop; fsutil_write follows.
Restore ==
    /\ phase = "restore" /\ writing = <<>> /\ existing_files # <<>>
    /\ Created(Head(existing_files)[1], Head(existing_files)[2])
    /\ writing' = Head(existing_files)
    /\ existing_files' = Tail(existing_files)
    /\ UNCHANGED <<open_inodes, file_table, freed, cwd, phase, ran, before, last>>

Restored == phase = "restore" /\ writing = <<>> /\ existing_files = <<>>

DefragmentReturns ==
    /\ Restored
    /\ phase' = "idle"
    /\ before' = <<>>
    /\ UNCHANGED <<vars, freed, cwd, existing_files, writing, ran, last>>

-----------------------------------------------------------------------------
RecoveredName(s) == <<"recovered0", s>>

\* Mutant: the bits behind the first data sector are set.
MarkedFromSecond(s) ==
    LET inode == DataOf(s)
        first == inode.direct_blocks[0]
    IN  ({s, inode.indirect_block, inode.doubly_indirect_block}
         \cup (first + 1)..(first + inode.length)) \cap Sectors

\* The bits recover_0 sets for the inode in sector s: as many from the first
\* data sector on as there are data sectors, and two pointer blocks.
Marked(s) ==
    LET inode == DataOf(s)
        first == inode.direct_blocks[0]
    IN  ({s, inode.indirect_block, inode.doubly_indirect_block}
         \cup first..(first + inode.length - 1)) \cap Sectors

\* One turn of recover_0's loop.  sector_is_inode opens the sector, and nobody
\* closes it.
RecoverSector(acc, s) ==
    CASE s \in acc.map -> acc
      [] s \notin acc.map /\ ~DataOf(s).magic -> [acc EXCEPT !.opened = @ \cup {s}]
      [] s \notin acc.map /\ DataOf(s).magic ->
           [map |-> acc.map \cup Marked(s),
            dir |-> dir_add(acc.dir, RecoveredName(s), s),
            opened |-> acc.opened \cup {s}]

\* The bits are set in memory only.
recover_0 ==
    LET done == FoldLeft(RecoverSector, [map |-> free_map, dir |-> dir, opened |-> {}],
                         UpTo(NumSectors))
    IN  /\ Prompt
        /\ free_map' = done.map
        /\ dir' = done.dir
        /\ open_inodes' = Opened(done.opened)
        /\ ran' = ran \cup {"recover_0"}
        /\ last' = NoCommand
        /\ UNCHANGED <<map_file, disk, file_table, failed, freed, cwd, Steps>>

\* Every sector from 4 on is opened as an inode.
recover_1 ==
    /\ ReadOnly
    /\ open_inodes' = Opened(4..(NumSectors - 1))
    /\ ran' = ran \cup {"recover_1"}
    /\ UNCHANGED <<file_table, freed>>

\* A file is closed only if something was found behind its end.
recover_2 ==
    /\ ReadOnly
    /\ NoEmptyFile
    /\ \E found \in SUBSET Listed :
           /\ open_inodes' = Drop(Opened(SectorsOf(Listed)), SectorsOf(found))
           /\ freed' = freed \cup (found \cap file_table)
    /\ ran' = ran \cup {"recover_2"}
    /\ UNCHANGED file_table

-----------------------------------------------------------------------------
\* The commands of InodeAlloc.
Call ==
    /\ Prompt
    /\ \/ \E f \in Names, num \in Lengths : filesys_create(f, num)
       \/ \E f \in Files \ freed, num \in Lengths : inode_write_at(f, num)
       \/ \E f \in Files \ freed : inode_open(f) \/ inode_close(f)
    /\ last' = NoCommand
    /\ UNCHANGED <<freed, cwd, Steps, ran>>

\* dir_close of a struct dir that dir_open_path has opened on the same inode:
\* whatever else has the root directory open loses it.
dir_close == cwd' = "NULL"

\* fsutil_rm: dir_open_path, dir_remove, dir_close.
fsutil_rm(f) ==
    /\ Prompt
    /\ f \notin freed
    /\ \/ filesys_remove(f) /\ last' = [cmd |-> "rm", sector |-> dir[f]]
       \/ f \notin Files /\ UNCHANGED vars /\ last' = NoCommand
    /\ dir_close
    /\ UNCHANGED <<freed, Steps, ran>>

ExtRestart ==
    /\ Prompt
    /\ Restart
    /\ freed' = {}
    /\ cwd' = "NULL"
    /\ ran' = ran \cap {"recover_0", "recover_1"}
    /\ last' = NoCommand
    /\ UNCHANGED Steps

Defragmenting ==
    \/ \E f \in Files : Collect(f)
    \/ UseFreed \/ Collected \/ Restore \/ DefragmentReturns

ExtNext ==
    \/ Call \/ ExtRestart
    \/ \E f \in Names \cup Files : fsutil_rm(f)
    \/ \E f \in Files : fsutil_cat(f) \/ copy_out(f)
    \/ find_file \/ fragmentation_degree
    \/ \E f \in Names, bufsize \in CopySizes : copy_in(f, bufsize)
    \/ fsutil_write
    \/ defragment \/ Defragmenting
    \/ recover_0 \/ recover_1 \/ recover_2

ExtSpec == ExtInit /\ [][ExtNext]_allvars

-----------------------------------------------------------------------------
Recovered == ran \cap {"recover_0", "recover_1"} # {}

\* As long as neither find_file nor recover has run, every file in the file
\* table still has its struct inode, whatever cat, copy_out, rm, defragment
\* and fragmentation_degree open and close in between.  Without the free map's
\* inode two files may get one inode after a restart.
TableInodesLive ==
    MapInodeIntact /\ ran = {} =>
        freed = {} /\ SectorsOf(file_table) \subseteq DOMAIN open_inodes

\* "If this was the last reference to INODE, frees its memory": a file in the
\* file table is a reference, so its struct inode is not freed.
OpenFilesLive == freed = {}

\* A struct inode, also one that nobody will close any more, holds what its
\* sector holds, so that the next inode_open of the sector is right: unless
\* recover has opened free sectors or a write has failed.
OpenInodeCurrent ==
    MapInodeIntact /\ ~Recovered /\ "write" \notin failed =>
        \A s \in DOMAIN open_inodes : open_inodes[s] = disk[s].inode

\* With struct inodes left open and files rewritten by defragment and copy_in,
\* files still share no sector, own only marked ones, and nothing is lost
\* while no call fails.
FilesStayApart == ~Recovered => NoSharedSector /\ OwnedIsMarked /\ NothingLost

\* Between the steps of defragment every file it found is in the directory, or
\* in the list, or about to be written, with its length: when it returns they
\* are all back.
DefragmentKeepsFiles ==
    before # <<>> /\ MapInodeIntact /\ ~Recovered =>
        {<<f, InodeOf(f).length>> : f \in Files} \cup Range(existing_files)
          = {<<f, before[f]>> : f \in DOMAIN before}

\* If no call has failed, defragment packs the files into the lowest sectors
\* and fragmentation_degree then counts no fragmented file.
DefragmentCompacts ==
    Restored /\ failed = {} /\ ~Recovered =>
        /\ free_map = 0..(Cardinality(free_map) - 1)
        /\ \A f \in Files : ~Fragmented(InodeOf(f))

\* What get_overhead computes is what inode_reserve takes: a file that fits
\* with its overhead, or that is cut to what a full disk leaves, is created.
CopyInCreates ==
    last.cmd = "copy_in" /\ last.new /\ MapInodeIntact /\ ~Recovered =>
        ((FitsWhole(last.bufsize, last.free_space) \/ last.bufsize >= last.free_space)
           => last.success)

\* "Compute the total write size that we will be able to fit in our disk's
\* free space": with a sector for the inode and one for data, a new file is
\* created.
CopyInFits ==
    last.cmd = "copy_in" /\ last.new /\ last.free_space >= 2 * BLOCK_SECTOR_SIZE => last.success

\* The first recover_0, right after rm, brings the file back, if it is the only
\* removed inode there is: same inode, and, when its data sectors are consecutive and
\* direct, none of its sectors is free any more.
RecoverUndoesRemove ==
    [][recover_0 /\ ~Recovered /\ last.cmd = "rm" =>
         LET s == last.sector
             inode == disk[s].inode
             data == get_inode_data_sectors(inode)
             only == \A t \in Sectors \ free_map : disk[t].inode.magic => t = s
             consecutive == \A i \in DOMAIN data : data[i] = data[1] + i - 1
         IN  only => /\ RecoveredName(s) \in DOMAIN dir'
                     /\ dir'[RecoveredName(s)] = s
                     /\ inode.length <= DIRECT_BLOCKS_COUNT /\ consecutive
                          => {s} \cup Range(data) \subseteq free_map'
      ]_allvars

-----------------------------------------------------------------------------
(***************************************************************************)
(* The inductive invariant: InodeAlloc's, for as long as recover does not  *)
(* interfere, and what defragment still needs to put the files back.       *)
(***************************************************************************)
\* The sectors of a file of num sectors, and whether an inode reaches them.
Cost(num) == 1 + num + PointerCount(num)
Reached(num) == num = InDirect(num) + InIndirect(num) + InDoubly(num)

TotalCost(files) ==
    LET total[n \in 0..Len(files)] == IF n = 0 THEN 0 ELSE total[n - 1] + Cost(files[n][2])
    IN  total[Len(files)]

\* Files that are not there, none of them twice, and there is room for all.
Restorable(files) ==
    /\ \A i \in DOMAIN files : files[i][1] \notin Files /\ Reached(files[i][2])
    /\ \A i, j \in DOMAIN files : files[i][1] = files[j][1] => i = j
    /\ TotalCost(files) <= Cardinality(Sectors \ free_map)

Defragments ==
    before # <<>> =>
        /\ phase # "restore" => writing = <<>>
        /\ writing # <<>> => /\ writing[1] \in Files /\ InodeOf(writing[1]).length = writing[2]
                             /\ DataAt(writing[1]) = InodeOf(writing[1])
        /\ Restorable(existing_files)

ExtIInv ==
    ~Recovered =>
        /\ IInv
        /\ Files \subseteq Names
        /\ existing_files \in Seq(Names \X Nat)
        /\ writing # <<>> => writing \in Names \X Nat
        /\ phase = "idle" => before = <<>> /\ existing_files = <<>>
        /\ MapInodeIntact => Defragments
        /\ TableInodesLive /\ DefragmentKeepsFiles
=============================================================================
