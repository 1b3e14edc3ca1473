----------------------------- MODULE InodeAlloc ------------------------------
(***************************************************************************)
(* Sector allocation of the a3 file system: the free map (free-map.c over  *)
(* bitmap.c), the direct, indirect and doubly indirect blocks of an inode  *)
(* (inode.c) and the calls of filesys.c and fsutil.c that create, extend,  *)
(* close and remove files.  Lengths are counted in sectors; what a data    *)
(* sector holds is left out, what a pointer block or an inode holds is not.*)
(* The root directory never has to grow.  inode_reopen does not count      *)
(* openers, so open_cnt is 1 from inode_open to the first inode_close,     *)
(* which frees the struct inode: being in open_inodes is all there is.     *)
(***************************************************************************)
EXTENDS Integers, Sequences, FiniteSets, SequencesExt

CONSTANTS
    Names,                       \* file names
    NumSectors,                  \* bits of the free map
    DIRECT_BLOCKS_COUNT,         \* 123 in the code
    INDIRECT_BLOCKS_PER_SECTOR,  \* 128 in the code
    Lengths                      \* bound: the lengths, in sectors, a file is given

ASSUME SizesAssumption ==
    /\ NumSectors \in Nat /\ NumSectors >= 4
    /\ DIRECT_BLOCKS_COUNT \in Nat \ {0}
    /\ INDIRECT_BLOCKS_PER_SECTOR \in Nat \ {0}
    /\ Lengths \subseteq Nat

VARIABLES
    free_map,    \* the marked bits: sectors in use
    map_file,    \* the bitmap in the free map's file
    disk,        \* what the cache presents for each sector
    dir,         \* the root directory: the inode sector of each file name
    open_inodes, \* the struct inodes in memory: the data each has, by sector
    file_table,  \* the names of the open files
    failed       \* ghost: the kinds of calls that have failed since do_format

vars == <<free_map, map_file, disk, dir, open_inodes, file_table, failed>>

Sectors == 0..(NumSectors - 1)
Direct == 0..(DIRECT_BLOCKS_COUNT - 1)
Pointers == 0..(INDIRECT_BLOCKS_PER_SECTOR - 1)
FREE_MAP_SECTOR == 0
ROOT_DIR_SECTOR == 1

ZeroInode == [direct_blocks |-> [i \in Direct |-> 0], indirect_block |-> 0,
              doubly_indirect_block |-> 0, length |-> 0, magic |-> FALSE]
NewInode(num) == [ZeroInode EXCEPT !.length = num, !.magic = TRUE]

\* A sector is read as a block of pointers or as an inode; zeros are both.
zeros == [blocks |-> [i \in Pointers |-> 0], inode |-> ZeroInode]
PointerSector(blocks) == [zeros EXCEPT !.blocks = blocks]
InodeSector(inode) == [zeros EXCEPT !.inode = inode]

\* The free map's file and the root directory, one sector of data each.
SystemInode(s) == [NewInode(1) EXCEPT !.direct_blocks[0] = s]
System == 0..3

Smaller(a, b) == IF a < b THEN a ELSE b
DivRoundUp(n, k) == (n + k - 1) \div k
UpTo(n) == [k \in 1..n |-> k - 1]
Bind(fn, k, v) == [x \in DOMAIN fn \cup {k} |-> IF x = k THEN v ELSE fn[x]]
Drop(fn, keys) == Restrict(fn, DOMAIN fn \ keys)

\* do_format
Init ==
    /\ free_map = System
    /\ map_file = System
    /\ disk = [s \in Sectors |-> CASE s = FREE_MAP_SECTOR -> InodeSector(SystemInode(2))
                                   [] s = ROOT_DIR_SECTOR -> InodeSector(SystemInode(3))
                                   [] OTHER -> zeros]
    /\ dir = <<>>
    /\ open_inodes = <<>>
    /\ file_table = {}
    /\ failed = {}

-----------------------------------------------------------------------------
\* Mutant: the highest clear bit.
bitmap_scan_down(map) ==
    LET clear == Sectors \ map
    IN  IF clear = {} THEN 0 ELSE CHOOSE s \in clear : \A t \in clear : s >= t

\* The lowest clear bit, or 0 when bitmap_scan finds none; *sectorp is then
\* left alone, and it was 0 at every caller.
bitmap_scan(map) ==
    LET clear == Sectors \ map
    IN  IF clear = {} THEN 0 ELSE CHOOSE s \in clear : \A t \in clear : s <= t

\* free_map_allocate found sector s, and its caller fills it with zeros.
Allocated(fs, s) == [map |-> fs.map \cup {s}, disk |-> [fs.disk EXCEPT ![s] = zeros]]

\* free_map_release of each of the given sectors.
free_map_release(sectors) == free_map \ sectors

\* Mutant: the bit is found but not flipped.
ReserveDataUnmarked(fs, p) ==
    LET s == bitmap_scan(fs.map)
    IN  CASE p # 0 -> [fs |-> fs, p |-> p, ok |-> TRUE]
          [] p = 0 /\ s = 0 -> [fs |-> fs, p |-> 0, ok |-> FALSE]
          [] p = 0 /\ s # 0 -> [fs |-> [fs EXCEPT !.disk[s] = zeros], p |-> s, ok |-> TRUE]

\* inode_reserve_indirect, level 0, and the loop of inode_reserve: one data
\* sector.  fs is the free map and the disk, p the pointer, ok the result.
ReserveData(fs, p) ==
    LET s == bitmap_scan(fs.map)
    IN  CASE p # 0 -> [fs |-> fs, p |-> p, ok |-> TRUE]
          [] p = 0 /\ s = 0 -> [fs |-> fs, p |-> 0, ok |-> FALSE]
          [] p = 0 /\ s # 0 -> [fs |-> Allocated(fs, s), p |-> s, ok |-> TRUE]

\* Its head, levels 1 and 2: the result of free_map_allocate is not looked at,
\* so on a full disk the zeros go to sector 0.
PointerBlock(fs, p) ==
    LET s == bitmap_scan(fs.map)
    IN  IF p # 0 THEN [fs |-> fs, p |-> p]
        ELSE [fs |-> Allocated(fs, s), p |-> s]

\* Its loop reserves num sub-blocks until one fails, as the loop of inode_reserve
\* does with the direct blocks: what it has done is the free map and the disk,
\* the pointers, and ok while nothing has failed.
Started(fs, blocks) == [fs |-> fs, blocks |-> blocks, ok |-> TRUE]
Stored(blocks, i, r) == [fs |-> r.fs, blocks |-> [blocks EXCEPT ![i] = r.p], ok |-> r.ok]

\* The pointers of a block are written back only if no sub-block failed.
WriteBack(p, done) ==
    [fs |-> IF done.ok
            THEN [map |-> done.fs.map, disk |-> [done.fs.disk EXCEPT ![p] = PointerSector(done.blocks)]]
            ELSE done.fs,
     p |-> p, ok |-> done.ok]

\* Data sectors for the first num pointers.
ReserveOne(done, i) ==
    IF done.ok THEN Stored(done.blocks, i, ReserveData(done.fs, done.blocks[i])) ELSE done

ReserveAll(fs, blocks, num) ==
    LET done[n \in 0..num] == IF n = 0 THEN Started(fs, blocks) ELSE ReserveOne(done[n - 1], n - 1)
    IN  done[num]

\* Level 1: the sub-blocks are data sectors.
inode_reserve_indirect_1(fs, p, num) ==
    LET b == PointerBlock(fs, p)
    IN  WriteBack(b.p, ReserveAll(b.fs, b.fs.disk[b.p].blocks, num))

\* How many of num sectors are below the i-th pointer of a level 2 block.
Subsize(num, i) == Smaller(num - i * INDIRECT_BLOCKS_PER_SECTOR, INDIRECT_BLOCKS_PER_SECTOR)

\* Pointer blocks of level 1, and what is below them, for num sectors.
ReserveOneBlock(done, i, num) ==
    IF done.ok
    THEN Stored(done.blocks, i, inode_reserve_indirect_1(done.fs, done.blocks[i], Subsize(num, i)))
    ELSE done

ReserveAllBlocks(fs, blocks, num) ==
    LET last == DivRoundUp(num, INDIRECT_BLOCKS_PER_SECTOR)
        done[n \in 0..last] == IF n = 0 THEN Started(fs, blocks)
                               ELSE ReserveOneBlock(done[n - 1], n - 1, num)
    IN  done[last]

\* Level 2: the sub-blocks are pointer blocks of level 1.
inode_reserve_indirect_2(fs, p, num) ==
    LET b == PointerBlock(fs, p)
    IN  WriteBack(b.p, ReserveAllBlocks(b.fs, b.fs.disk[b.p].blocks, num))

\* How many of num sectors are direct, indirect and doubly indirect.
InDirect(num) == Smaller(num, DIRECT_BLOCKS_COUNT)
InIndirect(num) == Smaller(num - InDirect(num), INDIRECT_BLOCKS_PER_SECTOR)
InDoubly(num) == Smaller(num - InDirect(num) - InIndirect(num),
                         INDIRECT_BLOCKS_PER_SECTOR * INDIRECT_BLOCKS_PER_SECTOR)

\* The three phases of inode_reserve.  st is the free map and the disk, the
\* inode, and ok while nothing has failed.
ReserveDirect(st, num) ==
    LET Put(done) == [fs |-> done.fs, inode |-> [st.inode EXCEPT !.direct_blocks = done.blocks],
                      ok |-> done.ok]
    IN  Put(ReserveAll(st.fs, st.inode.direct_blocks, InDirect(num)))

ReserveIndirect(st, num) ==
    LET Put(r) == [fs |-> r.fs, inode |-> [st.inode EXCEPT !.indirect_block = r.p], ok |-> r.ok]
    IN  IF ~st.ok \/ InIndirect(num) = 0 THEN st
        ELSE Put(inode_reserve_indirect_1(st.fs, st.inode.indirect_block, InIndirect(num)))

ReserveDoubly(st, num) ==
    LET Put(r) == [fs |-> r.fs, inode |-> [st.inode EXCEPT !.doubly_indirect_block = r.p], ok |-> r.ok]
    IN  IF ~st.ok \/ InDoubly(num) = 0 THEN st
        ELSE Put(inode_reserve_indirect_2(st.fs, st.inode.doubly_indirect_block, InDoubly(num)))

\* Whatever was reserved before a failure stays reserved; a file that is still
\* too long after the doubly indirect block is a failure too.
inode_reserve(fs, inode, num) ==
    LET Fits(st) == [st EXCEPT !.ok = @ /\ num = InDirect(num) + InIndirect(num) + InDoubly(num)]
    IN  Fits(ReserveDoubly(ReserveIndirect(ReserveDirect([fs |-> fs, inode |-> inode, ok |-> TRUE],
                                                         num), num), num))

-----------------------------------------------------------------------------
\* Mutant: the pointer block itself is not released.
IndirectEntries(d, p, num) == {d[p].blocks[i] : i \in 0..(num - 1)}

\* The sectors inode_deallocate releases: the data within the length and the
\* pointer blocks on the way to it.
IndirectBlocks(d, p, num) == {p} \cup {d[p].blocks[i] : i \in 0..(num - 1)}

DoublyBlocks(d, p, num) ==
    {p} \cup UNION {IndirectBlocks(d, d[p].blocks[i], Subsize(num, i)) :
                      i \in 0..(DivRoundUp(num, INDIRECT_BLOCKS_PER_SECTOR) - 1)}

inode_deallocate(d, inode) ==
    LET num == inode.length
    IN  {inode.direct_blocks[i] : i \in 0..(InDirect(num) - 1)}
        \cup (IF InIndirect(num) = 0 THEN {}
              ELSE IndirectBlocks(d, inode.indirect_block, InIndirect(num)))
        \cup (IF InDoubly(num) = 0 THEN {}
              ELSE DoublyBlocks(d, inode.doubly_indirect_block, InDoubly(num)))

\* Mutant: the two levels of the doubly indirect block are swapped.
index_to_sector_swapped(inode, index) ==
    LET inIndirect == index - DIRECT_BLOCKS_COUNT
        inDoubly == inIndirect - INDIRECT_BLOCKS_PER_SECTOR
    IN  CASE index < DIRECT_BLOCKS_COUNT -> inode.direct_blocks[index]
          [] inIndirect >= 0 /\ inDoubly < 0 -> disk[inode.indirect_block].blocks[inIndirect]
          [] inDoubly \in 0..(INDIRECT_BLOCKS_PER_SECTOR * INDIRECT_BLOCKS_PER_SECTOR - 1) ->
               LET first == disk[inode.doubly_indirect_block].blocks[inDoubly % INDIRECT_BLOCKS_PER_SECTOR]
               IN  disk[first].blocks[inDoubly \div INDIRECT_BLOCKS_PER_SECTOR]
          [] OTHER -> -1

\* index_to_sector: the sector of the index-th block of a file, -1 behind the
\* largest one.
index_to_sector(inode, index) ==
    LET inIndirect == index - DIRECT_BLOCKS_COUNT
        inDoubly == inIndirect - INDIRECT_BLOCKS_PER_SECTOR
    IN  CASE index < DIRECT_BLOCKS_COUNT -> inode.direct_blocks[index]
          [] inIndirect >= 0 /\ inDoubly < 0 -> disk[inode.indirect_block].blocks[inIndirect]
          [] inDoubly \in 0..(INDIRECT_BLOCKS_PER_SECTOR * INDIRECT_BLOCKS_PER_SECTOR - 1) ->
               LET first == disk[inode.doubly_indirect_block].blocks[inDoubly \div INDIRECT_BLOCKS_PER_SECTOR]
               IN  disk[first].blocks[inDoubly % INDIRECT_BLOCKS_PER_SECTOR]
          [] OTHER -> -1

\* get_inode_data_sectors: the same list, built block by block.
BlockList(p, num) == [i \in 1..num |-> disk[p].blocks[i - 1]]

DoublyList(p, num) ==
    LET last == DivRoundUp(num, INDIRECT_BLOCKS_PER_SECTOR)
        list[n \in 0..last] ==
            IF n = 0 THEN <<>>
            ELSE list[n - 1] \o BlockList(disk[p].blocks[n - 1], Subsize(num, n - 1))
    IN  list[last]

get_inode_data_sectors(inode) ==
    LET num == inode.length
    IN  [i \in 1..InDirect(num) |-> inode.direct_blocks[i - 1]]
        \o (IF InIndirect(num) = 0 THEN <<>> ELSE BlockList(inode.indirect_block, InIndirect(num)))
        \o (IF InDoubly(num) = 0 THEN <<>> ELSE DoublyList(inode.doubly_indirect_block, InDoubly(num)))

-----------------------------------------------------------------------------
FS == [map |-> free_map, disk |-> disk]

\* dir_add refuses a name that is in use.
dir_add(d, name, inode_sector) == IF name \in DOMAIN d THEN d ELSE Bind(d, name, inode_sector)

\* filesys_create of a file of num sectors: inode sector s, inode_create with
\* the result r of inode_reserve, dir_add.  A failure gives back the inode
\* sector only.  Every allocation and release writes the bitmap to its file.
Create(f, s, r) ==
    LET success == r.ok /\ f \notin DOMAIN dir
        marked == IF success THEN r.fs.map ELSE r.fs.map \ {s}
    IN  /\ free_map' = marked /\ map_file' = marked
        /\ disk' = IF r.ok THEN [r.fs.disk EXCEPT ![s] = InodeSector(r.inode)] ELSE r.fs.disk
        /\ dir' = IF r.ok THEN dir_add(dir, f, s) ELSE dir
        /\ failed' = IF success THEN failed ELSE failed \cup {"create"}

Created(f, num) ==
    LET s == bitmap_scan(free_map)
    IN  \/ /\ s # 0
           /\ Create(f, s, inode_reserve([map |-> free_map \cup {s}, disk |-> disk], NewInode(num), num))
        \/ /\ s = 0
           /\ failed' = failed \cup {"create"}
           /\ UNCHANGED <<free_map, map_file, disk, dir>>

filesys_create(f, num) == Created(f, num) /\ UNCHANGED <<open_inodes, file_table>>

\* inode_open: the struct inode for a sector, the one in memory if there is one.
DataOf(s) == IF s \in DOMAIN open_inodes THEN open_inodes[s] ELSE disk[s].inode

\* fsutil_read, fsutil_seek, fsutil_size: the file gets into the file table.
inode_open(f) ==
    /\ f \in DOMAIN dir \ file_table
    /\ open_inodes' = Bind(open_inodes, dir[f], DataOf(dir[f]))
    /\ file_table' = file_table \cup {f}
    /\ UNCHANGED <<free_map, map_file, disk, dir, failed>>

\* Mutant: the extended inode is not written back.
ExtendUnwritten(f, num, r) ==
    LET kept == IF r.ok THEN [r.inode EXCEPT !.length = num] ELSE r.inode
    IN  /\ free_map' = r.fs.map
        /\ map_file' = r.fs.map
        /\ disk' = r.fs.disk
        /\ open_inodes' = Bind(open_inodes, dir[f], kept)
        /\ file_table' = file_table \cup {f}
        /\ failed' = IF r.ok THEN failed ELSE failed \cup {"write"}

\* fsutil_write past the end: inode_write_at extends the file to num sectors,
\* as many as it has when it grows within its last sector.  The inode in memory
\* keeps what a failed inode_reserve put into it; it goes to the disk with the
\* next write past the end that succeeds.
Extend(f, num, r) ==
    LET kept == IF r.ok THEN [r.inode EXCEPT !.length = num] ELSE r.inode
    IN  /\ free_map' = r.fs.map
        /\ map_file' = IF r.fs.map = free_map THEN map_file ELSE r.fs.map
        /\ disk' = IF r.ok THEN [r.fs.disk EXCEPT ![dir[f]] = InodeSector(kept)] ELSE r.fs.disk
        /\ open_inodes' = Bind(open_inodes, dir[f], kept)
        /\ file_table' = file_table \cup {f}
        /\ failed' = IF r.ok THEN failed ELSE failed \cup {"write"}

inode_write_at(f, num) ==
    /\ f \in DOMAIN dir
    /\ num > 0 /\ num >= DataOf(dir[f]).length
    /\ Extend(f, num, inode_reserve(FS, DataOf(dir[f]), num))
    /\ UNCHANGED dir

\* fsutil_close
inode_close(f) ==
    /\ f \in file_table
    /\ open_inodes' = Drop(open_inodes, {dir[f]})
    /\ file_table' = file_table \ {f}
    /\ UNCHANGED <<free_map, map_file, disk, dir, failed>>

\* fsutil_rm: the file table lets go of the file and of its struct inode;
\* filesys_remove opens the inode again, which reads the disk unless a struct
\* inode is there, erases the entry and releases the sectors.
filesys_remove(f) ==
    LET inode == IF f \in file_table THEN disk[dir[f]].inode ELSE DataOf(dir[f])
    IN  /\ f \in DOMAIN dir
        /\ open_inodes' = Drop(open_inodes, {dir[f]})
        /\ file_table' = file_table \ {f}
        /\ dir' = Drop(dir, {f})
        /\ free_map' = free_map_release({dir[f]} \cup inode_deallocate(disk, inode))
        /\ map_file' = free_map'
        /\ UNCHANGED <<disk, failed>>

\* quit (filesys_done) and a new start (filesys_init without format): the free
\* map is read back through the inode in sector 0.
MapInodeIntact == disk[FREE_MAP_SECTOR] = InodeSector(SystemInode(2))

\* Mutant: the map is not read back.
RestartNoRead ==
    /\ open_inodes' = <<>>
    /\ file_table' = {}
    /\ free_map' = {FREE_MAP_SECTOR, ROOT_DIR_SECTOR}
    /\ UNCHANGED <<map_file, disk, dir, failed>>

Restart ==
    /\ open_inodes' = <<>>
    /\ file_table' = {}
    /\ free_map' = IF MapInodeIntact THEN map_file ELSE {FREE_MAP_SECTOR, ROOT_DIR_SECTOR}
    /\ UNCHANGED <<map_file, disk, dir, failed>>

FileCall ==
    \/ \E f \in Names, num \in Lengths : filesys_create(f, num)
    \/ \E f \in DOMAIN dir, num \in Lengths : inode_write_at(f, num)
    \/ \E f \in DOMAIN dir : inode_open(f) \/ inode_close(f) \/ filesys_remove(f)

Next == FileCall \/ Restart

Spec == Init /\ [][Next]_vars

-----------------------------------------------------------------------------
Files == DOMAIN dir
InodeOf(f) == disk[dir[f]].inode

\* The sectors of a file: its inode, everything its length covers, and what
\* the inode in memory points to.
Held(f) == IF dir[f] \notin DOMAIN open_inodes THEN {}
           ELSE LET inode == open_inodes[dir[f]]
                IN  ({inode.direct_blocks[i] : i \in Direct}
                     \cup {inode.indirect_block, inode.doubly_indirect_block}) \ {0}
Owned(f) == {dir[f]} \cup inode_deallocate(disk, InodeOf(f)) \cup Held(f)

\* Pointer blocks of a file of num sectors.
PointerCount(num) == (IF InIndirect(num) > 0 THEN 1 ELSE 0)
                     + (IF InDoubly(num) > 0
                        THEN 1 + DivRoundUp(InDoubly(num), INDIRECT_BLOCKS_PER_SECTOR) ELSE 0)

\* Type correctness of the free map, the disk and the open inodes.
InodeType == [direct_blocks : [Direct -> Sectors], indirect_block : Sectors,
              doubly_indirect_block : Sectors, length : Nat, magic : BOOLEAN]
TypeOK ==
    /\ free_map \subseteq Sectors
    /\ \A s \in Sectors : /\ disk[s].blocks \in [Pointers -> Sectors]
                          /\ disk[s].inode \in InodeType
    /\ map_file \subseteq Sectors
    /\ \A f \in Files : dir[f] \in Sectors
    /\ \A s \in DOMAIN open_inodes : s \in Sectors /\ open_inodes[s] \in InodeType
    /\ file_table \subseteq Files
    /\ failed \subseteq {"create", "write"}

\* No sector is part of two files, or of one file twice, or of a file and of
\* the file system itself, after any sequence of failed and successful calls,
\* as long as the free map's own inode is intact.
NoSharedSector ==
    MapInodeIntact =>
        \A f \in Files :
            /\ Owned(f) \cap System = {}
            /\ Cardinality({dir[f]} \cup inode_deallocate(disk, InodeOf(f)))
                 = 1 + InodeOf(f).length + PointerCount(InodeOf(f).length)
            /\ \A g \in Files \ {f} : Owned(f) \cap Owned(g) = {}

\* The file table and the directory only lead to sectors of the disk, and a
\* sector that a file uses is never free for free_map_allocate to hand out.
OwnedIsMarked ==
    /\ TypeOK
    /\ MapInodeIntact => \A f \in Files : Owned(f) \subseteq free_map

\* As long as no call has failed, the free map marks exactly the sectors of
\* the system and of the files: nothing is lost by extending, closing,
\* reopening and removing.
NothingLost == failed = {} => free_map = System \cup UNION {Owned(f) : f \in Files}

\* get_inode_data_sectors lists the sectors index_to_sector finds one by one.
SectorListsAgree ==
    MapInodeIntact =>
        \A f \in Files :
            get_inode_data_sectors(InodeOf(f))
              = [i \in 1..InodeOf(f).length |-> index_to_sector(InodeOf(f), i - 1)]

\* "Sectors of system file inodes": sector 0 keeps the free map's inode.
SystemInodesIntact == MapInodeIntact

-----------------------------------------------------------------------------
(***************************************************************************)
(* The inductive invariant.  An inode leads to a tree of sectors, whatever *)
(* its length; a pointer that is 0 leads nowhere.                          *)
(***************************************************************************)
SectorType == [blocks : [Pointers -> Sectors], inode : InodeType]
FsType == [map : SUBSET Sectors, disk : [Sectors -> SectorType]]

Entries(blocks) == {blocks[i] : i \in DOMAIN blocks} \ {0}
Tree1(d, p) == IF p = 0 THEN {} ELSE {p} \cup Entries(d[p].blocks)
Tree2(d, p) == IF p = 0 THEN {} ELSE {p} \cup UNION {Tree1(d, d[p].blocks[i]) : i \in Pointers}
Tree(d, inode) == Entries(inode.direct_blocks) \cup Tree1(d, inode.indirect_block)
                  \cup Tree2(d, inode.doubly_indirect_block)

\* No sector is twice in a tree.
Once(blocks) == \A i, j \in DOMAIN blocks : blocks[i] = blocks[j] /\ blocks[i] # 0 => i = j
Proper1(d, p) == p # 0 => Once(d[p].blocks) /\ p \notin Entries(d[p].blocks)
Apart1(d, blocks) ==
    /\ \A i \in Pointers : Proper1(d, blocks[i])
    /\ \A i, j \in Pointers : i # j => Tree1(d, blocks[i]) \cap Tree1(d, blocks[j]) = {}
Proper2(d, p) ==
    p # 0 => Apart1(d, d[p].blocks) /\ \A i \in Pointers : p \notin Tree1(d, d[p].blocks[i])
Proper(d, inode) ==
    /\ Once(inode.direct_blocks)
    /\ Proper1(d, inode.indirect_block)
    /\ Proper2(d, inode.doubly_indirect_block)
    /\ Entries(inode.direct_blocks) \cap Tree1(d, inode.indirect_block) = {}
    /\ Entries(inode.direct_blocks) \cap Tree2(d, inode.doubly_indirect_block) = {}
    /\ Tree1(d, inode.indirect_block) \cap Tree2(d, inode.doubly_indirect_block) = {}

\* The length of a file is covered: there is a sector for each of its blocks.
Filled0(blocks, num) == \A i \in 0..(num - 1) : blocks[i] # 0
Filled1(d, p, num) == p # 0 /\ Filled0(d[p].blocks, num)
Filled2(d, p, num) ==
    /\ p # 0
    /\ \A i \in 0..(DivRoundUp(num, INDIRECT_BLOCKS_PER_SECTOR) - 1) :
          Filled1(d, d[p].blocks[i], Subsize(num, i))
Filled(d, inode, num) ==
    /\ num = InDirect(num) + InIndirect(num) + InDoubly(num)
    /\ Filled0(inode.direct_blocks, InDirect(num))
    /\ InIndirect(num) # 0 => Filled1(d, inode.indirect_block, InIndirect(num))
    /\ InDoubly(num) # 0 => Filled2(d, inode.doubly_indirect_block, InDoubly(num))

\* The inode in memory has what the inode on the disk has, and perhaps more.
Keeps(old, new) == old # 0 => new = old
Extends(old, new) ==
    /\ \A i \in Direct : Keeps(old.direct_blocks[i], new.direct_blocks[i])
    /\ Keeps(old.indirect_block, new.indirect_block)
    /\ Keeps(old.doubly_indirect_block, new.doubly_indirect_block)
    /\ old.length = new.length

DataAt(f) == DataOf(dir[f])
All(f) == {dir[f]} \cup Tree(disk, DataAt(f))

\* A file whose inode is in sector s, with its struct inode.
Stores(map, d, s, inode, data) ==
    /\ s \notin Tree(d, data)
    /\ {s} \cup Tree(d, data) \subseteq map \ System
    /\ Proper(d, data)
    /\ Filled(d, inode, inode.length)
    /\ Extends(inode, data)
FileOK(f) == Stores(free_map, disk, dir[f], InodeOf(f), DataAt(f))

\* While the free map's inode is there.
Sound ==
    /\ map_file = free_map
    /\ System \subseteq free_map
    /\ DOMAIN open_inodes \subseteq {dir[f] : f \in Files}
    /\ \A f \in Files : (f \in file_table /\ "write" \in failed) \/ DataAt(f) = InodeOf(f)
    /\ \A f \in Files : FileOK(f)
    /\ \A f, g \in Files : f # g => All(f) \cap All(g) = {}

\* While nothing has failed.
Exact ==
    /\ MapInodeIntact
    /\ \A f \in Files : /\ DataAt(f) = InodeOf(f)
                       /\ All(f) \subseteq {dir[f]} \cup inode_deallocate(disk, InodeOf(f))
    /\ free_map \subseteq System \cup UNION {All(f) : f \in Files}

Typed ==
    /\ free_map \subseteq Sectors
    /\ map_file \subseteq Sectors
    /\ disk \in [Sectors -> SectorType]
    /\ dir \in [Files -> Sectors \ {0}]
    /\ open_inodes \in [DOMAIN open_inodes -> InodeType]
    /\ DOMAIN open_inodes \subseteq Sectors
    /\ file_table \subseteq Files
    /\ failed \subseteq {"create", "write"}

IInv == Typed /\ (MapInodeIntact => Sound) /\ (failed = {} => Exact)
=============================================================================
