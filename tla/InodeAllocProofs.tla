-------------------------- MODULE InodeAllocProofs ---------------------------
(***************************************************************************)
(* Proofs about InodeAlloc, for every size of the disk, of the inode and   *)
(* of a pointer block: the invariant IInv, and from it the properties the  *)
(* runs check.  The loops that reserve sectors are shown correct one level *)
(* after the other.                                                        *)
(***************************************************************************)
EXTENDS InodeAlloc, CountingLemmas, SequenceTheorems

\* A disk with the free map's inode; MapInodeIntact says it of disk.
Intact(d) == d[0] = InodeSector(SystemInode(2))

\* A disk without the free map's inode does not get it back.
Stays(fs, fs2) == Intact(fs2.disk) => Intact(fs.disk)

\* What a loop that reserves sectors goes through, and what a block returns.
DoneType(size) == [fs : FsType, blocks : [0..(size - 1) -> Sectors], ok : BOOLEAN]
ResultType == [fs : FsType, p : Sectors, ok : BOOLEAN]

\* What a sector is given is a sector's contents.
LEMMA SectorTypes ==
    /\ 0 \in Sectors /\ ZeroInode \in InodeType /\ zeros \in SectorType
    /\ \A b \in [Pointers -> Sectors] : PointerSector(b) \in SectorType /\ PointerSector(b).blocks = b
    /\ \A inode \in InodeType : InodeSector(inode) \in SectorType /\ InodeSector(inode).inode = inode
    /\ \A n \in Nat : NewInode(n) \in InodeType
<1>1. 0 \in Sectors
  BY SizesAssumption DEF Sectors
<1>2. ZeroInode \in InodeType
  BY <1>1 DEF ZeroInode, InodeType
<1>3. zeros \in SectorType
  BY <1>1, <1>2 DEF zeros, SectorType
<1>4. ASSUME NEW b \in [Pointers -> Sectors] PROVE PointerSector(b) \in SectorType /\ PointerSector(b).blocks = b
  BY <1>2 DEF PointerSector, zeros, SectorType
<1>5. ASSUME NEW inode \in InodeType PROVE InodeSector(inode) \in SectorType /\ InodeSector(inode).inode = inode
  BY <1>1 DEF InodeSector, zeros, SectorType
<1>6. ASSUME NEW n \in Nat PROVE NewInode(n) \in InodeType
  BY <1>2 DEF NewInode, InodeType
<1> QED
  BY <1>1, <1>2, <1>3, <1>4, <1>5, <1>6

\* Neither zeros nor pointers are the free map's inode.
LEMMA Overwritten ==
    /\ zeros # InodeSector(SystemInode(2))
    /\ \A b : PointerSector(b) # InodeSector(SystemInode(2))
<1>1. InodeSector(SystemInode(2)).inode.magic = TRUE
  BY DEF InodeSector, SystemInode, NewInode, ZeroInode, zeros
<1>2. zeros.inode.magic = FALSE
  BY DEF zeros, ZeroInode
<1>3. \A b : PointerSector(b).inode.magic = FALSE
  BY DEF PointerSector, zeros, ZeroInode
<1> QED
  BY <1>1, <1>2, <1>3, Zenon

\* bitmap_scan finds a sector that is not in use, or the map is full.
LEMMA Scan ==
    ASSUME NEW map
    PROVE  /\ bitmap_scan(map) \in Sectors
           /\ bitmap_scan(map) # 0 => bitmap_scan(map) \notin map
           /\ bitmap_scan(map) = 0 /\ 0 \in map => Sectors \subseteq map
<1> DEFINE clear == Sectors \ map
<1>1. CASE clear = {}
  <2>1. bitmap_scan(map) = 0
    BY <1>1 DEF bitmap_scan
  <2> QED
    BY <2>1, <1>1, SectorTypes
<1>2. CASE clear # {}
  <2>1. clear \in SUBSET Nat
    BY SizesAssumption DEF Sectors
  <2>2. \E s \in clear : \A t \in clear : s <= t
    <3> HIDE DEF clear
    <3> QED
      BY <2>1, <1>2, LeastNat
  <2>3. bitmap_scan(map) \in clear
    <3>1. bitmap_scan(map) = CHOOSE s \in clear : \A t \in clear : s <= t
      BY <1>2 DEF bitmap_scan
    <3> QED
      BY <2>2, <3>1
  <2> QED
    BY <2>3
<1> QED
  BY <1>1, <1>2

\* free_map_allocate and the zeros of its caller.
LEMMA AllocatedType ==
    ASSUME NEW fs \in FsType, NEW s \in Sectors
    PROVE  /\ Allocated(fs, s) \in FsType
           /\ Allocated(fs, s).map = fs.map \cup {s}
           /\ Allocated(fs, s).disk[s] = zeros
           /\ \A t \in Sectors : t # s => Allocated(fs, s).disk[t] = fs.disk[t]
           /\ Stays(fs, Allocated(fs, s))
<1>1. Allocated(fs, s) \in FsType
  BY SectorTypes DEF Allocated, FsType
<1>2. /\ Allocated(fs, s).map = fs.map \cup {s}
      /\ Allocated(fs, s).disk[s] = zeros
      /\ \A t \in Sectors : t # s => Allocated(fs, s).disk[t] = fs.disk[t]
  BY DEF Allocated, FsType
<1>3. Stays(fs, Allocated(fs, s))
  BY <1>2, Overwritten, SectorTypes DEF Stays, Intact
<1> QED
  BY <1>1, <1>2, <1>3

\* The data sector of one pointer.
LEMMA ReserveDataType ==
    ASSUME NEW fs \in FsType, NEW p \in Sectors
    PROVE  ReserveData(fs, p) \in ResultType /\ Stays(fs, ReserveData(fs, p).fs)
<1> DEFINE s == bitmap_scan(fs.map)
<1>1. s \in Sectors
  BY Scan
<1>2. CASE p # 0
  <2>1. ReserveData(fs, p) = [fs |-> fs, p |-> p, ok |-> TRUE]
    BY <1>2 DEF ReserveData
  <2> QED
    BY <2>1 DEF ResultType, Stays
<1>3. CASE p = 0 /\ s = 0
  <2>1. ReserveData(fs, p) = [fs |-> fs, p |-> 0, ok |-> FALSE]
    BY <1>3 DEF ReserveData
  <2> QED
    BY <2>1, <1>3 DEF ResultType, Stays
<1>4. CASE p = 0 /\ s # 0
  <2>1. ReserveData(fs, p) = [fs |-> Allocated(fs, s), p |-> s, ok |-> TRUE]
    BY <1>4 DEF ReserveData
  <2> QED
    BY <2>1, <1>1, AllocatedType DEF ResultType
<1> QED
  BY <1>2, <1>3, <1>4

\* The head of inode_reserve_indirect.
LEMMA PointerBlockType ==
    ASSUME NEW fs \in FsType, NEW p \in Sectors
    PROVE  /\ PointerBlock(fs, p).fs \in FsType /\ PointerBlock(fs, p).p \in Sectors
           /\ Stays(fs, PointerBlock(fs, p).fs)
<1> DEFINE s == bitmap_scan(fs.map)
<1>1. s \in Sectors
  BY Scan
<1>2. CASE p # 0
  <2>1. PointerBlock(fs, p) = [fs |-> fs, p |-> p]
    BY <1>2 DEF PointerBlock
  <2> QED
    BY <2>1 DEF Stays
<1>3. CASE p = 0
  <2>1. PointerBlock(fs, p) = [fs |-> Allocated(fs, s), p |-> s]
    BY <1>3 DEF PointerBlock
  <2> QED
    BY <2>1, <1>1, AllocatedType
<1> QED
  BY <1>2, <1>3

\* One turn of a loop that stores its result.
LEMMA StoredType ==
    ASSUME NEW size \in Nat, NEW done \in DoneType(size), NEW i \in 0..(size - 1), NEW r \in ResultType
    PROVE  Stored(done.blocks, i, r) \in DoneType(size) /\ Stored(done.blocks, i, r).fs = r.fs
  BY DEF DoneType, ResultType, Stored

\* The end of inode_reserve_indirect.
LEMMA WriteBackType ==
    ASSUME NEW p \in Sectors, NEW done \in DoneType(INDIRECT_BLOCKS_PER_SECTOR)
    PROVE  WriteBack(p, done) \in ResultType /\ Stays(done.fs, WriteBack(p, done).fs)
<1>1. done.blocks \in [Pointers -> Sectors] /\ done.fs \in FsType /\ done.ok \in BOOLEAN
  BY DEF DoneType, Pointers
<1> DEFINE new == [map |-> done.fs.map, disk |-> [done.fs.disk EXCEPT ![p] = PointerSector(done.blocks)]]
<1>2. new \in FsType /\ Stays(done.fs, new)
  <2>1. PointerSector(done.blocks) \in SectorType
    BY <1>1, SectorTypes
  <2>2. new \in FsType
    BY <1>1, <2>1 DEF FsType
  <2>3. new.disk[0] = IF p = 0 THEN PointerSector(done.blocks) ELSE done.fs.disk[0]
    BY <1>1, SectorTypes DEF FsType
  <2> HIDE DEF new
  <2> QED
    BY <2>2, <2>3, Overwritten DEF Stays, Intact
<1>3. WriteBack(p, done) = [fs |-> IF done.ok THEN new ELSE done.fs, p |-> p, ok |-> done.ok]
  BY DEF WriteBack
<1>4. Stays(done.fs, done.fs)
  BY DEF Stays
<1> HIDE DEF new
<1> QED
  BY <1>1, <1>2, <1>3, <1>4 DEF ResultType

\* The steps of the loop over data sectors.
Turns(done, fs, blocks, num) ==
    done[0] = Started(fs, blocks) /\ \A n \in 1..num : done[n] = ReserveOne(done[n - 1], n - 1)

\* One of them.
LEMMA ReserveOneType ==
    ASSUME NEW size \in Nat, NEW done \in DoneType(size), NEW i \in 0..(size - 1)
    PROVE  ReserveOne(done, i) \in DoneType(size) /\ Stays(done.fs, ReserveOne(done, i).fs)
<1>1. CASE ~done.ok
  BY <1>1 DEF ReserveOne, Stays
<1>2. CASE done.ok
  <2>1. done.fs \in FsType /\ done.blocks[i] \in Sectors
    BY DEF DoneType
  <2>2. ReserveOne(done, i) = Stored(done.blocks, i, ReserveData(done.fs, done.blocks[i]))
    BY <1>2 DEF ReserveOne
  <2>3. /\ ReserveData(done.fs, done.blocks[i]) \in ResultType
        /\ Stays(done.fs, ReserveData(done.fs, done.blocks[i]).fs)
    BY <2>1, ReserveDataType
  <2> QED
    BY <2>2, <2>3, StoredType
<1> QED
  BY <1>1, <1>2

\* There are such steps, and ReserveAll is what the last one leaves.
LEMMA ReserveAllTurns ==
    ASSUME NEW size \in Nat, NEW fs \in FsType, NEW blocks \in [0..(size - 1) -> Sectors],
           NEW num \in Nat, num <= size
    PROVE  \E done \in [0..num -> DoneType(size)] :
               Turns(done, fs, blocks, num) /\ ReserveAll(fs, blocks, num) = done[num]
<1> DEFINE S == DoneType(size)
           x == Started(fs, blocks)
           Next1(st, n) == ReserveOne(st, n - 1)
           G(h) == [n \in 0..num |-> IF n = 0 THEN x ELSE ReserveOne(h[n - 1], n - 1)]
           all == CHOOSE h : h = G(h)
           g == [n \in 1..num |-> [s \in S |-> ReserveOne(s, n - 1)]]
<1>1. x \in S
  BY DEF Started, DoneType
<1>2. \A s \in S, n \in 1..num : ReserveOne(s, n - 1) \in S
  <2>1. \A n \in 1..num : n - 1 \in 0..(size - 1)
    OBVIOUS
  <2> QED
    BY <2>1, ReserveOneType
<1> HIDE DEF S, x
<1>3. g \in [1..num -> [S -> S]]
  BY <1>2
<1>4. \A n \in 1..num, s \in S : g[n][s] = ReserveOne(s, n - 1)
  OBVIOUS
<1> HIDE DEF g
<1>5. PICK h \in [0..num -> S] : Iterates(h, num, x, g)
  BY <1>1, <1>3, Iteration
<1>6. h[0] = x /\ \A n \in 1..num : h[n] = ReserveOne(h[n - 1], n - 1)
  <2>1. h[0] = x /\ \A n \in 1..num : h[n] = g[n][h[n - 1]]
    BY <1>5 DEF Iterates
  <2>2. \A n \in 1..num : h[n - 1] \in S
    BY <1>5
  <2>3. ASSUME NEW n \in 1..num  PROVE h[n] = ReserveOne(h[n - 1], n - 1)
    <3>1. PICK s \in S : s = h[n - 1]
      BY <2>2
    <3>2. g[n][s] = ReserveOne(s, n - 1)
      BY <1>4
    <3> QED
      BY <2>1, <3>1, <3>2
  <2> QED
    BY <2>1, <2>3
<1>7. h = G(h)
  <2>1. \A n \in 0..num : n = 0 \/ n \in 1..num
    OBVIOUS
  <2> QED
    BY <1>5, <1>6, <2>1
<1>8. all = G(all)
  <2> HIDE DEF G
  <2> QED
    BY <1>7, ZenonT(60)
<1>9. ReserveAll(fs, blocks, num) = all[num]
  BY ZenonT(60) DEF ReserveAll, x
<1> HIDE DEF all
<1>10. all[0] = x /\ \A n \in 1..num : all[n] = ReserveOne(all[n - 1], n - 1)
  <2>1. \A n \in 1..num : n \in 0..num /\ n # 0
    OBVIOUS
  <2>2. 0 \in 0..num
    OBVIOUS
  <2> QED
    BY <1>8, <2>1, <2>2
<1>11. \A n \in 0..num : all[n] \in S
  <2>1. \A n \in 1..num : all[n - 1] \in S => all[n] \in S
    BY <1>2, <1>10
  <2> QED
    BY <2>1, <1>1, <1>10, Kept
<1>12. all \in [0..num -> S]
  BY <1>8, <1>11
<1>13. Turns(all, fs, blocks, num)
  BY <1>10 DEF Turns, x
<1> QED
  BY <1>9, <1>12, <1>13 DEF S

\* The result of the loop.
LEMMA ReserveAllType ==
    ASSUME NEW size \in Nat, NEW fs \in FsType, NEW blocks \in [0..(size - 1) -> Sectors],
           NEW num \in Nat, num <= size
    PROVE  ReserveAll(fs, blocks, num) \in DoneType(size) /\ Stays(fs, ReserveAll(fs, blocks, num).fs)
<1>1. PICK done \in [0..num -> DoneType(size)] :
          Turns(done, fs, blocks, num) /\ ReserveAll(fs, blocks, num) = done[num]
  BY ReserveAllTurns
<1> DEFINE S == {x \in DoneType(size) : Stays(fs, x.fs)}
<1>2. done[0] \in S
  BY <1>1 DEF Turns, Started, Stays, DoneType
<1>3. ASSUME NEW n \in 1..num, done[n - 1] \in S PROVE done[n] \in S
  <2>1. done[n - 1] \in DoneType(size) /\ Stays(fs, done[n - 1].fs) /\ n - 1 \in 0..(size - 1)
    BY <1>3
  <2>2. done[n] = ReserveOne(done[n - 1], n - 1)
    BY <1>1 DEF Turns
  <2>3. done[n] \in DoneType(size) /\ Stays(done[n - 1].fs, done[n].fs)
    BY <2>1, <2>2, ReserveOneType
  <2> QED
    BY <2>1, <2>3 DEF Stays
<1>4. \A n \in 0..num : done[n] \in S
  <2> HIDE DEF S
  <2> QED
    BY <1>2, <1>3, Kept
<1> QED
  BY <1>1, <1>4

\* inode_reserve_indirect, level 1.
LEMMA Reserve1Type ==
    ASSUME NEW fs \in FsType, NEW p \in Sectors, NEW num \in 0..INDIRECT_BLOCKS_PER_SECTOR
    PROVE  /\ inode_reserve_indirect_1(fs, p, num) \in ResultType
           /\ Stays(fs, inode_reserve_indirect_1(fs, p, num).fs)
<1> DEFINE b == PointerBlock(fs, p)
           done == ReserveAll(b.fs, b.fs.disk[b.p].blocks, num)
<1>0. INDIRECT_BLOCKS_PER_SECTOR \in Nat /\ num \in Nat /\ num <= INDIRECT_BLOCKS_PER_SECTOR
  BY SizesAssumption
<1>1. b.fs \in FsType /\ b.p \in Sectors /\ Stays(fs, b.fs)
  BY PointerBlockType
<1>2. b.fs.disk[b.p].blocks \in [Pointers -> Sectors]
  BY <1>1 DEF FsType, SectorType
<1>3. inode_reserve_indirect_1(fs, p, num) = WriteBack(b.p, done)
  BY DEF inode_reserve_indirect_1
<1> HIDE DEF b
<1>4. done \in DoneType(INDIRECT_BLOCKS_PER_SECTOR) /\ Stays(b.fs, done.fs)
  BY <1>0, <1>1, <1>2, ReserveAllType DEF Pointers
<1> HIDE DEF done
<1>5. WriteBack(b.p, done) \in ResultType /\ Stays(done.fs, WriteBack(b.p, done).fs)
  BY <1>1, <1>4, WriteBackType
<1> QED
  BY <1>1, <1>3, <1>4, <1>5 DEF Stays

\* A product grows with its factor.
LEMMA Times ==
    ASSUME NEW k \in Nat, NEW q \in Nat, NEW n \in Nat
    PROVE  /\ q * k \in Nat
           /\ q < n => q * k + k <= n * k
           /\ q <= n => q * k <= n * k
<1>1. \A a \in Nat : a * k \in Nat
  OBVIOUS
<1>2. ASSUME q < n PROVE q * k + k <= n * k
  <2>1. PICK a \in Nat : n = q + 1 + a
    <3>1. n - q - 1 \in Nat /\ n = q + 1 + (n - q - 1)
      BY <1>2
    <3> QED
      BY <3>1
  <2>2. n * k = q * k + k + a * k
    BY <2>1
  <2> QED
    BY <2>2, <1>1
<1> QED
  BY <1>1, <1>2

\* DIV_ROUND_UP(n, k) is the number of blocks of k that start below n.
LEMMA RoundUp ==
    ASSUME NEW k \in Nat, k > 0, NEW n \in Nat
    PROVE  /\ DivRoundUp(n, k) \in Nat
           /\ \A i \in Nat : i < DivRoundUp(n, k) <=> i * k < n
<1> DEFINE m == n + k - 1
           q == m \div k
           r == m % k
<1>1. m \in Nat
  OBVIOUS
<1>2. q \in Nat /\ r \in 0..(k - 1) /\ m = k * q + r
  <2> HIDE DEF m
  <2> QED
    BY <1>1
<1>3. DivRoundUp(n, k) = q
  BY DEF DivRoundUp
<1> HIDE DEF q, r
<1>4. q * k \in Nat /\ q * k = n + k - 1 - r
  <2>1. q * k \in Nat /\ q * k = k * q
    BY <1>2
  <2> QED
    BY <2>1, <1>2
<1>5. ASSUME NEW i \in Nat PROVE i < q <=> i * k < n
  <2>1. /\ i * k \in Nat
        /\ i < q => i * k + k <= q * k
        /\ q <= i => q * k <= i * k
    BY <1>2, Times
  <2> QED
    BY <2>1, <1>4, <1>2
<1> QED
  BY <1>2, <1>3, <1>5

\* How many pointer blocks num sectors need and how many sectors each covers.
LEMMA Subsizes ==
    ASSUME NEW num \in Nat
    PROVE  /\ DivRoundUp(num, INDIRECT_BLOCKS_PER_SECTOR) \in Nat
           /\ num <= INDIRECT_BLOCKS_PER_SECTOR * INDIRECT_BLOCKS_PER_SECTOR
                => DivRoundUp(num, INDIRECT_BLOCKS_PER_SECTOR) <= INDIRECT_BLOCKS_PER_SECTOR
           /\ num >= 1 => DivRoundUp(num, INDIRECT_BLOCKS_PER_SECTOR) >= 1
           /\ \A i \in 0..(DivRoundUp(num, INDIRECT_BLOCKS_PER_SECTOR) - 1) :
                  Subsize(num, i) \in 1..INDIRECT_BLOCKS_PER_SECTOR
<1>1. PICK k \in Nat : k = INDIRECT_BLOCKS_PER_SECTOR /\ k > 0
  BY SizesAssumption
<1>2. PICK last \in Nat : last = DivRoundUp(num, k) /\ \A i \in Nat : i < last <=> i * k < num
  BY <1>1, RoundUp
<1>3. k * k \in Nat /\ (num <= k * k => last <= k)
  <2>1. k * k \in Nat
    BY <1>1
  <2>2. k < last <=> k * k < num
    BY <1>2
  <2> QED
    BY <2>1, <2>2
<1>4. num >= 1 => last >= 1
  <2>1. 0 < last <=> 0 * k < num
    BY <1>2
  <2>2. 0 * k = 0
    OBVIOUS
  <2> QED
    BY <2>1, <2>2
<1>5. ASSUME NEW i \in 0..(last - 1) PROVE Smaller(num - i * k, k) \in 1..k
  <2>1. i \in Nat /\ i < last
    OBVIOUS
  <2>2. i * k \in Nat /\ i * k < num
    BY <2>1, <1>2, Times
  <2>3. PICK a \in Nat : a = i * k
    BY <2>2
  <2>4. num - a >= 1 /\ num - a \in Nat
    BY <2>2, <2>3
  <2>5. Smaller(num - a, k) \in 1..k
    BY <2>4, <1>1 DEF Smaller
  <2> QED
    BY <2>3, <2>5
<1> QED
  BY <1>1, <1>2, <1>3, <1>4, <1>5 DEF Subsize

\* The steps of the loop over pointer blocks.
BlockTurns(done, fs, blocks, num, last) ==
    /\ done[0] = Started(fs, blocks)
    /\ \A n \in 1..last : done[n] = ReserveOneBlock(done[n - 1], n - 1, num)

\* One of them.
LEMMA ReserveOneBlockType ==
    ASSUME NEW done \in DoneType(INDIRECT_BLOCKS_PER_SECTOR), NEW i \in Pointers, NEW num,
           Subsize(num, i) \in 1..INDIRECT_BLOCKS_PER_SECTOR
    PROVE  /\ ReserveOneBlock(done, i, num) \in DoneType(INDIRECT_BLOCKS_PER_SECTOR)
           /\ Stays(done.fs, ReserveOneBlock(done, i, num).fs)
<1>1. CASE ~done.ok
  BY <1>1 DEF ReserveOneBlock, Stays
<1>2. CASE done.ok
  <2> DEFINE r == inode_reserve_indirect_1(done.fs, done.blocks[i], Subsize(num, i))
  <2>1. done.fs \in FsType /\ done.blocks[i] \in Sectors
    BY DEF DoneType, Pointers
  <2>2. ReserveOneBlock(done, i, num) = Stored(done.blocks, i, r)
    BY <1>2 DEF ReserveOneBlock
  <2>3. Subsize(num, i) \in 0..INDIRECT_BLOCKS_PER_SECTOR
    BY SizesAssumption
  <2>4. r \in ResultType /\ Stays(done.fs, r.fs)
    BY <2>1, <2>3, Reserve1Type
  <2>5. i \in 0..(INDIRECT_BLOCKS_PER_SECTOR - 1) /\ INDIRECT_BLOCKS_PER_SECTOR \in Nat
    BY SizesAssumption DEF Pointers
  <2> HIDE DEF r
  <2> QED
    BY <2>2, <2>4, <2>5, StoredType
<1> QED
  BY <1>1, <1>2

\* There are such steps, and ReserveAllBlocks is what the last one leaves.
LEMMA ReserveAllBlocksTurns ==
    ASSUME NEW fs \in FsType, NEW blocks \in [Pointers -> Sectors],
           NEW num \in Nat, num <= INDIRECT_BLOCKS_PER_SECTOR * INDIRECT_BLOCKS_PER_SECTOR,
           NEW last \in Nat, last = DivRoundUp(num, INDIRECT_BLOCKS_PER_SECTOR)
    PROVE  \E done \in [0..last -> DoneType(INDIRECT_BLOCKS_PER_SECTOR)] :
               /\ BlockTurns(done, fs, blocks, num, last)
               /\ ReserveAllBlocks(fs, blocks, num) = done[last]
<1> DEFINE S == DoneType(INDIRECT_BLOCKS_PER_SECTOR)
           x == Started(fs, blocks)
           G(h) == [n \in 0..last |-> IF n = 0 THEN x ELSE ReserveOneBlock(h[n - 1], n - 1, num)]
           all == CHOOSE h : h = G(h)
           g == [n \in 1..last |-> [s \in S |-> ReserveOneBlock(s, n - 1, num)]]
<1>1. x \in S
  BY DEF Started, DoneType, Pointers
<1>2. \A s \in S, n \in 1..last : ReserveOneBlock(s, n - 1, num) \in S
  <2>1. last <= INDIRECT_BLOCKS_PER_SECTOR /\ \A i \in 0..(last - 1) : Subsize(num, i) \in 1..INDIRECT_BLOCKS_PER_SECTOR
    BY Subsizes
  <2>2. \A n \in 1..last : n - 1 \in 0..(last - 1) /\ n - 1 \in Pointers
    BY <2>1, SizesAssumption DEF Pointers
  <2> QED
    BY <2>1, <2>2, ReserveOneBlockType
<1> HIDE DEF S, x
<1>3. g \in [1..last -> [S -> S]]
  BY <1>2
<1>4. \A n \in 1..last, s \in S : g[n][s] = ReserveOneBlock(s, n - 1, num)
  OBVIOUS
<1> HIDE DEF g
<1>5. PICK h \in [0..last -> S] : Iterates(h, last, x, g)
  BY <1>1, <1>3, Iteration
<1>6. h[0] = x /\ \A n \in 1..last : h[n] = ReserveOneBlock(h[n - 1], n - 1, num)
  <2>1. h[0] = x /\ \A n \in 1..last : h[n] = g[n][h[n - 1]]
    BY <1>5 DEF Iterates
  <2>2. \A n \in 1..last : h[n - 1] \in S
    BY <1>5
  <2>3. ASSUME NEW n \in 1..last  PROVE h[n] = ReserveOneBlock(h[n - 1], n - 1, num)
    <3>1. PICK s \in S : s = h[n - 1]
      BY <2>2
    <3>2. g[n][s] = ReserveOneBlock(s, n - 1, num)
      BY <1>4
    <3> QED
      BY <2>1, <3>1, <3>2
  <2> QED
    BY <2>1, <2>3
<1>7. h = G(h)
  <2>1. \A n \in 0..last : n = 0 \/ n \in 1..last
    OBVIOUS
  <2> QED
    BY <1>5, <1>6, <2>1
<1>8. all = G(all)
  <2> HIDE DEF G
  <2> QED
    BY <1>7, ZenonT(60)
<1>9. ReserveAllBlocks(fs, blocks, num) = all[last]
  BY ZenonT(60) DEF ReserveAllBlocks, x
<1> HIDE DEF all
<1>10. all[0] = x /\ \A n \in 1..last : all[n] = ReserveOneBlock(all[n - 1], n - 1, num)
  <2>1. \A n \in 1..last : n \in 0..last /\ n # 0
    OBVIOUS
  <2>2. 0 \in 0..last
    OBVIOUS
  <2> QED
    BY <1>8, <2>1, <2>2
<1>11. \A n \in 0..last : all[n] \in S
  <2>1. \A n \in 1..last : all[n - 1] \in S => all[n] \in S
    BY <1>2, <1>10
  <2> QED
    BY <2>1, <1>1, <1>10, Kept
<1>12. all \in [0..last -> S]
  BY <1>8, <1>11
<1>13. BlockTurns(all, fs, blocks, num, last)
  BY <1>10 DEF BlockTurns, x
<1> QED
  BY <1>9, <1>12, <1>13 DEF S

\* The result of the loop.
LEMMA ReserveAllBlocksType ==
    ASSUME NEW fs \in FsType, NEW blocks \in [Pointers -> Sectors],
           NEW num \in Nat, num <= INDIRECT_BLOCKS_PER_SECTOR * INDIRECT_BLOCKS_PER_SECTOR
    PROVE  /\ ReserveAllBlocks(fs, blocks, num) \in DoneType(INDIRECT_BLOCKS_PER_SECTOR)
           /\ Stays(fs, ReserveAllBlocks(fs, blocks, num).fs)
<1>1. PICK last \in Nat : last = DivRoundUp(num, INDIRECT_BLOCKS_PER_SECTOR)
  BY Subsizes
<1>2. PICK done \in [0..last -> DoneType(INDIRECT_BLOCKS_PER_SECTOR)] :
          BlockTurns(done, fs, blocks, num, last) /\ ReserveAllBlocks(fs, blocks, num) = done[last]
  BY <1>1, ReserveAllBlocksTurns
<1> DEFINE S == {x \in DoneType(INDIRECT_BLOCKS_PER_SECTOR) : Stays(fs, x.fs)}
<1>3. done[0] \in S
  BY <1>2 DEF BlockTurns, Started, Stays, DoneType, Pointers
<1>4. ASSUME NEW n \in 1..last, done[n - 1] \in S PROVE done[n] \in S
  <2>1. done[n - 1] \in DoneType(INDIRECT_BLOCKS_PER_SECTOR) /\ Stays(fs, done[n - 1].fs)
    BY <1>4
  <2>2. n - 1 \in 0..(last - 1) /\ n - 1 \in Pointers
    <3>1. last <= INDIRECT_BLOCKS_PER_SECTOR
      BY <1>1, Subsizes
    <3> QED
      BY <3>1, SizesAssumption DEF Pointers
  <2>3. done[n] = ReserveOneBlock(done[n - 1], n - 1, num)
    BY <1>2 DEF BlockTurns
  <2>4. Subsize(num, n - 1) \in 1..INDIRECT_BLOCKS_PER_SECTOR
    BY <2>2, <1>1, Subsizes
  <2>5. done[n] \in DoneType(INDIRECT_BLOCKS_PER_SECTOR) /\ Stays(done[n - 1].fs, done[n].fs)
    BY <2>1, <2>2, <2>3, <2>4, ReserveOneBlockType
  <2> QED
    BY <2>1, <2>5 DEF Stays
<1>5. \A n \in 0..last : done[n] \in S
  <2> HIDE DEF S
  <2> QED
    BY <1>3, <1>4, Kept
<1> QED
  BY <1>2, <1>5

\* inode_reserve_indirect, level 2.
LEMMA Reserve2Type ==
    ASSUME NEW fs \in FsType, NEW p \in Sectors,
           NEW num \in Nat, num <= INDIRECT_BLOCKS_PER_SECTOR * INDIRECT_BLOCKS_PER_SECTOR
    PROVE  /\ inode_reserve_indirect_2(fs, p, num) \in ResultType
           /\ Stays(fs, inode_reserve_indirect_2(fs, p, num).fs)
<1> DEFINE b == PointerBlock(fs, p)
           done == ReserveAllBlocks(b.fs, b.fs.disk[b.p].blocks, num)
<1>1. b.fs \in FsType /\ b.p \in Sectors /\ Stays(fs, b.fs)
  BY PointerBlockType
<1>2. b.fs.disk[b.p].blocks \in [Pointers -> Sectors]
  BY <1>1 DEF FsType, SectorType
<1>3. inode_reserve_indirect_2(fs, p, num) = WriteBack(b.p, done)
  BY DEF inode_reserve_indirect_2
<1> HIDE DEF b
<1>4. done \in DoneType(INDIRECT_BLOCKS_PER_SECTOR) /\ Stays(b.fs, done.fs)
  BY <1>1, <1>2, ReserveAllBlocksType
<1> HIDE DEF done
<1>5. WriteBack(b.p, done) \in ResultType /\ Stays(done.fs, WriteBack(b.p, done).fs)
  BY <1>1, <1>4, WriteBackType
<1> QED
  BY <1>1, <1>3, <1>4, <1>5 DEF Stays

\* The parts of a length.
LEMMA Parts ==
    ASSUME NEW num \in Nat
    PROVE  /\ InDirect(num) \in Nat /\ InDirect(num) <= DIRECT_BLOCKS_COUNT
           /\ InIndirect(num) \in 0..INDIRECT_BLOCKS_PER_SECTOR
           /\ InDoubly(num) \in Nat
           /\ InDoubly(num) <= INDIRECT_BLOCKS_PER_SECTOR * INDIRECT_BLOCKS_PER_SECTOR
           /\ InIndirect(num) # 0 => InDirect(num) = DIRECT_BLOCKS_COUNT
           /\ InDoubly(num) # 0 => InIndirect(num) = INDIRECT_BLOCKS_PER_SECTOR
           /\ InDirect(num) + InIndirect(num) + InDoubly(num) <= num
<1>1. PICK d \in Nat : d = DIRECT_BLOCKS_COUNT
  BY SizesAssumption
<1>2. PICK k \in Nat : k = INDIRECT_BLOCKS_PER_SECTOR
  BY SizesAssumption
<1>3. PICK kk \in Nat : kk = k * k
  OBVIOUS
<1>4. PICK a : a = InDirect(num)
  OBVIOUS
<1>5. a \in Nat /\ a <= d /\ a <= num /\ (a < d => a = num)
  BY <1>1, <1>4 DEF InDirect, Smaller
<1>6. PICK b : b = InIndirect(num)
  OBVIOUS
<1>7. b = Smaller(num - a, k)
  BY <1>2, <1>4, <1>6 DEF InIndirect
<1>8. b \in Nat /\ b <= k /\ b <= num - a /\ (b < k => b = num - a)
  BY <1>5, <1>7 DEF Smaller
<1>9. PICK c : c = InDoubly(num)
  OBVIOUS
<1>10. c = Smaller(num - a - b, kk)
  BY <1>2, <1>3, <1>4, <1>6, <1>9 DEF InDoubly
<1>11. c \in Nat /\ c <= kk /\ c <= num - a - b
  BY <1>5, <1>8, <1>10 DEF Smaller
<1>12. /\ b \in 0..k
       /\ b # 0 => a = d
       /\ c # 0 => b = k
       /\ a + b + c <= num
  BY <1>5, <1>8, <1>11
<1> QED
  BY <1>1, <1>2, <1>3, <1>4, <1>5, <1>6, <1>8, <1>9, <1>11, <1>12

\* The states between the phases of inode_reserve.
StateType == [fs : FsType, inode : InodeType, ok : BOOLEAN]

\* The phases.
LEMMA ReserveDirectType ==
    ASSUME NEW st \in StateType, NEW num \in Nat
    PROVE  LET done == ReserveAll(st.fs, st.inode.direct_blocks, InDirect(num))
           IN  /\ ReserveDirect(st, num) \in StateType
               /\ Stays(st.fs, ReserveDirect(st, num).fs)
               /\ ReserveDirect(st, num).fs = done.fs
               /\ ReserveDirect(st, num).ok = done.ok
               /\ ReserveDirect(st, num).inode = [st.inode EXCEPT !.direct_blocks = done.blocks]
<1> DEFINE done == ReserveAll(st.fs, st.inode.direct_blocks, InDirect(num))
<1>1. DIRECT_BLOCKS_COUNT \in Nat /\ InDirect(num) \in Nat /\ InDirect(num) <= DIRECT_BLOCKS_COUNT
  BY SizesAssumption, Parts
<1>2. st.fs \in FsType /\ st.inode.direct_blocks \in [0..(DIRECT_BLOCKS_COUNT - 1) -> Sectors] /\ st.inode \in InodeType
  BY DEF StateType, InodeType, Direct
<1>3. done \in DoneType(DIRECT_BLOCKS_COUNT) /\ Stays(st.fs, done.fs)
  BY <1>1, <1>2, ReserveAllType
<1>4. ReserveDirect(st, num)
        = [fs |-> done.fs, inode |-> [st.inode EXCEPT !.direct_blocks = done.blocks], ok |-> done.ok]
  BY DEF ReserveDirect
<1> HIDE DEF done
<1>5. done.fs \in FsType /\ done.blocks \in [Direct -> Sectors] /\ done.ok \in BOOLEAN
  BY <1>3 DEF DoneType, Direct
<1>6. [st.inode EXCEPT !.direct_blocks = done.blocks] \in InodeType
  BY <1>2, <1>5 DEF InodeType
<1>7. ReserveDirect(st, num) \in StateType
  BY <1>4, <1>5, <1>6 DEF StateType
<1>8. /\ ReserveDirect(st, num).fs = done.fs
      /\ ReserveDirect(st, num).ok = done.ok
      /\ ReserveDirect(st, num).inode = [st.inode EXCEPT !.direct_blocks = done.blocks]
  BY <1>4
<1> QED
  BY <1>3, <1>7, <1>8 DEF done

\* The second phase, below the indirect block.
LEMMA ReserveIndirectType ==
    ASSUME NEW st \in StateType, NEW num \in Nat
    PROVE  /\ ReserveIndirect(st, num) \in StateType
           /\ Stays(st.fs, ReserveIndirect(st, num).fs)
           /\ ~st.ok \/ InIndirect(num) = 0 => ReserveIndirect(st, num) = st
           /\ st.ok /\ InIndirect(num) # 0 =>
                LET r == inode_reserve_indirect_1(st.fs, st.inode.indirect_block, InIndirect(num))
                IN  /\ ReserveIndirect(st, num).fs = r.fs
                    /\ ReserveIndirect(st, num).ok = r.ok
                    /\ ReserveIndirect(st, num).inode = [st.inode EXCEPT !.indirect_block = r.p]
<1> DEFINE r == inode_reserve_indirect_1(st.fs, st.inode.indirect_block, InIndirect(num))
<1>1. CASE ~st.ok \/ InIndirect(num) = 0
  <2>1. ReserveIndirect(st, num) = st
    BY <1>1 DEF ReserveIndirect
  <2> QED
    BY <2>1, <1>1 DEF Stays
<1>2. CASE st.ok /\ InIndirect(num) # 0
  <2>1. st.fs \in FsType /\ st.inode.indirect_block \in Sectors /\ st.inode \in InodeType
    BY DEF StateType, InodeType
  <2>2. r \in ResultType /\ Stays(st.fs, r.fs)
    BY <2>1, Parts, Reserve1Type
  <2>3. ReserveIndirect(st, num)
          = [fs |-> r.fs, inode |-> [st.inode EXCEPT !.indirect_block = r.p], ok |-> r.ok]
    BY <1>2 DEF ReserveIndirect
  <2> HIDE DEF r
  <2>4. [st.inode EXCEPT !.indirect_block = r.p] \in InodeType
    BY <2>1, <2>2 DEF InodeType, ResultType
  <2>5. ReserveIndirect(st, num) \in StateType
    BY <2>2, <2>3, <2>4 DEF StateType, ResultType
  <2>6. /\ ReserveIndirect(st, num).fs = r.fs
        /\ ReserveIndirect(st, num).ok = r.ok
        /\ ReserveIndirect(st, num).inode = [st.inode EXCEPT !.indirect_block = r.p]
    BY <2>3
  <2> QED
    BY <1>2, <2>2, <2>5, <2>6 DEF r
<1> QED
  BY <1>1, <1>2

\* The third phase, below the doubly indirect block.
LEMMA ReserveDoublyType ==
    ASSUME NEW st \in StateType, NEW num \in Nat
    PROVE  /\ ReserveDoubly(st, num) \in StateType
           /\ Stays(st.fs, ReserveDoubly(st, num).fs)
           /\ ~st.ok \/ InDoubly(num) = 0 => ReserveDoubly(st, num) = st
           /\ st.ok /\ InDoubly(num) # 0 =>
                LET r == inode_reserve_indirect_2(st.fs, st.inode.doubly_indirect_block, InDoubly(num))
                IN  /\ ReserveDoubly(st, num).fs = r.fs
                    /\ ReserveDoubly(st, num).ok = r.ok
                    /\ ReserveDoubly(st, num).inode = [st.inode EXCEPT !.doubly_indirect_block = r.p]
<1> DEFINE r == inode_reserve_indirect_2(st.fs, st.inode.doubly_indirect_block, InDoubly(num))
<1>1. CASE ~st.ok \/ InDoubly(num) = 0
  <2>1. ReserveDoubly(st, num) = st
    BY <1>1 DEF ReserveDoubly
  <2> QED
    BY <2>1, <1>1 DEF Stays
<1>2. CASE st.ok /\ InDoubly(num) # 0
  <2>1. st.fs \in FsType /\ st.inode.doubly_indirect_block \in Sectors /\ st.inode \in InodeType
    BY DEF StateType, InodeType
  <2>2. r \in ResultType /\ Stays(st.fs, r.fs)
    BY <2>1, Parts, Reserve2Type
  <2>3. ReserveDoubly(st, num)
          = [fs |-> r.fs, inode |-> [st.inode EXCEPT !.doubly_indirect_block = r.p], ok |-> r.ok]
    BY <1>2 DEF ReserveDoubly
  <2> HIDE DEF r
  <2>4. [st.inode EXCEPT !.doubly_indirect_block = r.p] \in InodeType
    BY <2>1, <2>2 DEF InodeType, ResultType
  <2>5. ReserveDoubly(st, num) \in StateType
    BY <2>2, <2>3, <2>4 DEF StateType, ResultType
  <2>6. /\ ReserveDoubly(st, num).fs = r.fs
        /\ ReserveDoubly(st, num).ok = r.ok
        /\ ReserveDoubly(st, num).inode = [st.inode EXCEPT !.doubly_indirect_block = r.p]
    BY <2>3
  <2> QED
    BY <1>2, <2>2, <2>5, <2>6 DEF r
<1> QED
  BY <1>1, <1>2

\* inode_reserve is the phases, one after the other.
LEMMA ReserveType ==
    ASSUME NEW fs \in FsType, NEW inode \in InodeType, NEW num \in Nat
    PROVE  LET a == ReserveDirect([fs |-> fs, inode |-> inode, ok |-> TRUE], num)
               b == ReserveIndirect(a, num)
               c == ReserveDoubly(b, num)
               r == inode_reserve(fs, inode, num)
           IN  /\ r \in StateType
               /\ Stays(fs, r.fs)
               /\ r.fs = c.fs /\ r.inode = c.inode
               /\ r.ok <=> c.ok /\ num = InDirect(num) + InIndirect(num) + InDoubly(num)
<1> DEFINE st == [fs |-> fs, inode |-> inode, ok |-> TRUE]
           a == ReserveDirect(st, num)
           b == ReserveIndirect(a, num)
           c == ReserveDoubly(b, num)
           fits == num = InDirect(num) + InIndirect(num) + InDoubly(num)
           r == inode_reserve(fs, inode, num)
<1>1. st \in StateType /\ st.fs = fs
  BY DEF StateType
<1>2. a \in StateType /\ Stays(fs, a.fs)
  <2> HIDE DEF st
  <2> QED
    BY <1>1, ReserveDirectType
<1> HIDE DEF a
<1>3. b \in StateType /\ Stays(a.fs, b.fs)
  BY <1>2, ReserveIndirectType
<1> HIDE DEF b
<1>4. c \in StateType /\ Stays(b.fs, c.fs)
  BY <1>3, ReserveDoublyType
<1>5. r = [c EXCEPT !.ok = c.ok /\ fits]
  BY DEF inode_reserve, a, b
<1> HIDE DEF c, r, fits
<1>6. r \in StateType /\ r.fs = c.fs /\ r.inode = c.inode /\ (r.ok <=> c.ok /\ fits)
  BY <1>4, <1>5 DEF StateType
<1>7. Stays(fs, r.fs)
  BY <1>2, <1>3, <1>4, <1>6 DEF Stays
<1> QED
  BY <1>6, <1>7 DEF a, b, c, r, fits

-----------------------------------------------------------------------------
\* What n turns of the loop over data sectors have done: sectors in use keep
\* their contents, pointers that were there are kept, and what has become used
\* is what the new pointers lead to.
DataSteps(fs, blocks, done, n) ==
    /\ fs.map \subseteq done.fs.map
    /\ \A s \in fs.map : done.fs.disk[s] = fs.disk[s]
    /\ \A i \in DOMAIN blocks : Keeps(blocks[i], done.blocks[i])
    /\ \A i \in DOMAIN blocks : \/ done.blocks[i] \in {0, blocks[i]}
                                \/ done.blocks[i] \in done.fs.map \ fs.map
    /\ \A s \in done.fs.map \ fs.map : \E i \in 0..(n - 1) : s = done.blocks[i]
    /\ Once(done.blocks)
    /\ done.ok => Filled0(done.blocks, n)

\* Another turn.
LEMMA ReserveOneSteps ==
    ASSUME NEW size \in Nat, NEW fs \in FsType, 0 \in fs.map,
           NEW blocks \in [0..(size - 1) -> Sectors], \A i \in 0..(size - 1) : blocks[i] \in fs.map,
           NEW done \in DoneType(size), NEW n \in 0..(size - 1),
           DataSteps(fs, blocks, done, n)
    PROVE  DataSteps(fs, blocks, ReserveOne(done, n), n + 1)
<1> DEFINE next == ReserveOne(done, n)
           p == done.blocks[n]
           s == bitmap_scan(done.fs.map)
           old == done.blocks
<1>1. /\ done.fs \in FsType /\ old \in [0..(size - 1) -> Sectors] /\ DOMAIN blocks = 0..(size - 1)
      /\ p \in Sectors /\ fs.map \subseteq Sectors
  BY DEF DoneType, FsType
<1>2. \A i \in 0..((n + 1) - 1) : i \in 0..(n - 1) \/ i = n
  OBVIOUS
<1>3. \A i \in 0..(n - 1) : i \in 0..((n + 1) - 1) /\ i \in 0..(size - 1) /\ i # n
  OBVIOUS
<1>4. n \in 0..((n + 1) - 1) /\ n \in 0..(size - 1)
  OBVIOUS
<1>5. CASE ~done.ok
  <2>1. next = done
    BY <1>5 DEF ReserveOne
  <2> QED
    BY <1>3, <1>5, <2>1 DEF DataSteps
<1>6. CASE done.ok /\ p # 0
  <2>1. next = Stored(old, n, [fs |-> done.fs, p |-> p, ok |-> TRUE])
    BY <1>6 DEF ReserveOne, ReserveData
  <2>2. next.fs = done.fs /\ next.blocks = [old EXCEPT ![n] = p] /\ next.ok = TRUE
    BY <2>1 DEF Stored
  <2>3. next.blocks = old
    BY <2>2, <1>1
  <2>4. Filled0(old, n + 1)
    BY <1>2, <1>6 DEF DataSteps, Filled0
  <2> QED
    BY <1>3, <2>2, <2>3, <2>4 DEF DataSteps
<1>7. CASE done.ok /\ p = 0 /\ s = 0
  <2>1. next = Stored(old, n, [fs |-> done.fs, p |-> 0, ok |-> FALSE])
    BY <1>7 DEF ReserveOne, ReserveData
  <2>2. next.fs = done.fs /\ next.blocks = [old EXCEPT ![n] = 0] /\ next.ok = FALSE
    BY <2>1 DEF Stored
  <2>3. next.blocks = old
    BY <2>2, <1>1, <1>7
  <2> QED
    BY <1>3, <2>2, <2>3 DEF DataSteps
<1>8. CASE done.ok /\ p = 0 /\ s # 0
  <2>1. next = Stored(old, n, [fs |-> Allocated(done.fs, s), p |-> s, ok |-> TRUE])
    BY <1>8 DEF ReserveOne, ReserveData
  <2>2. next.fs = Allocated(done.fs, s) /\ next.blocks = [old EXCEPT ![n] = s] /\ next.ok = TRUE
    BY <2>1 DEF Stored
  <2>3. /\ \A i \in 0..(size - 1) : i # n => next.blocks[i] = old[i]
        /\ next.blocks[n] = s /\ DOMAIN next.blocks = 0..(size - 1) /\ DOMAIN old = 0..(size - 1)
    BY <2>2, <1>1
  <2>4. s \in Sectors /\ s \notin done.fs.map
    BY <1>8, Scan
  <2>5. /\ next.fs.map = done.fs.map \cup {s}
        /\ \A t \in Sectors : t # s => next.fs.disk[t] = done.fs.disk[t]
    <3> HIDE DEF next, p, s, old
    <3>1. /\ Allocated(done.fs, s).map = done.fs.map \cup {s}
          /\ \A t \in Sectors : t # s => Allocated(done.fs, s).disk[t] = done.fs.disk[t]
      BY <2>4, <1>1, AllocatedType
    <3> QED
      BY <3>1, <2>2
  <2> HIDE DEF next, p, s, old
  <2>6. fs.map \subseteq next.fs.map /\ \A t \in fs.map : next.fs.disk[t] = fs.disk[t]
    BY <2>4, <2>5, <1>1 DEF DataSteps
  <2>7. \A i \in DOMAIN blocks : Keeps(blocks[i], next.blocks[i])
    BY <2>3, <1>1, <1>4, <1>8 DEF DataSteps, Keeps, p, old
  <2>8. \A i \in DOMAIN blocks : \/ next.blocks[i] \in {0, blocks[i]}
                                 \/ next.blocks[i] \in next.fs.map \ fs.map
    BY <2>3, <2>4, <2>5, <1>1 DEF DataSteps, old
  <2>9. \A t \in next.fs.map \ fs.map : \E i \in 0..((n + 1) - 1) : t = next.blocks[i]
    <3>1. SUFFICES ASSUME NEW t \in next.fs.map \ fs.map PROVE \E i \in 0..((n + 1) - 1) : t = next.blocks[i]
      OBVIOUS
    <3>2. CASE t = s
      BY <3>2, <2>3, <1>4
    <3>3. CASE t # s
      <4>1. PICK i \in 0..(n - 1) : t = old[i]
        BY <3>3, <2>5 DEF DataSteps, old
      <4> QED
        BY <4>1, <2>3, <1>3
    <3> QED
      BY <3>2, <3>3
  <2>10. Once(next.blocks)
    <3>1. \A i \in 0..(size - 1) : old[i] # 0 => old[i] \in done.fs.map
      BY <1>1 DEF DataSteps, old
    <3>2. Once(old)
      BY DEF DataSteps, old
    <3> QED
      BY <3>1, <3>2, <2>3, <2>4, <1>1 DEF Once
  <2>11. Filled0(next.blocks, n + 1)
    BY <1>2, <1>3, <1>8, <2>3 DEF DataSteps, Filled0, old
  <2> QED
    BY <2>6, <2>7, <2>8, <2>9, <2>10, <2>11 DEF DataSteps, next
<1> QED
  BY <1>5, <1>6, <1>7, <1>8

\* The whole loop.
LEMMA ReserveAllSteps ==
    ASSUME NEW size \in Nat, NEW fs \in FsType, 0 \in fs.map,
           NEW blocks \in [0..(size - 1) -> Sectors], \A i \in 0..(size - 1) : blocks[i] \in fs.map,
           Once(blocks), NEW num \in Nat, num <= size
    PROVE  DataSteps(fs, blocks, ReserveAll(fs, blocks, num), num)
<1>1. PICK done \in [0..num -> DoneType(size)] :
          Turns(done, fs, blocks, num) /\ ReserveAll(fs, blocks, num) = done[num]
  BY ReserveAllTurns
<1> DEFINE T == {n \in 0..num : DataSteps(fs, blocks, done[n], n)}
<1>2. 0 \in T
  <2>1. done[0] = Started(fs, blocks)
    BY <1>1 DEF Turns
  <2>2. done[0].fs = fs /\ done[0].blocks = blocks
    BY <2>1 DEF Started
  <2>3. Filled0(blocks, 0)
    BY DEF Filled0
  <2> QED
    BY <2>2, <2>3 DEF DataSteps, Keeps
<1>3. ASSUME NEW n \in 1..num, n - 1 \in T PROVE n \in T
  <2>1. n - 1 \in 0..(size - 1) /\ n - 1 + 1 = n /\ n - 1 \in 0..num
    OBVIOUS
  <2>2. done[n] = ReserveOne(done[n - 1], n - 1) /\ done[n - 1] \in DoneType(size)
    BY <1>1, <2>1 DEF Turns
  <2>3. DataSteps(fs, blocks, done[n - 1], n - 1)
    BY <1>3
  <2>4. DataSteps(fs, blocks, ReserveOne(done[n - 1], n - 1), n - 1 + 1)
    BY <2>1, <2>2, <2>3, ReserveOneSteps
  <2> QED
    BY <2>1, <2>2, <2>4
<1>4. 0..num \subseteq T
  <2> HIDE DEF T
  <2> QED
    BY <1>2, <1>3, Climb
<1> QED
  BY <1>1, <1>4

\* A tree of level 1 has all the pointers it had.
Grown1(d, p, d2, p2) ==
    p # 0 => p2 = p /\ \A i \in Pointers : Keeps(d[p].blocks[i], d2[p].blocks[i])

\* What inode_reserve_indirect of level 1 promises, unless the disk is full
\* when it needs the pointer block.
Good1(fs, p, num, r) ==
    /\ r.p # 0
    /\ fs.map \subseteq r.fs.map
    /\ \A s \in fs.map \ Tree1(fs.disk, p) : r.fs.disk[s] = fs.disk[s]
    /\ Proper1(r.fs.disk, r.p)
    /\ Tree1(r.fs.disk, r.p) \subseteq Tree1(fs.disk, p) \cup (r.fs.map \ fs.map)
    /\ Grown1(fs.disk, p, r.fs.disk, r.p)
    /\ r.ok => /\ Filled1(r.fs.disk, r.p, num)
               /\ r.fs.map \ fs.map \subseteq IndirectBlocks(r.fs.disk, r.p, num)

\* The zeros went to sector 0.
Broke(r) == ~r.ok /\ ~Intact(r.fs.disk)

\* The pointer block: the one there is, a new one, or sector 0.
LEMMA PointerBlockSteps ==
    ASSUME NEW fs \in FsType, NEW p \in Sectors, 0 \in fs.map
    PROVE  LET b == PointerBlock(fs, p)
           IN  \/ p # 0 /\ b.p = p /\ b.fs = fs
               \/ /\ p = 0 /\ b.p # 0 /\ b.p \notin fs.map
                  /\ b.fs.map = fs.map \cup {b.p} /\ b.fs.disk[b.p] = zeros
                  /\ \A t \in Sectors : t # b.p => b.fs.disk[t] = fs.disk[t]
               \/ /\ p = 0 /\ b.p = 0 /\ Sectors \subseteq fs.map
                  /\ b.fs.map = fs.map /\ b.fs.disk[0] = zeros
<1> DEFINE b == PointerBlock(fs, p)
           s == bitmap_scan(fs.map)
<1>1. s \in Sectors /\ (s # 0 => s \notin fs.map) /\ (s = 0 => Sectors \subseteq fs.map)
  BY Scan
<1>2. CASE p # 0
  <2>1. b = [fs |-> fs, p |-> p]
    BY <1>2 DEF PointerBlock
  <2> QED
    BY <2>1, <1>2
<1>3. CASE p = 0
  <2>1. b = [fs |-> Allocated(fs, s), p |-> s]
    BY <1>3 DEF PointerBlock
  <2>2. b.fs = Allocated(fs, s) /\ b.p = s
    BY <2>1
  <2> HIDE DEF b, s
  <2>3. /\ Allocated(fs, s).map = fs.map \cup {s}
        /\ Allocated(fs, s).disk[s] = zeros
        /\ \A t \in Sectors : t # s => Allocated(fs, s).disk[t] = fs.disk[t]
    BY <1>1, AllocatedType
  <2>4. CASE s = 0
    BY <1>1, <1>3, <2>2, <2>3, <2>4 DEF b
  <2>5. CASE s # 0
    BY <1>1, <1>3, <2>2, <2>3, <2>5 DEF b
  <2> QED
    BY <2>4, <2>5
<1> QED
  BY <1>2, <1>3

\* A block of zeros points nowhere.
LEMMA ZeroBlocks ==
    /\ \A i \in Pointers : zeros.blocks[i] = 0
    /\ Once(zeros.blocks) /\ Entries(zeros.blocks) = {} /\ DOMAIN zeros.blocks = Pointers
<1>1. zeros.blocks = [i \in Pointers |-> 0]
  BY DEF zeros
<1>2. \A i \in Pointers : zeros.blocks[i] = 0
  BY <1>1
<1>3. DOMAIN zeros.blocks = Pointers
  BY <1>1
<1> QED
  BY <1>2, <1>3 DEF Once, Entries

\* What is written back, and what stays.
LEMMA WriteBackSteps ==
    ASSUME NEW q \in Sectors, NEW done \in DoneType(INDIRECT_BLOCKS_PER_SECTOR)
    PROVE  LET r == WriteBack(q, done)
           IN  /\ r.p = q /\ r.ok = done.ok /\ r.fs.map = done.fs.map
               /\ \A t \in Sectors : t # q => r.fs.disk[t] = done.fs.disk[t]
               /\ done.ok => r.fs.disk[q].blocks = done.blocks
               /\ ~done.ok => r.fs.disk[q] = done.fs.disk[q]
<1> DEFINE new == [map |-> done.fs.map, disk |-> [done.fs.disk EXCEPT ![q] = PointerSector(done.blocks)]]
           r == WriteBack(q, done)
<1>1. done.blocks \in [Pointers -> Sectors] /\ done.fs \in FsType
  BY DEF DoneType, Pointers
<1>2. r = [fs |-> IF done.ok THEN new ELSE done.fs, p |-> q, ok |-> done.ok]
  BY DEF WriteBack
<1>3. PointerSector(done.blocks).blocks = done.blocks
  BY <1>1, SectorTypes
<1>4. /\ new.map = done.fs.map
      /\ \A t \in Sectors : t # q => new.disk[t] = done.fs.disk[t]
      /\ new.disk[q] = PointerSector(done.blocks)
  BY <1>1 DEF FsType
<1> HIDE DEF new
<1>5. r.p = q /\ r.ok = done.ok /\ r.fs = IF done.ok THEN new ELSE done.fs
  BY <1>2
<1> HIDE DEF r
<1>6. CASE done.ok
  BY <1>3, <1>4, <1>5, <1>6 DEF r
<1>7. CASE ~done.ok
  BY <1>5, <1>7 DEF r
<1> QED
  BY <1>6, <1>7

\* Level 1 keeps its promise, or the disk was full and the free map's inode is
\* gone.
LEMMA Reserve1Steps ==
    ASSUME NEW fs \in FsType, NEW p \in Sectors, NEW num \in 1..INDIRECT_BLOCKS_PER_SECTOR,
           0 \in fs.map, Tree1(fs.disk, p) \subseteq fs.map, Proper1(fs.disk, p)
    PROVE  LET r == inode_reserve_indirect_1(fs, p, num)
           IN  Good1(fs, p, num, r) \/ Broke(r)
<1> DEFINE b == PointerBlock(fs, p)
           q == b.p
           B == b.fs.disk[b.p].blocks
           done == ReserveAll(b.fs, B, num)
           r == WriteBack(b.p, done)
<1>0. /\ INDIRECT_BLOCKS_PER_SECTOR \in Nat /\ num \in Nat /\ num <= INDIRECT_BLOCKS_PER_SECTOR
      /\ Pointers = 0..(INDIRECT_BLOCKS_PER_SECTOR - 1)
      /\ 0 \in 0..(num - 1) /\ 0 \in Pointers
  BY SizesAssumption DEF Pointers
<1>1. b.fs \in FsType /\ b.p \in Sectors
  BY PointerBlockType
<1>2. \/ p # 0 /\ b.p = p /\ b.fs = fs
      \/ /\ p = 0 /\ b.p # 0 /\ b.p \notin fs.map
         /\ b.fs.map = fs.map \cup {b.p} /\ b.fs.disk[b.p] = zeros
         /\ \A t \in Sectors : t # b.p => b.fs.disk[t] = fs.disk[t]
      \/ /\ p = 0 /\ b.p = 0 /\ Sectors \subseteq fs.map
         /\ b.fs.map = fs.map /\ b.fs.disk[0] = zeros
  BY PointerBlockSteps
<1>3. inode_reserve_indirect_1(fs, p, num) = r
  BY DEF inode_reserve_indirect_1
<1> HIDE DEF b
<1>4. B \in [Pointers -> Sectors]
  BY <1>1 DEF FsType, SectorType
<1>5. /\ 0 \in b.fs.map
      /\ \A i \in Pointers : B[i] \in b.fs.map
      /\ Once(B)
      /\ \A i \in Pointers : B[i] # 0 => B[i] # q
  <2>1. CASE p # 0 /\ b.p = p /\ b.fs = fs
    BY <2>1, <1>4 DEF Tree1, Proper1, Entries
  <2>2. CASE b.fs.disk[b.p] = zeros /\ 0 \in b.fs.map
    BY <2>2, ZeroBlocks
  <2> QED
    BY <2>1, <2>2, <1>2
<1>6. DataSteps(b.fs, B, done, num)
  <2> HIDE DEF B
  <2> QED
    BY <1>0, <1>1, <1>4, <1>5, ReserveAllSteps
<1>7. done \in DoneType(INDIRECT_BLOCKS_PER_SECTOR)
  <2> HIDE DEF B
  <2> QED
    BY <1>0, <1>1, <1>4, ReserveAllType
<1>8. done.blocks \in [Pointers -> Sectors] /\ done.fs \in FsType
  BY <1>7, <1>0 DEF DoneType
<1> HIDE DEF B, done
<1>9. /\ r.p = q /\ r.ok = done.ok /\ r.fs.map = done.fs.map
      /\ \A t \in Sectors : t # q => r.fs.disk[t] = done.fs.disk[t]
      /\ done.ok => r.fs.disk[q].blocks = done.blocks
      /\ ~done.ok => r.fs.disk[q] = done.fs.disk[q]
  BY <1>1, <1>7, WriteBackSteps
<1> HIDE DEF r, q
<1>10. CASE p = 0 /\ q = 0
  <2>1. Sectors \subseteq b.fs.map /\ b.fs.disk[0] = zeros
    BY <1>2, <1>10 DEF q
  <2>2. \A i \in Pointers : B[i] = 0
    BY <2>1, <1>10, ZeroBlocks DEF B, q
  <2>3. done.blocks[0] = 0
    BY <2>1, <2>2, <1>0, <1>4, <1>6, <1>8 DEF DataSteps
  <2>4. ~done.ok
    BY <2>3, <1>0, <1>6 DEF DataSteps, Filled0
  <2>5. r.fs.disk[0] = zeros
    BY <2>1, <2>4, <1>5, <1>6, <1>9, <1>10 DEF DataSteps
  <2> QED
    BY <2>4, <2>5, <1>3, <1>9, Overwritten DEF Broke, Intact
<1>11. CASE q # 0
  <2> DEFINE N == r.fs.disk[q].blocks
  <2>0. q \in b.fs.map /\ b.fs.map \subseteq Sectors /\ q \in Sectors
    <3>1. p # 0 => p \in fs.map
      BY DEF Tree1
    <3> QED
      BY <3>1, <1>1, <1>2, <1>11 DEF q, FsType
  <2>1. done.ok => N = done.blocks
    BY <1>9
  <2>2. ~done.ok => N = B
    BY <1>6, <1>9, <2>0 DEF DataSteps, B, q
  <2>3. /\ DOMAIN N = Pointers /\ Once(N)
        /\ \A i \in Pointers : Keeps(B[i], N[i])
        /\ \A i \in Pointers : N[i] \in {0, B[i]} \/ N[i] \in r.fs.map \ b.fs.map
    BY <2>1, <2>2, <1>4, <1>5, <1>6, <1>8, <1>9 DEF DataSteps, Keeps
  <2>4. \A s \in b.fs.map : s # q => r.fs.disk[s] = b.fs.disk[s]
    BY <2>0, <1>6, <1>9 DEF DataSteps
  <2>5. b.fs.map \subseteq r.fs.map
    BY <1>6, <1>9 DEF DataSteps
  <2>6. r.ok => /\ Filled0(N, num)
                /\ \A s \in r.fs.map \ b.fs.map : \E i \in 0..(num - 1) : s = N[i]
    BY <2>1, <1>6, <1>9 DEF DataSteps
  <2>n. r.fs.disk[q].blocks = N
    OBVIOUS
  <2> HIDE DEF N
  <2>7. fs.map \subseteq b.fs.map /\ (p # 0 => p = q /\ b.fs = fs) /\ (p = 0 => b.fs.map = fs.map \cup {q} /\ q \notin fs.map)
    BY <1>2, <1>11 DEF q
  <2>8. Tree1(r.fs.disk, r.p) = {q} \cup Entries(N)
    BY <1>9, <1>11, <2>n DEF Tree1
  <2>9. Proper1(r.fs.disk, r.p)
    <3>1. q \notin Entries(N)
      BY <2>0, <2>3, <1>5 DEF Entries
    <3> QED
      BY <3>1, <2>3, <2>n, <1>9 DEF Proper1
  <2>10. \A s \in fs.map \ Tree1(fs.disk, p) : r.fs.disk[s] = fs.disk[s]
    <3>1. CASE p # 0
      BY <3>1, <2>4, <2>7 DEF Tree1
    <3>2. CASE p = 0
      <4>1. \A s \in fs.map : s # q /\ s \in b.fs.map /\ b.fs.disk[s] = fs.disk[s]
        <5>1. fs.map \subseteq Sectors
          BY DEF FsType
        <5> QED
          BY <5>1, <1>2, <2>7, <3>2 DEF q
      <4> QED
        BY <4>1, <2>4
    <3> QED
      BY <3>1, <3>2
  <2>11. Tree1(r.fs.disk, r.p) \subseteq Tree1(fs.disk, p) \cup (r.fs.map \ fs.map)
    <3>1. CASE p # 0
      <4>1. Tree1(fs.disk, p) = {q} \cup Entries(B)
        BY <3>1, <2>7 DEF Tree1, B, q
      <4>2. Entries(N) \subseteq Entries(B) \cup (r.fs.map \ fs.map)
        BY <2>3, <2>7, <3>1, <1>4 DEF Entries
      <4> QED
        BY <4>1, <4>2, <2>8
    <3>2. CASE p = 0
      <4>1. \A i \in Pointers : B[i] = 0
        BY <1>2, <1>11, <3>2, ZeroBlocks DEF B, q
      <4>2. Entries(N) \subseteq r.fs.map \ fs.map
        BY <4>1, <2>3, <2>7 DEF Entries
      <4>3. q \in r.fs.map \ fs.map
        BY <3>2, <2>5, <2>7
      <4> QED
        BY <4>2, <4>3, <2>8
    <3> QED
      BY <3>1, <3>2
  <2>12. Grown1(fs.disk, p, r.fs.disk, r.p)
    BY <2>3, <2>7, <2>n, <1>9 DEF Grown1, B, q
  <2>13. r.ok => /\ Filled1(r.fs.disk, r.p, num)
                 /\ r.fs.map \ fs.map \subseteq IndirectBlocks(r.fs.disk, r.p, num)
    <3>1. r.ok => Filled1(r.fs.disk, r.p, num)
      BY <2>6, <2>n, <1>9, <1>11 DEF Filled1
    <3>2. r.fs.map \ fs.map \subseteq {q} \cup (r.fs.map \ b.fs.map)
      BY <2>7
    <3>3. r.ok => r.fs.map \ fs.map \subseteq {q} \cup {N[i] : i \in 0..(num - 1)}
      BY <3>2, <2>6
    <3> QED
      BY <3>1, <3>3, <2>n, <1>9 DEF IndirectBlocks
  <2>14. fs.map \subseteq r.fs.map /\ r.p # 0
    BY <2>5, <2>7, <1>9, <1>11
  <2> QED
    BY <2>9, <2>10, <2>11, <2>12, <2>13, <2>14, <1>3 DEF Good1
<1> QED
  BY <1>2, <1>10, <1>11 DEF q

\* A tree of level 1 depends on its pointer block only.
LEMMA Same1 ==
    ASSUME NEW d, NEW d2, NEW p, p # 0 => d2[p] = d[p]
    PROVE  /\ Tree1(d2, p) = Tree1(d, p)
           /\ Proper1(d2, p) <=> Proper1(d, p)
           /\ \A num : Filled1(d2, p, num) <=> Filled1(d, p, num)
           /\ p # 0 => \A num : IndirectBlocks(d2, p, num) = IndirectBlocks(d, p, num)
           /\ Grown1(d, p, d2, p)
<1>1. CASE p = 0
  BY <1>1 DEF Tree1, Proper1, Filled1, Grown1
<1>2. CASE p # 0
  BY <1>2 DEF Tree1, Proper1, Filled1, IndirectBlocks, Grown1, Keeps
<1> QED
  BY <1>1, <1>2

\* Growing and growing again.
LEMMA Grown1Twice ==
    ASSUME NEW d, NEW p, NEW d2, NEW p2, NEW d3, NEW p3,
           Grown1(d, p, d2, p2), Grown1(d2, p2, d3, p3)
    PROVE  Grown1(d, p, d3, p3)
<1>1. CASE p = 0
  BY <1>1 DEF Grown1
<1>2. CASE p # 0
  BY <1>2, Zenon DEF Grown1, Keeps
<1> QED
  BY <1>1, <1>2

\* What n turns of the loop over pointer blocks have done.
BlockSteps(fs, blocks, done, n, num) ==
    /\ fs.map \subseteq done.fs.map
    /\ \A s \in fs.map :
          (\A i \in Pointers : s \notin Tree1(fs.disk, blocks[i])) => done.fs.disk[s] = fs.disk[s]
    /\ \A i \in Pointers : Tree1(done.fs.disk, done.blocks[i])
                             \subseteq Tree1(fs.disk, blocks[i]) \cup (done.fs.map \ fs.map)
    /\ \A i \in Pointers : Grown1(fs.disk, blocks[i], done.fs.disk, done.blocks[i])
    /\ Apart1(done.fs.disk, done.blocks)
    /\ done.ok => \A i \in 0..(n - 1) : Filled1(done.fs.disk, done.blocks[i], Subsize(num, i))
    /\ done.ok => \A s \in done.fs.map \ fs.map :
                     \E i \in 0..(n - 1) : s \in IndirectBlocks(done.fs.disk, done.blocks[i], Subsize(num, i))

\* Another turn.
LEMMA ReserveOneBlockSteps ==
    ASSUME NEW fs \in FsType, 0 \in fs.map,
           NEW blocks \in [Pointers -> Sectors],
           \A i \in Pointers : Tree1(fs.disk, blocks[i]) \subseteq fs.map,
           NEW done \in DoneType(INDIRECT_BLOCKS_PER_SECTOR), NEW n \in Pointers,
           NEW num, Subsize(num, n) \in 1..INDIRECT_BLOCKS_PER_SECTOR,
           BlockSteps(fs, blocks, done, n, num)
    PROVE  \/ BlockSteps(fs, blocks, ReserveOneBlock(done, n, num), n + 1, num)
           \/ Broke(ReserveOneBlock(done, n, num))
<1> DEFINE next == ReserveOneBlock(done, n, num)
           old == done.blocks
           d == done.fs.disk
           r == inode_reserve_indirect_1(done.fs, old[n], Subsize(num, n))
<1>0. n \in Nat /\ n \in 0..(INDIRECT_BLOCKS_PER_SECTOR - 1) /\ INDIRECT_BLOCKS_PER_SECTOR \in Nat
  BY SizesAssumption DEF Pointers
<1>1. /\ done.fs \in FsType /\ old \in [Pointers -> Sectors]
      /\ old[n] \in Sectors /\ fs.map \subseteq Sectors
  BY DEF DoneType, FsType, Pointers
<1>2. \A i \in 0..((n + 1) - 1) : i \in 0..(n - 1) \/ i = n
  BY <1>0
<1>3. \A i \in 0..(n - 1) : i \in 0..((n + 1) - 1) /\ i \in Pointers /\ i # n
  BY <1>0 DEF Pointers
<1>4. n \in 0..((n + 1) - 1)
  BY <1>0
<1>5. CASE ~done.ok
  <2>1. next = done
    BY <1>5 DEF ReserveOneBlock
  <2> QED
    BY <1>5, <2>1 DEF BlockSteps
<1>6. CASE done.ok
  <2>1. next = Stored(old, n, r)
    BY <1>6 DEF ReserveOneBlock
  <2>2. next.fs = r.fs /\ next.blocks = [old EXCEPT ![n] = r.p] /\ next.ok = r.ok
    BY <2>1 DEF Stored
  <2>3. /\ \A i \in Pointers : i # n => next.blocks[i] = old[i]
        /\ next.blocks[n] = r.p
    BY <2>2, <1>1
  <2>4. /\ \A i \in Pointers : Tree1(d, old[i]) \subseteq done.fs.map
        /\ 0 \in done.fs.map /\ Proper1(d, old[n])
        /\ \A i \in Pointers : i # n => Tree1(d, old[i]) \cap Tree1(d, old[n]) = {}
    BY <1>1 DEF BlockSteps, Apart1
  <2> HIDE DEF next, old, d
  <2>5. Good1(done.fs, old[n], Subsize(num, n), r) \/ Broke(r)
    <3>1. Tree1(done.fs.disk, old[n]) \subseteq done.fs.map /\ Proper1(done.fs.disk, old[n])
      BY <2>4 DEF d
    <3> QED
      BY <3>1, <2>4, <1>1, Reserve1Steps
  <2> HIDE DEF r
  <2>6. CASE Broke(r)
    BY <2>6, <2>2 DEF Broke, next
  <2>7. CASE Good1(done.fs, old[n], Subsize(num, n), r)
    <3> DEFINE e == r.fs.disk
    <3>0. d = done.fs.disk /\ e = r.fs.disk /\ next.fs.disk = e /\ next.fs.map = r.fs.map
      BY <2>2 DEF d
    <3>1. /\ r.p # 0
          /\ done.fs.map \subseteq r.fs.map
          /\ \A s \in done.fs.map \ Tree1(d, old[n]) : e[s] = d[s]
          /\ Proper1(e, r.p)
          /\ Tree1(e, r.p) \subseteq Tree1(d, old[n]) \cup (r.fs.map \ done.fs.map)
          /\ Grown1(d, old[n], e, r.p)
          /\ r.ok => /\ Filled1(e, r.p, Subsize(num, n))
                     /\ r.fs.map \ done.fs.map \subseteq IndirectBlocks(e, r.p, Subsize(num, n))
      BY <2>7 DEF Good1, d
    <3> HIDE DEF e
    <3>2. ASSUME NEW j \in Pointers, j # n
          PROVE  /\ Tree1(e, old[j]) = Tree1(d, old[j])
                 /\ Proper1(e, old[j]) <=> Proper1(d, old[j])
                 /\ \A m : Filled1(e, old[j], m) <=> Filled1(d, old[j], m)
                 /\ old[j] # 0 => \A m : IndirectBlocks(e, old[j], m) = IndirectBlocks(d, old[j], m)
                 /\ Grown1(d, old[j], e, old[j])
      <4>1. old[j] # 0 => old[j] \in Tree1(d, old[j])
        BY DEF Tree1
      <4>2. old[j] # 0 => e[old[j]] = d[old[j]]
        BY <4>1, <3>1, <3>2, <2>4
      <4> QED
        BY <4>2, Same1
    <3>3. fs.map \subseteq next.fs.map
      BY <3>0, <3>1 DEF BlockSteps
    <3>4. ASSUME NEW s \in fs.map, \A i \in Pointers : s \notin Tree1(fs.disk, blocks[i])
          PROVE  next.fs.disk[s] = fs.disk[s]
      <4>1. s \in done.fs.map /\ done.fs.disk[s] = fs.disk[s]
        BY <3>4 DEF BlockSteps
      <4>2. s \notin Tree1(d, old[n])
        BY <3>4 DEF BlockSteps, d, old
      <4> QED
        BY <4>1, <4>2, <3>0, <3>1
    <3>5. ASSUME NEW i \in Pointers
          PROVE  Tree1(next.fs.disk, next.blocks[i])
                   \subseteq Tree1(fs.disk, blocks[i]) \cup (next.fs.map \ fs.map)
      <4>0. Tree1(d, old[i]) \subseteq Tree1(fs.disk, blocks[i]) \cup (done.fs.map \ fs.map)
        BY DEF BlockSteps, d, old
      <4>1. CASE i = n
        BY <4>0, <4>1, <3>0, <3>1, <3>3, <2>3 DEF BlockSteps
      <4>2. CASE i # n
        BY <4>0, <4>2, <3>0, <3>1, <3>2, <2>3
      <4> QED
        BY <4>1, <4>2
    <3>6. ASSUME NEW i \in Pointers PROVE Grown1(fs.disk, blocks[i], next.fs.disk, next.blocks[i])
      <4>1. Grown1(fs.disk, blocks[i], d, old[i])
        BY DEF BlockSteps, d, old
      <4>2. Grown1(d, old[i], e, next.blocks[i])
        BY <3>1, <3>2, <2>3
      <4> QED
        BY <4>1, <4>2, <3>0, Grown1Twice
    <3>7. Apart1(next.fs.disk, next.blocks)
      <4>1. \A i \in Pointers : Proper1(e, next.blocks[i])
        BY <3>1, <3>2, <2>3 DEF BlockSteps, Apart1, d, old
      <4>2. \A j \in Pointers : j # n => Tree1(e, next.blocks[j]) \cap Tree1(e, next.blocks[n]) = {}
        BY <3>1, <3>2, <2>3, <2>4
      <4>3. \A i, j \in Pointers : i # j /\ i # n /\ j # n
                => Tree1(e, next.blocks[i]) \cap Tree1(e, next.blocks[j]) = {}
        BY <3>2, <2>3 DEF BlockSteps, Apart1, d, old
      <4> QED
        BY <4>1, <4>2, <4>3, <3>0 DEF Apart1
    <3>8. ASSUME next.ok, NEW i \in 0..((n + 1) - 1) PROVE Filled1(next.fs.disk, next.blocks[i], Subsize(num, i))
      <4>1. CASE i = n
        BY <4>1, <3>0, <3>1, <3>8, <2>2, <2>3
      <4>2. CASE i # n
        <5>1. i \in 0..(n - 1) /\ i \in Pointers
          BY <4>2, <1>2, <1>3
        <5>2. Filled1(d, old[i], Subsize(num, i))
          BY <5>1, <1>6 DEF BlockSteps, d, old
        <5> QED
          BY <5>1, <5>2, <4>2, <3>0, <3>2, <2>3
      <4> QED
        BY <4>1, <4>2
    <3>9. ASSUME next.ok, NEW s \in next.fs.map \ fs.map
          PROVE  \E i \in 0..((n + 1) - 1) : s \in IndirectBlocks(next.fs.disk, next.blocks[i], Subsize(num, i))
      <4>1. CASE s \in done.fs.map
        <5>1. PICK i \in 0..(n - 1) : s \in IndirectBlocks(d, old[i], Subsize(num, i))
          BY <4>1, <1>6 DEF BlockSteps, d, old
        <5>2. Filled1(d, old[i], Subsize(num, i))
          BY <1>6 DEF BlockSteps, d, old
        <5>3. old[i] # 0 /\ i \in Pointers /\ i # n /\ i \in 0..((n + 1) - 1)
          BY <5>2, <1>3 DEF Filled1
        <5> QED
          BY <5>1, <5>3, <3>0, <3>2, <2>3
      <4>2. CASE s \notin done.fs.map
        BY <4>2, <3>0, <3>1, <3>9, <2>2, <2>3, <1>4
      <4> QED
        BY <4>1, <4>2
    <3>10. BlockSteps(fs, blocks, next, n + 1, num)
      BY <3>3, <3>4, <3>5, <3>6, <3>7, <3>8, <3>9 DEF BlockSteps
    <3> QED
      BY <3>10 DEF next
  <2> QED
    BY <2>5, <2>6, <2>7
<1> QED
  BY <1>5, <1>6

\* The whole loop.
LEMMA ReserveAllBlocksSteps ==
    ASSUME NEW fs \in FsType, 0 \in fs.map, NEW blocks \in [Pointers -> Sectors],
           \A i \in Pointers : Tree1(fs.disk, blocks[i]) \subseteq fs.map,
           Apart1(fs.disk, blocks),
           NEW num \in Nat, num <= INDIRECT_BLOCKS_PER_SECTOR * INDIRECT_BLOCKS_PER_SECTOR
    PROVE  LET done == ReserveAllBlocks(fs, blocks, num)
           IN  \/ BlockSteps(fs, blocks, done, DivRoundUp(num, INDIRECT_BLOCKS_PER_SECTOR), num)
               \/ Broke(done)
<1>1. PICK last \in Nat : last = DivRoundUp(num, INDIRECT_BLOCKS_PER_SECTOR)
  BY Subsizes
<1>2. PICK done \in [0..last -> DoneType(INDIRECT_BLOCKS_PER_SECTOR)] :
          BlockTurns(done, fs, blocks, num, last) /\ ReserveAllBlocks(fs, blocks, num) = done[last]
  BY <1>1, ReserveAllBlocksTurns
<1> DEFINE T == {n \in 0..last : BlockSteps(fs, blocks, done[n], n, num) \/ Broke(done[n])}
<1>3. 0 \in T
  <2>1. done[0] = Started(fs, blocks)
    BY <1>2 DEF BlockTurns
  <2>2. done[0].fs = fs /\ done[0].blocks = blocks
    BY <2>1 DEF Started
  <2>3. \A i \in Pointers : Grown1(fs.disk, blocks[i], fs.disk, blocks[i])
    BY DEF Grown1, Keeps
  <2> QED
    BY <2>2, <2>3 DEF BlockSteps
<1>4. ASSUME NEW n \in 1..last, n - 1 \in T PROVE n \in T
  <2>1. n - 1 \in 0..(last - 1) /\ n - 1 \in Pointers /\ n - 1 \in 0..last /\ n - 1 + 1 = n
    <3>1. last <= INDIRECT_BLOCKS_PER_SECTOR
      BY <1>1, Subsizes
    <3> QED
      BY <3>1, SizesAssumption DEF Pointers
  <2>2. done[n] = ReserveOneBlock(done[n - 1], n - 1, num) /\ done[n - 1] \in DoneType(INDIRECT_BLOCKS_PER_SECTOR)
    BY <1>2, <2>1 DEF BlockTurns
  <2>3. Subsize(num, n - 1) \in 1..INDIRECT_BLOCKS_PER_SECTOR
    BY <2>1, <1>1, Subsizes
  <2>4. CASE Broke(done[n - 1])
    <3>1. done[n] = done[n - 1]
      BY <2>2, <2>4 DEF ReserveOneBlock, Broke
    <3> QED
      BY <3>1, <2>4
  <2>5. CASE BlockSteps(fs, blocks, done[n - 1], n - 1, num)
    <3>1. \/ BlockSteps(fs, blocks, ReserveOneBlock(done[n - 1], n - 1, num), n - 1 + 1, num)
          \/ Broke(ReserveOneBlock(done[n - 1], n - 1, num))
      BY <2>1, <2>2, <2>3, <2>5, ReserveOneBlockSteps
    <3> QED
      BY <3>1, <2>1, <2>2
  <2> QED
    BY <2>4, <2>5, <1>4
<1>5. 0..last \subseteq T
  <2> HIDE DEF T
  <2> QED
    BY <1>3, <1>4, Climb
<1> QED
  BY <1>1, <1>2, <1>5

\* A tree of level 2 has all the pointers it had.
Grown2(d, p, d2, p2) ==
    p # 0 => p2 = p /\ \A i \in Pointers : Grown1(d, d[p].blocks[i], d2, d2[p].blocks[i])

\* What inode_reserve_indirect of level 2 promises, unless the disk is full
\* when it needs a pointer block.
Good2(fs, p, num, r) ==
    /\ r.p # 0
    /\ fs.map \subseteq r.fs.map
    /\ \A s \in fs.map \ Tree2(fs.disk, p) : r.fs.disk[s] = fs.disk[s]
    /\ Proper2(r.fs.disk, r.p)
    /\ Tree2(r.fs.disk, r.p) \subseteq Tree2(fs.disk, p) \cup (r.fs.map \ fs.map)
    /\ Grown2(fs.disk, p, r.fs.disk, r.p)
    /\ r.ok => /\ Filled2(r.fs.disk, r.p, num)
               /\ r.fs.map \ fs.map \subseteq DoublyBlocks(r.fs.disk, r.p, num)

\* A pointer that is 0 leads nowhere.
LEMMA NoTree ==
    ASSUME NEW d
    PROVE  Tree1(d, 0) = {} /\ Tree2(d, 0) = {} /\ Proper1(d, 0) /\ Proper2(d, 0)
  BY DEF Tree1, Tree2, Proper1, Proper2

\* Level 2 keeps its promise, or the disk was full and the free map's inode is
\* gone.
LEMMA Reserve2Steps ==
    ASSUME NEW fs \in FsType, NEW p \in Sectors,
           NEW num \in Nat, num >= 1, num <= INDIRECT_BLOCKS_PER_SECTOR * INDIRECT_BLOCKS_PER_SECTOR,
           0 \in fs.map, Tree2(fs.disk, p) \subseteq fs.map, Proper2(fs.disk, p)
    PROVE  LET r == inode_reserve_indirect_2(fs, p, num)
           IN  Good2(fs, p, num, r) \/ Broke(r)
<1> DEFINE b == PointerBlock(fs, p)
           q == b.p
           B == b.fs.disk[b.p].blocks
           done == ReserveAllBlocks(b.fs, B, num)
           r == WriteBack(b.p, done)
           last == DivRoundUp(num, INDIRECT_BLOCKS_PER_SECTOR)
<1>0. /\ last \in Nat /\ last <= INDIRECT_BLOCKS_PER_SECTOR /\ 0 \in 0..(last - 1)
      /\ \A i \in 0..(last - 1) : i \in Pointers
  <2>1. last \in Nat /\ last <= INDIRECT_BLOCKS_PER_SECTOR /\ last >= 1
    BY Subsizes
  <2> QED
    BY <2>1, SizesAssumption DEF Pointers
<1>1. b.fs \in FsType /\ b.p \in Sectors
  BY PointerBlockType
<1>2. \/ p # 0 /\ b.p = p /\ b.fs = fs
      \/ /\ p = 0 /\ b.p # 0 /\ b.p \notin fs.map
         /\ b.fs.map = fs.map \cup {b.p} /\ b.fs.disk[b.p] = zeros
         /\ \A t \in Sectors : t # b.p => b.fs.disk[t] = fs.disk[t]
      \/ /\ p = 0 /\ b.p = 0 /\ Sectors \subseteq fs.map
         /\ b.fs.map = fs.map /\ b.fs.disk[0] = zeros
  BY PointerBlockSteps
<1>3. inode_reserve_indirect_2(fs, p, num) = r
  BY DEF inode_reserve_indirect_2
<1> HIDE DEF b, last
<1>4. B \in [Pointers -> Sectors]
  BY <1>1 DEF FsType, SectorType
<1>z. p = 0 => \A i \in Pointers : B[i] = 0
  BY <1>2, ZeroBlocks
<1>5. /\ 0 \in b.fs.map
      /\ \A i \in Pointers : Tree1(b.fs.disk, B[i]) \subseteq b.fs.map
      /\ Apart1(b.fs.disk, B)
      /\ \A i \in Pointers : q \notin Tree1(b.fs.disk, B[i])
  <2>1. CASE p # 0
    <3>1. b.p = p /\ b.fs = fs
      BY <2>1, <1>2
    <3>2. Tree2(fs.disk, p) = {p} \cup UNION {Tree1(fs.disk, B[i]) : i \in Pointers}
      BY <2>1, <3>1 DEF Tree2
    <3>3. Apart1(fs.disk, B) /\ \A i \in Pointers : p \notin Tree1(fs.disk, B[i])
      BY <2>1, <3>1 DEF Proper2
    <3> HIDE DEF B
    <3> QED
      BY <3>1, <3>2, <3>3
  <2>2. CASE p = 0
    <3>1. \A i \in Pointers : Tree1(b.fs.disk, B[i]) = {} /\ Proper1(b.fs.disk, B[i])
      BY <2>2, <1>z, NoTree
    <3>2. 0 \in b.fs.map
      BY <2>2, <1>2
    <3> HIDE DEF B
    <3> QED
      BY <3>1, <3>2 DEF Apart1
  <2> QED
    BY <2>1, <2>2
<1> HIDE DEF B
<1>6. BlockSteps(b.fs, B, done, last, num) \/ Broke(done)
  BY <1>1, <1>4, <1>5, ReserveAllBlocksSteps DEF last
<1>7. done \in DoneType(INDIRECT_BLOCKS_PER_SECTOR)
  BY <1>1, <1>4, ReserveAllBlocksType
<1>8. done.blocks \in [Pointers -> Sectors] /\ done.fs \in FsType
  BY <1>7 DEF DoneType, Pointers
<1> HIDE DEF done
<1>9. /\ r.p = q /\ r.ok = done.ok /\ r.fs.map = done.fs.map
      /\ \A t \in Sectors : t # q => r.fs.disk[t] = done.fs.disk[t]
      /\ done.ok => r.fs.disk[q].blocks = done.blocks
      /\ ~done.ok => r.fs.disk[q] = done.fs.disk[q]
  BY <1>1, <1>7, WriteBackSteps
<1> HIDE DEF r
<1>10. CASE Broke(done)
  <2>1. ~r.ok /\ r.fs.disk[0] = done.fs.disk[0]
    BY <1>9, <1>10, SectorTypes DEF Broke
  <2> QED
    BY <2>1, <1>3, <1>10 DEF Broke, Intact
<1>11. CASE BlockSteps(b.fs, B, done, last, num) /\ q = 0
  <2>0. p = 0 /\ Sectors \subseteq b.fs.map /\ b.fs.disk[0] = zeros
    BY <1>2, <1>11
  <2>1. \A i \in Pointers : Tree1(b.fs.disk, B[i]) = {}
    BY <2>0, <1>z, NoTree
  <2>2. \A i \in Pointers : Tree1(done.fs.disk, done.blocks[i]) = {}
    BY <2>0, <2>1, <1>8, <1>11 DEF BlockSteps, FsType
  <2>3. ~done.ok
    <3>1. SUFFICES ASSUME done.ok PROVE FALSE
      OBVIOUS
    <3>2. Filled1(done.fs.disk, done.blocks[0], Subsize(num, 0))
      BY <3>1, <1>0, <1>11 DEF BlockSteps
    <3>3. done.blocks[0] # 0 /\ 0 \in Pointers
      BY <3>2, <1>0 DEF Filled1
    <3>4. done.blocks[0] \in Tree1(done.fs.disk, done.blocks[0])
      BY <3>3 DEF Tree1
    <3> QED
      BY <3>3, <3>4, <2>2
  <2>4. done.fs.disk[0] = zeros
    BY <2>0, <2>1, <1>5, <1>11 DEF BlockSteps
  <2>5. r.fs.disk[0] = zeros
    BY <2>3, <2>4, <1>9, <1>11
  <2> QED
    BY <2>3, <2>5, <1>3, <1>9, Overwritten DEF Broke, Intact
<1>12. CASE BlockSteps(b.fs, B, done, last, num) /\ q # 0
  <2> DEFINE N == r.fs.disk[q].blocks
             M == done.blocks
             c == b.fs.disk
             dd == done.fs.disk
             e == r.fs.disk
  <2>0. q \in b.fs.map /\ b.fs.map \subseteq Sectors /\ q \in Sectors
    <3>1. p # 0 => p \in fs.map
      BY DEF Tree2
    <3> QED
      BY <3>1, <1>1, <1>2, <1>12 DEF FsType
  <2>1. r.ok => N = M
    BY <1>9
  <2>2. ~r.ok => N = B
    <3>1. done.fs.disk[q] = b.fs.disk[q]
      BY <2>0, <1>5, <1>12 DEF BlockSteps
    <3> QED
      BY <3>1, <1>9 DEF B
  <2>3. /\ b.fs.map \subseteq r.fs.map
        /\ \A s \in b.fs.map : (\A i \in Pointers : s \notin Tree1(c, B[i])) => dd[s] = c[s]
        /\ \A i \in Pointers : Tree1(dd, M[i]) \subseteq Tree1(c, B[i]) \cup (r.fs.map \ b.fs.map)
        /\ \A i \in Pointers : Grown1(c, B[i], dd, M[i])
        /\ Apart1(dd, M)
        /\ r.ok => \A i \in 0..(last - 1) : Filled1(dd, M[i], Subsize(num, i))
        /\ r.ok => \A s \in r.fs.map \ b.fs.map :
                     \E i \in 0..(last - 1) : s \in IndirectBlocks(dd, M[i], Subsize(num, i))
    BY <1>9, <1>12 DEF BlockSteps
  <2>4. \A t \in Sectors : t # q => e[t] = dd[t]
    BY <1>9
  <2>5. fs.map \subseteq b.fs.map /\ (p # 0 => p = q /\ b.fs = fs) /\ (p = 0 => b.fs.map = fs.map \cup {q} /\ q \notin fs.map)
    BY <1>2, <1>12
  <2>n. r.fs.disk[q].blocks = N /\ e = r.fs.disk /\ c = b.fs.disk
    OBVIOUS
  <2>m. M \in [Pointers -> Sectors]
    BY <1>8
  <2>c. B = c[q].blocks
    BY DEF B
  <2> HIDE DEF N, M, c, dd, e, q
  <2>6. ASSUME NEW i \in Pointers
        PROVE  /\ q \notin Tree1(dd, M[i])
               /\ Tree1(e, M[i]) = Tree1(dd, M[i])
               /\ Proper1(e, M[i])
               /\ \A m : Filled1(e, M[i], m) <=> Filled1(dd, M[i], m)
               /\ M[i] # 0 => \A m : IndirectBlocks(e, M[i], m) = IndirectBlocks(dd, M[i], m)
               /\ Grown1(dd, M[i], e, M[i])
    <3>1. q \notin Tree1(dd, M[i])
      BY <2>0, <2>3, <1>5 DEF c
    <3>2. M[i] # 0 => M[i] # q
      BY <3>1 DEF Tree1
    <3>3. M[i] # 0 => e[M[i]] = dd[M[i]]
      BY <3>2, <2>4, <2>m
    <3>4. Proper1(dd, M[i])
      BY <2>3 DEF Apart1
    <3> QED
      BY <3>1, <3>3, <3>4, Same1
  <2>7. ASSUME NEW i \in Pointers
        PROVE  /\ N[i] \in {0, M[i]}
               /\ Grown1(c, B[i], e, N[i])
    <3>1. Grown1(c, B[i], dd, M[i])
      BY <2>3
    <3>2. N[i] = M[i] \/ N[i] = B[i]
      BY <2>1, <2>2
    <3>3. B[i] # 0 => M[i] = B[i]
      BY <3>1 DEF Grown1
    <3>4. Grown1(c, B[i], e, M[i])
      BY <3>1, <2>6, Grown1Twice
    <3>5. CASE B[i] = 0
      BY <3>2, <3>5 DEF Grown1
    <3>6. CASE B[i] # 0
      BY <3>2, <3>3, <3>4, <3>6
    <3> QED
      BY <3>5, <3>6
  <2>8. ASSUME NEW i \in Pointers
        PROVE  /\ Tree1(e, N[i]) \subseteq Tree1(dd, M[i])
               /\ Proper1(e, N[i])
    <3>1. CASE N[i] = 0
      BY <3>1, NoTree
    <3>2. CASE N[i] = M[i]
      BY <3>2, <2>6
    <3> QED
      BY <3>1, <3>2, <2>7
  <2>9. Tree2(e, q) = {q} \cup UNION {Tree1(e, N[i]) : i \in Pointers}
    BY <2>n, <1>12 DEF Tree2
  <2>10. Proper2(e, q)
    <3>1. Apart1(e, N)
      BY <2>3, <2>8 DEF Apart1
    <3>2. \A i \in Pointers : q \notin Tree1(e, N[i])
      BY <2>6, <2>8
    <3> QED
      BY <3>1, <3>2, <2>n DEF Proper2
  <2>11. \A s \in fs.map \ Tree2(fs.disk, p) : e[s] = fs.disk[s]
    <3>1. SUFFICES ASSUME NEW s \in fs.map \ Tree2(fs.disk, p) PROVE e[s] = fs.disk[s]
      OBVIOUS
    <3>2. CASE p # 0
      <4>1. Tree2(fs.disk, p) = {q} \cup UNION {Tree1(c, B[i]) : i \in Pointers}
        BY <3>2, <2>5, <2>n, <2>c DEF Tree2
      <4>2. s # q /\ \A i \in Pointers : s \notin Tree1(c, B[i])
        BY <4>1, <3>1
      <4>3. s \in b.fs.map /\ s \in Sectors
        BY <2>0, <2>5
      <4>4. e[s] = dd[s] /\ dd[s] = c[s]
        BY <4>2, <4>3, <2>3, <2>4
      <4> QED
        BY <4>4, <3>2, <2>5, <2>n
    <3>3. CASE p = 0
      <4>1. \A i \in Pointers : Tree1(c, B[i]) = {}
        BY <3>3, <1>z, NoTree
      <4>2. s \in b.fs.map /\ s \in Sectors /\ s # q
        BY <2>0, <2>5, <3>3
      <4>3. c[s] = fs.disk[s]
        BY <4>2, <1>2, <1>12, <3>3, <2>n DEF q
      <4> QED
        BY <4>1, <4>2, <4>3, <2>3, <2>4
    <3> QED
      BY <3>2, <3>3
  <2>12. Tree2(e, q) \subseteq Tree2(fs.disk, p) \cup (r.fs.map \ fs.map)
    <3>0. \A i \in Pointers : Tree1(e, N[i]) \subseteq Tree1(c, B[i]) \cup (r.fs.map \ fs.map)
      BY <2>3, <2>5, <2>8
    <3>1. CASE p # 0
      <4>1. Tree2(fs.disk, p) = {q} \cup UNION {Tree1(c, B[i]) : i \in Pointers}
        BY <3>1, <2>5, <2>n, <2>c DEF Tree2
      <4> QED
        BY <4>1, <3>0, <2>9
    <3>2. CASE p = 0
      <4>1. \A i \in Pointers : Tree1(c, B[i]) = {}
        BY <3>2, <1>z, NoTree
      <4>2. q \in r.fs.map \ fs.map
        BY <3>2, <2>0, <2>3, <2>5
      <4> QED
        BY <4>1, <4>2, <3>0, <2>9
    <3> QED
      BY <3>1, <3>2
  <2>13. Grown2(fs.disk, p, e, q)
    BY <2>5, <2>7, <2>n, <2>c DEF Grown2
  <2>14. ASSUME r.ok PROVE Filled2(e, q, num) /\ r.fs.map \ fs.map \subseteq DoublyBlocks(e, q, num)
    <3>0. N = M
      BY <2>1, <2>14
    <3>1. \A i \in 0..(last - 1) : Filled1(e, N[i], Subsize(num, i))
      BY <3>0, <2>3, <2>6, <2>14, <1>0
    <3>2. Filled2(e, q, num)
      BY <3>1, <2>n, <1>12 DEF Filled2, last
    <3>3. DoublyBlocks(e, q, num) = {q} \cup UNION {IndirectBlocks(e, N[i], Subsize(num, i)) : i \in 0..(last - 1)}
      BY <2>n DEF DoublyBlocks, last
    <3>4. ASSUME NEW s \in r.fs.map \ b.fs.map PROVE s \in DoublyBlocks(e, q, num)
      <4>1. PICK i \in 0..(last - 1) : s \in IndirectBlocks(dd, M[i], Subsize(num, i))
        BY <2>3, <2>14
      <4>2. M[i] # 0
        BY <3>0, <3>1 DEF Filled1
      <4>3. s \in IndirectBlocks(e, N[i], Subsize(num, i))
        BY <4>1, <4>2, <3>0, <2>6, <1>0
      <4> QED
        BY <4>3, <3>3
    <3>5. q \in DoublyBlocks(e, q, num)
      BY <3>3
    <3> QED
      BY <3>2, <3>4, <3>5, <2>5
  <2>15. fs.map \subseteq r.fs.map /\ r.p # 0 /\ r.p = q
    BY <2>3, <2>5, <1>9, <1>12
  <2> QED
    BY <2>10, <2>11, <2>12, <2>13, <2>14, <2>15, <2>n, <1>3 DEF Good2
<1> QED
  BY <1>6, <1>10, <1>11, <1>12

\* A tree of level 2 depends on what its own sectors hold only.
LEMMA Same2 ==
    ASSUME NEW d, NEW d2, NEW p, \A s \in Tree2(d, p) : d2[s] = d[s]
    PROVE  /\ Tree2(d2, p) = Tree2(d, p)
           /\ Proper2(d2, p) <=> Proper2(d, p)
           /\ Grown2(d, p, d2, p)
           /\ p # 0 => d2[p] = d[p]
           /\ \A i \in Pointers : p # 0 /\ d[p].blocks[i] # 0 => d2[d[p].blocks[i]] = d[d[p].blocks[i]]
<1>1. CASE p = 0
  BY <1>1 DEF Tree2, Proper2, Grown2
<1>2. CASE p # 0
  <2> DEFINE B == d[p].blocks
  <2>1. Tree2(d, p) = {p} \cup UNION {Tree1(d, B[i]) : i \in Pointers}
    BY <1>2 DEF Tree2
  <2>2. d2[p] = d[p]
    BY <2>1
  <2>3. ASSUME NEW i \in Pointers, B[i] # 0 PROVE d2[B[i]] = d[B[i]]
    <3>1. B[i] \in Tree1(d, B[i])
      BY <2>3 DEF Tree1
    <3> QED
      BY <3>1, <2>1
  <2>4. \A i \in Pointers : /\ Tree1(d2, B[i]) = Tree1(d, B[i])
                            /\ Proper1(d2, B[i]) <=> Proper1(d, B[i])
                            /\ Grown1(d, B[i], d2, B[i])
    <3> HIDE DEF B
    <3> QED
      BY <2>3, Same1
  <2>5. d2[p].blocks = B
    BY <2>2
  <2>6. Tree2(d2, p) = {p} \cup UNION {Tree1(d2, B[i]) : i \in Pointers}
    BY <1>2, <2>5 DEF Tree2
  <2>7. Tree2(d2, p) = Tree2(d, p)
    <3> HIDE DEF B
    <3> QED
      BY <2>1, <2>4, <2>6
  <2>8. Proper2(d2, p) <=> Proper2(d, p)
    <3>1. Proper2(d2, p) <=> Apart1(d2, B) /\ \A i \in Pointers : p \notin Tree1(d2, B[i])
      BY <1>2, <2>5 DEF Proper2
    <3>2. Proper2(d, p) <=> Apart1(d, B) /\ \A i \in Pointers : p \notin Tree1(d, B[i])
      BY <1>2 DEF Proper2
    <3> HIDE DEF B
    <3> QED
      BY <3>1, <3>2, <2>4 DEF Apart1
  <2>9. Grown2(d, p, d2, p)
    BY <2>4, <2>5 DEF Grown2
  <2> QED
    BY <2>2, <2>3, <2>7, <2>8, <2>9
<1> QED
  BY <1>1, <1>2

\* Growing and growing again.
LEMMA Grown2Twice ==
    ASSUME NEW d, NEW p, NEW d2, NEW p2, NEW d3, NEW p3,
           Grown2(d, p, d2, p2), Grown2(d2, p2, d3, p3)
    PROVE  Grown2(d, p, d3, p3)
<1>1. SUFFICES ASSUME p # 0 PROVE Grown2(d, p, d3, p3)
  BY DEF Grown2
<1>2. p2 = p /\ p3 = p
  BY <1>1 DEF Grown2
<1>3. ASSUME NEW i \in Pointers PROVE Grown1(d, d[p].blocks[i], d3, d3[p].blocks[i])
  <2>1. Grown1(d, d[p].blocks[i], d2, d2[p].blocks[i])
    BY <1>1 DEF Grown2
  <2>2. Grown1(d2, d2[p].blocks[i], d3, d3[p].blocks[i])
    BY <1>1, <1>2 DEF Grown2
  <2> QED
    BY <2>1, <2>2, Grown1Twice
<1> QED
  BY <1>2, <1>3 DEF Grown2

\* All that an inode had, it has.
Grown(d, inode, d2, inode2) ==
    /\ \A i \in Direct : Keeps(inode.direct_blocks[i], inode2.direct_blocks[i])
    /\ Grown1(d, inode.indirect_block, d2, inode2.indirect_block)
    /\ Grown2(d, inode.doubly_indirect_block, d2, inode2.doubly_indirect_block)
    /\ inode2.length = inode.length

\* What a phase of inode_reserve promises.
Reserved(fs, inode, fs2, inode2) ==
    /\ fs.map \subseteq fs2.map
    /\ \A s \in fs.map \ Tree(fs.disk, inode) : fs2.disk[s] = fs.disk[s]
    /\ Proper(fs2.disk, inode2)
    /\ Tree(fs2.disk, inode2) \subseteq Tree(fs.disk, inode) \cup (fs2.map \ fs.map)
    /\ Grown(fs.disk, inode, fs2.disk, inode2)

\* Doing nothing keeps the promise.
LEMMA ReservedNothing ==
    ASSUME NEW fs, NEW inode, Proper(fs.disk, inode)
    PROVE  Reserved(fs, inode, fs, inode)
<1>1. Grown1(fs.disk, inode.indirect_block, fs.disk, inode.indirect_block)
  BY DEF Grown1, Keeps
<1>2. Grown2(fs.disk, inode.doubly_indirect_block, fs.disk, inode.doubly_indirect_block)
  BY Same2
<1> QED
  BY <1>1, <1>2 DEF Reserved, Grown, Keeps

\* One phase after another.
LEMMA ReservedTwice ==
    ASSUME NEW fs, NEW inode, NEW fs2, NEW inode2, NEW fs3, NEW inode3,
           Reserved(fs, inode, fs2, inode2), Reserved(fs2, inode2, fs3, inode3)
    PROVE  Reserved(fs, inode, fs3, inode3)
<1>1. fs.map \subseteq fs3.map
  BY DEF Reserved
<1>2. ASSUME NEW s \in fs.map \ Tree(fs.disk, inode) PROVE fs3.disk[s] = fs.disk[s]
  <2>1. s \in fs2.map \ Tree(fs2.disk, inode2) /\ fs2.disk[s] = fs.disk[s]
    BY DEF Reserved
  <2> QED
    BY <2>1 DEF Reserved
<1>3. Tree(fs3.disk, inode3) \subseteq Tree(fs.disk, inode) \cup (fs3.map \ fs.map)
  BY DEF Reserved
<1>4. Grown(fs.disk, inode, fs3.disk, inode3)
  <2>1. Grown(fs.disk, inode, fs2.disk, inode2) /\ Grown(fs2.disk, inode2, fs3.disk, inode3)
    BY DEF Reserved
  <2>2. \A i \in Direct : Keeps(inode.direct_blocks[i], inode3.direct_blocks[i])
    BY <2>1, Zenon DEF Grown, Keeps
  <2>3. Grown1(fs.disk, inode.indirect_block, fs3.disk, inode3.indirect_block)
    BY <2>1, Grown1Twice DEF Grown
  <2>4. Grown2(fs.disk, inode.doubly_indirect_block, fs3.disk, inode3.doubly_indirect_block)
    BY <2>1, Grown2Twice DEF Grown
  <2> QED
    BY <2>1, <2>2, <2>3, <2>4 DEF Grown
<1>5. Proper(fs3.disk, inode3)
  BY DEF Reserved
<1> QED
  BY <1>1, <1>2, <1>3, <1>4, <1>5 DEF Reserved

\* The direct blocks.
LEMMA DirectSteps ==
    ASSUME NEW st \in StateType, st.ok, NEW num \in Nat, 0 \in st.fs.map,
           Proper(st.fs.disk, st.inode), Tree(st.fs.disk, st.inode) \subseteq st.fs.map
    PROVE  LET a == ReserveDirect(st, num)
           IN  /\ Reserved(st.fs, st.inode, a.fs, a.inode)
               /\ a.ok => /\ Filled0(a.inode.direct_blocks, InDirect(num))
                          /\ a.fs.map \ st.fs.map \subseteq {a.inode.direct_blocks[i] : i \in 0..(InDirect(num) - 1)}
<1> DEFINE a == ReserveDirect(st, num)
           fs == st.fs
           I == st.inode
           B == I.direct_blocks
           done == ReserveAll(fs, B, InDirect(num))
           d == fs.disk
           e == a.fs.disk
<1>0. DIRECT_BLOCKS_COUNT \in Nat /\ InDirect(num) \in Nat /\ InDirect(num) <= DIRECT_BLOCKS_COUNT
  BY SizesAssumption, Parts
<1>1. fs \in FsType /\ I \in InodeType /\ B \in [Direct -> Sectors]
  BY DEF StateType, InodeType
<1>2. /\ a.fs = done.fs /\ a.ok = done.ok
      /\ a.inode = [I EXCEPT !.direct_blocks = done.blocks]
  BY ReserveDirectType
<1>3. /\ a.inode.direct_blocks = done.blocks /\ a.inode.indirect_block = I.indirect_block
      /\ a.inode.doubly_indirect_block = I.doubly_indirect_block /\ a.inode.length = I.length
  BY <1>1, <1>2 DEF InodeType
<1>4. /\ \A i \in Direct : B[i] \in fs.map
      /\ Once(B)
      /\ Entries(B) \subseteq fs.map
      /\ Tree1(d, I.indirect_block) \subseteq fs.map
      /\ Tree2(d, I.doubly_indirect_block) \subseteq fs.map
      /\ Tree(d, I) = Entries(B) \cup Tree1(d, I.indirect_block) \cup Tree2(d, I.doubly_indirect_block)
  BY <1>1 DEF Tree, Entries, Proper
<1>5. DataSteps(fs, B, done, InDirect(num))
  <2>1. B \in [0..(DIRECT_BLOCKS_COUNT - 1) -> Sectors] /\ \A i \in 0..(DIRECT_BLOCKS_COUNT - 1) : B[i] \in fs.map
    BY <1>1, <1>4 DEF Direct
  <2> HIDE DEF fs, B
  <2> QED
    BY <1>0, <1>1, <1>4, <2>1, ReserveAllSteps DEF fs
<1>6. done.blocks \in [Direct -> Sectors]
  <2>1. B \in [0..(DIRECT_BLOCKS_COUNT - 1) -> Sectors]
    BY <1>1 DEF Direct
  <2>2. done \in DoneType(DIRECT_BLOCKS_COUNT)
    <3> HIDE DEF fs, B
    <3> QED
      BY <1>0, <1>1, <2>1, ReserveAllType
  <2> QED
    BY <2>2 DEF DoneType, Direct
<1>7. fs.map \subseteq a.fs.map /\ \A s \in fs.map : e[s] = d[s]
  BY <1>2, <1>5 DEF DataSteps
<1>e. e = a.fs.disk /\ d = fs.disk /\ fs = st.fs /\ I = st.inode
  OBVIOUS
<1>s. Proper(d, I)
  OBVIOUS
<1> HIDE DEF a, fs, I, B, done, d, e
<1>8. /\ Tree1(e, I.indirect_block) = Tree1(d, I.indirect_block)
      /\ Proper1(e, I.indirect_block) <=> Proper1(d, I.indirect_block)
      /\ Grown1(d, I.indirect_block, e, I.indirect_block)
  <2>1. I.indirect_block # 0 => e[I.indirect_block] = d[I.indirect_block]
    <3>1. I.indirect_block # 0 => I.indirect_block \in Tree1(d, I.indirect_block)
      BY DEF Tree1
    <3> QED
      BY <3>1, <1>4, <1>7
  <2> QED
    BY <2>1, Same1
<1>9. /\ Tree2(e, I.doubly_indirect_block) = Tree2(d, I.doubly_indirect_block)
      /\ Proper2(e, I.doubly_indirect_block) <=> Proper2(d, I.doubly_indirect_block)
      /\ Grown2(d, I.doubly_indirect_block, e, I.doubly_indirect_block)
  <2>1. \A s \in Tree2(d, I.doubly_indirect_block) : e[s] = d[s]
    BY <1>4, <1>7
  <2> QED
    BY <2>1, Same2
<1>10. Entries(done.blocks) \subseteq Entries(B) \cup (a.fs.map \ fs.map)
  BY <1>1, <1>2, <1>5, <1>6 DEF DataSteps, Entries
<1>11. Tree(e, a.inode) = Entries(done.blocks) \cup Tree1(d, I.indirect_block) \cup Tree2(d, I.doubly_indirect_block)
  BY <1>3, <1>8, <1>9 DEF Tree
<1>12. Proper(e, a.inode)
  <2>1. Once(done.blocks)
    BY <1>5 DEF DataSteps
  <2>2. /\ Proper1(d, I.indirect_block) /\ Proper2(d, I.doubly_indirect_block)
        /\ Entries(B) \cap Tree1(d, I.indirect_block) = {}
        /\ Entries(B) \cap Tree2(d, I.doubly_indirect_block) = {}
        /\ Tree1(d, I.indirect_block) \cap Tree2(d, I.doubly_indirect_block) = {}
    BY <1>s DEF Proper, B
  <2>3. Entries(done.blocks) \cap Tree1(d, I.indirect_block) = {}
    BY <2>2, <1>10, <1>4
  <2>4. Entries(done.blocks) \cap Tree2(d, I.doubly_indirect_block) = {}
    BY <2>2, <1>10, <1>4
  <2> QED
    BY <2>1, <2>2, <2>3, <2>4, <1>3, <1>8, <1>9 DEF Proper
<1>13. Grown(d, I, e, a.inode)
  <2>1. \A i \in Direct : Keeps(B[i], done.blocks[i])
    BY <1>5, <1>1 DEF DataSteps
  <2> QED
    BY <2>1, <1>3, <1>8, <1>9 DEF Grown, B
<1>14. Reserved(fs, I, a.fs, a.inode)
  <2>1. Tree(e, a.inode) \subseteq Tree(d, I) \cup (a.fs.map \ fs.map)
    BY <1>4, <1>10, <1>11
  <2> QED
    BY <2>1, <1>7, <1>12, <1>13, <1>e DEF Reserved
<1>15. a.ok => /\ Filled0(a.inode.direct_blocks, InDirect(num))
               /\ a.fs.map \ fs.map \subseteq {a.inode.direct_blocks[i] : i \in 0..(InDirect(num) - 1)}
  BY <1>2, <1>3, <1>5 DEF DataSteps
<1> QED
  BY <1>14, <1>15, <1>e DEF a

\* The indirect block.
LEMMA IndirectSteps ==
    ASSUME NEW st \in StateType, NEW num \in Nat, 0 \in st.fs.map,
           Proper(st.fs.disk, st.inode), Tree(st.fs.disk, st.inode) \subseteq st.fs.map
    PROVE  LET b == ReserveIndirect(st, num)
           IN  \/ Broke(b)
               \/ /\ Reserved(st.fs, st.inode, b.fs, b.inode)
                  /\ b.ok => st.ok
                  /\ InIndirect(num) = 0 => b = st
                  /\ b.ok /\ InIndirect(num) # 0 =>
                       /\ Filled1(b.fs.disk, b.inode.indirect_block, InIndirect(num))
                       /\ b.fs.map \ st.fs.map
                            \subseteq IndirectBlocks(b.fs.disk, b.inode.indirect_block, InIndirect(num))
<1> DEFINE b == ReserveIndirect(st, num)
           fs == st.fs
           I == st.inode
           p == I.indirect_block
           d == fs.disk
           e == b.fs.disk
           r == inode_reserve_indirect_1(fs, p, InIndirect(num))
<1>1. CASE ~st.ok \/ InIndirect(num) = 0
  <2>1. b = st
    BY <1>1, ReserveIndirectType
  <2> QED
    BY <2>1, <1>1, ReservedNothing
<1>2. CASE st.ok /\ InIndirect(num) # 0
  <2>1. fs \in FsType /\ I \in InodeType /\ p \in Sectors
    BY DEF StateType, InodeType
  <2>2. b.fs = r.fs /\ b.ok = r.ok /\ b.inode = [I EXCEPT !.indirect_block = r.p]
    BY <1>2, ReserveIndirectType
  <2>3. /\ b.inode.direct_blocks = I.direct_blocks /\ b.inode.indirect_block = r.p
        /\ b.inode.doubly_indirect_block = I.doubly_indirect_block /\ b.inode.length = I.length
    BY <2>1, <2>2 DEF InodeType
  <2>4. InIndirect(num) \in 1..INDIRECT_BLOCKS_PER_SECTOR
    <3>1. InIndirect(num) \in 0..INDIRECT_BLOCKS_PER_SECTOR
      BY Parts
    <3> QED
      BY <3>1, <1>2
  <2>5. /\ Once(I.direct_blocks) /\ Proper1(d, p) /\ Proper2(d, I.doubly_indirect_block)
        /\ Entries(I.direct_blocks) \cap Tree1(d, p) = {}
        /\ Entries(I.direct_blocks) \cap Tree2(d, I.doubly_indirect_block) = {}
        /\ Tree1(d, p) \cap Tree2(d, I.doubly_indirect_block) = {}
    BY DEF Proper
  <2>6. Tree(d, I) = Entries(I.direct_blocks) \cup Tree1(d, p) \cup Tree2(d, I.doubly_indirect_block)
    BY DEF Tree
  <2>7. Tree(d, I) \subseteq fs.map
    OBVIOUS
  <2>8. Good1(fs, p, InIndirect(num), r) \/ Broke(r)
    <3>1. Tree1(fs.disk, p) \subseteq fs.map /\ Proper1(fs.disk, p) /\ 0 \in fs.map
      BY <2>5, <2>6, <2>7
    <3> HIDE DEF fs, I, p
    <3> QED
      BY <3>1, <2>1, <2>4, Reserve1Steps
  <2>e. e = b.fs.disk /\ d = fs.disk /\ fs = st.fs /\ I = st.inode
    OBVIOUS
  <2> HIDE DEF b, fs, I, p, d, e, r
  <2>9. CASE Broke(r)
    BY <2>9, <2>2 DEF Broke, b
  <2>10. CASE Good1(fs, p, InIndirect(num), r)
    <3>1. /\ r.p # 0
          /\ fs.map \subseteq b.fs.map
          /\ \A s \in fs.map \ Tree1(d, p) : e[s] = d[s]
          /\ Proper1(e, r.p)
          /\ Tree1(e, r.p) \subseteq Tree1(d, p) \cup (b.fs.map \ fs.map)
          /\ Grown1(d, p, e, r.p)
          /\ b.ok => /\ Filled1(e, r.p, InIndirect(num))
                     /\ b.fs.map \ fs.map \subseteq IndirectBlocks(e, r.p, InIndirect(num))
      BY <2>10, <2>2, <2>e DEF Good1
    <3>2. /\ Tree2(e, I.doubly_indirect_block) = Tree2(d, I.doubly_indirect_block)
          /\ Proper2(e, I.doubly_indirect_block) <=> Proper2(d, I.doubly_indirect_block)
          /\ Grown2(d, I.doubly_indirect_block, e, I.doubly_indirect_block)
      <4>1. \A s \in Tree2(d, I.doubly_indirect_block) : e[s] = d[s]
        BY <3>1, <2>5, <2>6, <2>7
      <4> QED
        BY <4>1, Same2
    <3>3. Tree(e, b.inode) = Entries(I.direct_blocks) \cup Tree1(e, r.p) \cup Tree2(d, I.doubly_indirect_block)
      BY <3>2, <2>3 DEF Tree
    <3>4. Proper(e, b.inode)
      <4>1. Entries(I.direct_blocks) \cap Tree1(e, r.p) = {}
        BY <3>1, <2>5, <2>6, <2>7
      <4>2. Tree1(e, r.p) \cap Tree2(d, I.doubly_indirect_block) = {}
        BY <3>1, <2>5, <2>6, <2>7
      <4> QED
        BY <4>1, <4>2, <3>1, <3>2, <2>3, <2>5 DEF Proper
    <3>5. Grown(d, I, e, b.inode)
      BY <3>1, <3>2, <2>3 DEF Grown, Keeps, p
    <3>6. Tree(e, b.inode) \subseteq Tree(d, I) \cup (b.fs.map \ fs.map)
      BY <3>1, <3>3, <2>6
    <3>7. Reserved(fs, I, b.fs, b.inode)
      BY <3>1, <3>4, <3>5, <3>6, <2>6, <2>e DEF Reserved
    <3> QED
      BY <3>1, <3>7, <2>3, <2>e, <1>2 DEF b
  <2> QED
    BY <2>8, <2>9, <2>10
<1> QED
  BY <1>1, <1>2

\* The doubly indirect block.
LEMMA DoublySteps ==
    ASSUME NEW st \in StateType, NEW num \in Nat, 0 \in st.fs.map,
           Proper(st.fs.disk, st.inode), Tree(st.fs.disk, st.inode) \subseteq st.fs.map
    PROVE  LET b == ReserveDoubly(st, num)
           IN  \/ Broke(b)
               \/ /\ Reserved(st.fs, st.inode, b.fs, b.inode)
                  /\ b.ok => st.ok
                  /\ InDoubly(num) = 0 => b = st
                  /\ b.ok /\ InDoubly(num) # 0 =>
                       /\ Filled2(b.fs.disk, b.inode.doubly_indirect_block, InDoubly(num))
                       /\ b.fs.map \ st.fs.map
                            \subseteq DoublyBlocks(b.fs.disk, b.inode.doubly_indirect_block, InDoubly(num))
<1> DEFINE b == ReserveDoubly(st, num)
           fs == st.fs
           I == st.inode
           p == I.doubly_indirect_block
           d == fs.disk
           e == b.fs.disk
           r == inode_reserve_indirect_2(fs, p, InDoubly(num))
<1>1. CASE ~st.ok \/ InDoubly(num) = 0
  <2>1. b = st
    BY <1>1, ReserveDoublyType
  <2> QED
    BY <2>1, <1>1, ReservedNothing
<1>2. CASE st.ok /\ InDoubly(num) # 0
  <2>1. fs \in FsType /\ I \in InodeType /\ p \in Sectors
    BY DEF StateType, InodeType
  <2>2. b.fs = r.fs /\ b.ok = r.ok /\ b.inode = [I EXCEPT !.doubly_indirect_block = r.p]
    BY <1>2, ReserveDoublyType
  <2>3. /\ b.inode.direct_blocks = I.direct_blocks /\ b.inode.doubly_indirect_block = r.p
        /\ b.inode.indirect_block = I.indirect_block /\ b.inode.length = I.length
    BY <2>1, <2>2 DEF InodeType
  <2>4. /\ InDoubly(num) \in Nat /\ InDoubly(num) >= 1
        /\ InDoubly(num) <= INDIRECT_BLOCKS_PER_SECTOR * INDIRECT_BLOCKS_PER_SECTOR
    <3>1. InDoubly(num) \in Nat /\ InDoubly(num) <= INDIRECT_BLOCKS_PER_SECTOR * INDIRECT_BLOCKS_PER_SECTOR
      BY Parts
    <3> QED
      BY <3>1, <1>2
  <2>5. /\ Once(I.direct_blocks) /\ Proper1(d, I.indirect_block) /\ Proper2(d, p)
        /\ Entries(I.direct_blocks) \cap Tree1(d, I.indirect_block) = {}
        /\ Entries(I.direct_blocks) \cap Tree2(d, p) = {}
        /\ Tree1(d, I.indirect_block) \cap Tree2(d, p) = {}
    BY DEF Proper
  <2>6. Tree(d, I) = Entries(I.direct_blocks) \cup Tree1(d, I.indirect_block) \cup Tree2(d, p)
    BY DEF Tree
  <2>7. Tree(d, I) \subseteq fs.map
    OBVIOUS
  <2>8. Good2(fs, p, InDoubly(num), r) \/ Broke(r)
    <3>1. Tree2(fs.disk, p) \subseteq fs.map /\ Proper2(fs.disk, p) /\ 0 \in fs.map
      BY <2>5, <2>6, <2>7
    <3> HIDE DEF fs, I, p
    <3> QED
      BY <3>1, <2>1, <2>4, Reserve2Steps
  <2>e. e = b.fs.disk /\ d = fs.disk /\ fs = st.fs /\ I = st.inode
    OBVIOUS
  <2> HIDE DEF b, fs, I, p, d, e, r
  <2>9. CASE Broke(r)
    BY <2>9, <2>2 DEF Broke, b
  <2>10. CASE Good2(fs, p, InDoubly(num), r)
    <3>1. /\ r.p # 0
          /\ fs.map \subseteq b.fs.map
          /\ \A s \in fs.map \ Tree2(d, p) : e[s] = d[s]
          /\ Proper2(e, r.p)
          /\ Tree2(e, r.p) \subseteq Tree2(d, p) \cup (b.fs.map \ fs.map)
          /\ Grown2(d, p, e, r.p)
          /\ b.ok => /\ Filled2(e, r.p, InDoubly(num))
                     /\ b.fs.map \ fs.map \subseteq DoublyBlocks(e, r.p, InDoubly(num))
      BY <2>10, <2>2, <2>e DEF Good2
    <3>2. /\ Tree1(e, I.indirect_block) = Tree1(d, I.indirect_block)
          /\ Proper1(e, I.indirect_block) <=> Proper1(d, I.indirect_block)
          /\ Grown1(d, I.indirect_block, e, I.indirect_block)
      <4>1. I.indirect_block # 0 => I.indirect_block \in Tree1(d, I.indirect_block)
        BY DEF Tree1
      <4>2. I.indirect_block # 0 => e[I.indirect_block] = d[I.indirect_block]
        BY <4>1, <3>1, <2>5, <2>6, <2>7
      <4> QED
        BY <4>2, Same1
    <3>3. Tree(e, b.inode) = Entries(I.direct_blocks) \cup Tree1(d, I.indirect_block) \cup Tree2(e, r.p)
      BY <3>2, <2>3 DEF Tree
    <3>4. Proper(e, b.inode)
      <4>1. Entries(I.direct_blocks) \cap Tree2(e, r.p) = {}
        BY <3>1, <2>5, <2>6, <2>7
      <4>2. Tree1(d, I.indirect_block) \cap Tree2(e, r.p) = {}
        BY <3>1, <2>5, <2>6, <2>7
      <4> QED
        BY <4>1, <4>2, <3>1, <3>2, <2>3, <2>5 DEF Proper
    <3>5. Grown(d, I, e, b.inode)
      BY <3>1, <3>2, <2>3 DEF Grown, Keeps, p
    <3>6. Tree(e, b.inode) \subseteq Tree(d, I) \cup (b.fs.map \ fs.map)
      BY <3>1, <3>3, <2>6
    <3>7. Reserved(fs, I, b.fs, b.inode)
      BY <3>1, <3>4, <3>5, <3>6, <2>6, <2>e DEF Reserved
    <3> QED
      BY <3>1, <3>7, <2>3, <2>e, <1>2 DEF b
  <2> QED
    BY <2>8, <2>9, <2>10
<1> QED
  BY <1>1, <1>2

\* A longer file has more of each part.
LEMMA PartsGrow ==
    ASSUME NEW n \in Nat, NEW m \in Nat, n <= m
    PROVE  InDirect(n) <= InDirect(m) /\ InIndirect(n) <= InIndirect(m) /\ InDoubly(n) <= InDoubly(m)
<1>1. PICK d \in Nat : d = DIRECT_BLOCKS_COUNT
  BY SizesAssumption
<1>2. PICK k \in Nat : k = INDIRECT_BLOCKS_PER_SECTOR
  BY SizesAssumption
<1>3. PICK kk \in Nat : kk = k * k
  OBVIOUS
<1> DEFINE A(x) == Smaller(x, d)
           B(x) == Smaller(x - A(x), k)
           C(x) == Smaller(x - A(x) - B(x), kk)
<1>4. \A x : InDirect(x) = A(x) /\ InIndirect(x) = B(x) /\ InDoubly(x) = C(x)
  BY <1>1, <1>2, <1>3 DEF InDirect, InIndirect, InDoubly
<1>5. \A x \in Nat : /\ A(x) \in Nat
                     /\ A(x) <= d /\ A(x) <= x /\ (A(x) = d \/ A(x) = x)
  BY DEF Smaller
<1>6. \A x, y \in Int : Smaller(x, y) \in Int /\ Smaller(x, y) <= x /\ Smaller(x, y) <= y /\ Smaller(x, y) \in {x, y}
  BY DEF Smaller
<1>7. A(n) <= A(m) /\ n - A(n) <= m - A(m)
  BY <1>5
<1> HIDE DEF A
<1>8. PICK x \in Int, y \in Int : x = n - A(n) /\ y = m - A(m) /\ x <= y
  BY <1>5, <1>7
<1>9. B(n) <= B(m) /\ x - B(n) <= y - B(m) /\ B(n) \in Int /\ B(m) \in Int
  BY <1>6, <1>8 DEF Smaller
<1> HIDE DEF B
<1>10. C(n) <= C(m)
  BY <1>8, <1>9 DEF Smaller
<1> QED
  BY <1>4, <1>7, <1>9, <1>10

\* A longer file has more of each pointer block.
LEMMA SubsizesGrow ==
    ASSUME NEW n \in Nat, NEW m \in Nat, n <= m,
           NEW i \in 0..(DivRoundUp(n, INDIRECT_BLOCKS_PER_SECTOR) - 1)
    PROVE  /\ i \in 0..(DivRoundUp(m, INDIRECT_BLOCKS_PER_SECTOR) - 1)
           /\ Subsize(n, i) <= Subsize(m, i)
<1>1. PICK k \in Nat : k = INDIRECT_BLOCKS_PER_SECTOR /\ k > 0
  BY SizesAssumption
<1>2. PICK a \in Nat : a = DivRoundUp(n, k) /\ \A j \in Nat : j < a <=> j * k < n
  BY <1>1, RoundUp
<1>3. PICK b \in Nat : b = DivRoundUp(m, k) /\ \A j \in Nat : j < b <=> j * k < m
  BY <1>1, RoundUp
<1>4. i \in Nat /\ i < a
  BY <1>1, <1>2
<1>5. PICK c \in Nat : c = i * k
  BY <1>4
<1>6. c < n
  BY <1>2, <1>4, <1>5
<1>7. i < b
  BY <1>3, <1>4, <1>5, <1>6
<1>8. Smaller(n - c, k) <= Smaller(m - c, k)
  BY <1>6 DEF Smaller
<1>9. Subsize(n, i) = Smaller(n - c, k) /\ Subsize(m, i) = Smaller(m - c, k)
  BY <1>1, <1>5 DEF Subsize
<1> QED
  BY <1>1, <1>3, <1>4, <1>7, <1>8, <1>9

\* A block that has grown covers what it covered.
LEMMA Covers1 ==
    ASSUME NEW d, NEW p, NEW d2, NEW p2, Grown1(d, p, d2, p2),
           NEW n \in Nat, NEW m \in Nat, n <= m, m <= INDIRECT_BLOCKS_PER_SECTOR, Filled1(d, p, n)
    PROVE  /\ IndirectBlocks(d, p, n) \subseteq IndirectBlocks(d2, p2, m)
           /\ Filled1(d2, p2, n)
<1>1. p # 0 /\ p2 = p
  BY DEF Filled1, Grown1
<1>2. \A i \in 0..(n - 1) : i \in 0..(m - 1) /\ i \in Pointers
  BY SizesAssumption DEF Pointers
<1>3. \A i \in 0..(n - 1) : d[p].blocks[i] # 0 /\ d2[p].blocks[i] = d[p].blocks[i]
  BY <1>1, <1>2 DEF Filled1, Filled0, Grown1, Keeps
<1>4. IndirectBlocks(d, p, n) \subseteq IndirectBlocks(d2, p2, m)
  BY <1>1, <1>2, <1>3 DEF IndirectBlocks
<1>5. Filled1(d2, p2, n)
  BY <1>1, <1>3 DEF Filled1, Filled0
<1> QED
  BY <1>4, <1>5

\* The same for the blocks below a doubly indirect block.
LEMMA Covers2 ==
    ASSUME NEW d, NEW p, NEW d2, NEW p2, Grown2(d, p, d2, p2),
           NEW n \in Nat, NEW m \in Nat, n <= m,
           m <= INDIRECT_BLOCKS_PER_SECTOR * INDIRECT_BLOCKS_PER_SECTOR, Filled2(d, p, n)
    PROVE  /\ DoublyBlocks(d, p, n) \subseteq DoublyBlocks(d2, p2, m)
           /\ Filled2(d2, p2, n)
<1> DEFINE a == DivRoundUp(n, INDIRECT_BLOCKS_PER_SECTOR)
           b == DivRoundUp(m, INDIRECT_BLOCKS_PER_SECTOR)
           B == d[p].blocks
           C == d2[p].blocks
<1>1. p # 0 /\ p2 = p
  BY DEF Filled2, Grown2
<1>2. ASSUME NEW i \in 0..(a - 1)
      PROVE  /\ i \in 0..(b - 1) /\ i \in Pointers
             /\ Subsize(n, i) \in Nat /\ Subsize(m, i) \in Nat
             /\ Subsize(n, i) <= Subsize(m, i) /\ Subsize(m, i) <= INDIRECT_BLOCKS_PER_SECTOR
  <2>1. i \in 0..(b - 1) /\ Subsize(n, i) <= Subsize(m, i)
    BY SubsizesGrow
  <2>2. b \in Nat /\ b <= INDIRECT_BLOCKS_PER_SECTOR
    BY Subsizes
  <2>3. Subsize(n, i) \in 1..INDIRECT_BLOCKS_PER_SECTOR /\ Subsize(m, i) \in 1..INDIRECT_BLOCKS_PER_SECTOR
    BY <2>1, Subsizes
  <2>4. i \in Pointers
    <3> HIDE DEF b
    <3> QED
      BY <2>1, <2>2, SizesAssumption DEF Pointers
  <2> QED
    BY <2>1, <2>3, <2>4, SizesAssumption
<1>3. ASSUME NEW i \in 0..(a - 1)
      PROVE  /\ IndirectBlocks(d, B[i], Subsize(n, i)) \subseteq IndirectBlocks(d2, C[i], Subsize(m, i))
             /\ Filled1(d2, C[i], Subsize(n, i))
  <2>1. Grown1(d, B[i], d2, C[i])
    BY <1>1, <1>2 DEF Grown2
  <2>2. Filled1(d, B[i], Subsize(n, i))
    BY DEF Filled2
  <2> HIDE DEF B, C, a, b
  <2> QED
    BY <2>1, <2>2, <1>2, Covers1
<1>4. DoublyBlocks(d, p, n) = {p} \cup UNION {IndirectBlocks(d, B[i], Subsize(n, i)) : i \in 0..(a - 1)}
  BY DEF DoublyBlocks
<1>5. DoublyBlocks(d2, p2, m) = {p} \cup UNION {IndirectBlocks(d2, C[i], Subsize(m, i)) : i \in 0..(b - 1)}
  BY <1>1 DEF DoublyBlocks
<1>6. Filled2(d2, p2, n)
  BY <1>1, <1>3 DEF Filled2
<1> HIDE DEF a, b, B, C
<1>7. DoublyBlocks(d, p, n) \subseteq DoublyBlocks(d2, p2, m)
  BY <1>2, <1>3, <1>4, <1>5
<1> QED
  BY <1>6, <1>7

\* The sectors that num blocks of a file take.
Covered(d, inode, num) ==
    {inode.direct_blocks[i] : i \in 0..(InDirect(num) - 1)}
    \cup (IF InIndirect(num) = 0 THEN {} ELSE IndirectBlocks(d, inode.indirect_block, InIndirect(num)))
    \cup (IF InDoubly(num) = 0 THEN {} ELSE DoublyBlocks(d, inode.doubly_indirect_block, InDoubly(num)))

\* An inode that has grown covers what it covered.
LEMMA Covers ==
    ASSUME NEW d, NEW inode, NEW d2, NEW inode2, Grown(d, inode, d2, inode2),
           NEW n \in Nat, NEW m \in Nat, n <= m, Filled(d, inode, n)
    PROVE  /\ Covered(d, inode, n) \subseteq Covered(d2, inode2, m)
           /\ Filled(d2, inode2, n)
<1>1. /\ InDirect(n) \in Nat /\ InDirect(m) \in Nat /\ InDirect(n) <= InDirect(m)
      /\ InDirect(m) <= DIRECT_BLOCKS_COUNT
  BY Parts, PartsGrow
<1>2. /\ InIndirect(n) \in Nat /\ InIndirect(m) \in Nat
      /\ InIndirect(n) <= InIndirect(m) /\ InIndirect(m) <= INDIRECT_BLOCKS_PER_SECTOR
  <2>1. InIndirect(n) \in 0..INDIRECT_BLOCKS_PER_SECTOR /\ InIndirect(m) \in 0..INDIRECT_BLOCKS_PER_SECTOR
    BY Parts
  <2>2. InIndirect(n) <= InIndirect(m)
    BY PartsGrow
  <2> QED
    BY <2>1, <2>2, SizesAssumption
<1>3. /\ InDoubly(n) \in Nat /\ InDoubly(m) \in Nat
      /\ InDoubly(n) <= InDoubly(m)
      /\ InDoubly(m) <= INDIRECT_BLOCKS_PER_SECTOR * INDIRECT_BLOCKS_PER_SECTOR
  BY Parts, PartsGrow
<1>4. \A i \in 0..(InDirect(n) - 1) : i \in Direct /\ i \in 0..(InDirect(m) - 1)
  BY <1>1, SizesAssumption DEF Direct
<1>5. \A i \in 0..(InDirect(n) - 1) : /\ inode.direct_blocks[i] # 0
                                      /\ inode2.direct_blocks[i] = inode.direct_blocks[i]
  BY <1>4 DEF Filled, Filled0, Grown, Keeps
<1>6. /\ {inode.direct_blocks[i] : i \in 0..(InDirect(n) - 1)}
           \subseteq {inode2.direct_blocks[i] : i \in 0..(InDirect(m) - 1)}
      /\ Filled0(inode2.direct_blocks, InDirect(n))
  BY <1>4, <1>5 DEF Filled0
<1>7. ASSUME InIndirect(n) # 0
      PROVE  /\ IndirectBlocks(d, inode.indirect_block, InIndirect(n))
                  \subseteq IndirectBlocks(d2, inode2.indirect_block, InIndirect(m))
             /\ Filled1(d2, inode2.indirect_block, InIndirect(n))
             /\ InIndirect(m) # 0
  <2>1. Filled1(d, inode.indirect_block, InIndirect(n)) /\ Grown1(d, inode.indirect_block, d2, inode2.indirect_block)
    BY <1>7 DEF Filled, Grown
  <2>2. InIndirect(m) # 0
    BY <1>2, <1>7
  <2> QED
    BY <2>1, <2>2, <1>2, Covers1
<1>8. ASSUME InDoubly(n) # 0
      PROVE  /\ DoublyBlocks(d, inode.doubly_indirect_block, InDoubly(n))
                  \subseteq DoublyBlocks(d2, inode2.doubly_indirect_block, InDoubly(m))
             /\ Filled2(d2, inode2.doubly_indirect_block, InDoubly(n))
             /\ InDoubly(m) # 0
  <2>1. Filled2(d, inode.doubly_indirect_block, InDoubly(n)) /\ Grown2(d, inode.doubly_indirect_block, d2, inode2.doubly_indirect_block)
    BY <1>8 DEF Filled, Grown
  <2>2. InDoubly(m) # 0
    BY <1>3, <1>8
  <2> QED
    BY <2>1, <2>2, <1>3, Covers2
<1>9. Covered(d, inode, n) \subseteq Covered(d2, inode2, m)
  BY <1>6, <1>7, <1>8 DEF Covered
<1>10. Filled(d2, inode2, n)
  <2>1. n = InDirect(n) + InIndirect(n) + InDoubly(n)
    BY DEF Filled
  <2> QED
    BY <2>1, <1>6, <1>7, <1>8 DEF Filled
<1> QED
  BY <1>9, <1>10

\* inode_reserve keeps its promise, or the disk was full and the free map's
\* inode is gone.
LEMMA ReserveSteps ==
    ASSUME NEW fs \in FsType, NEW inode \in InodeType, NEW num \in Nat, 0 \in fs.map,
           Proper(fs.disk, inode), Tree(fs.disk, inode) \subseteq fs.map
    PROVE  LET r == inode_reserve(fs, inode, num)
           IN  \/ Broke(r)
               \/ /\ Reserved(fs, inode, r.fs, r.inode)
                  /\ r.ok => /\ Filled(r.fs.disk, r.inode, num)
                             /\ r.fs.map \ fs.map \subseteq Covered(r.fs.disk, r.inode, num)
<1> DEFINE st == [fs |-> fs, inode |-> inode, ok |-> TRUE]
           a == ReserveDirect(st, num)
           b == ReserveIndirect(a, num)
           c == ReserveDoubly(b, num)
           r == inode_reserve(fs, inode, num)
           fits == num = InDirect(num) + InIndirect(num) + InDoubly(num)
<1>1. r.fs = c.fs /\ r.inode = c.inode /\ (r.ok <=> c.ok /\ fits) /\ r \in StateType
  BY ReserveType
<1>2. st \in StateType /\ st.fs = fs /\ st.inode = inode /\ st.ok
  BY DEF StateType
<1> HIDE DEF st
<1>3. a \in StateType
  BY <1>2, ReserveDirectType
<1>4. /\ Reserved(fs, inode, a.fs, a.inode)
      /\ a.ok => /\ Filled0(a.inode.direct_blocks, InDirect(num))
                 /\ a.fs.map \ fs.map \subseteq {a.inode.direct_blocks[i] : i \in 0..(InDirect(num) - 1)}
  BY <1>2, DirectSteps
<1> HIDE DEF a
<1>5. 0 \in a.fs.map /\ Proper(a.fs.disk, a.inode) /\ Tree(a.fs.disk, a.inode) \subseteq a.fs.map
  BY <1>4 DEF Reserved
<1>6. b \in StateType
  BY <1>3, ReserveIndirectType
<1>7. \/ Broke(b)
      \/ /\ Reserved(a.fs, a.inode, b.fs, b.inode)
         /\ b.ok => a.ok
         /\ InIndirect(num) = 0 => b = a
         /\ b.ok /\ InIndirect(num) # 0 =>
              /\ Filled1(b.fs.disk, b.inode.indirect_block, InIndirect(num))
              /\ b.fs.map \ a.fs.map
                   \subseteq IndirectBlocks(b.fs.disk, b.inode.indirect_block, InIndirect(num))
  BY <1>3, <1>5, IndirectSteps
<1> HIDE DEF b
<1>8. CASE Broke(b)
  <2>1. c = b
    BY <1>6, <1>8, ReserveDoublyType DEF Broke
  <2> QED
    BY <2>1, <1>1, <1>8 DEF Broke
<1>9. CASE ~Broke(b)
  <2>1. Reserved(a.fs, a.inode, b.fs, b.inode)
    BY <1>7, <1>9
  <2>2. 0 \in b.fs.map /\ Proper(b.fs.disk, b.inode) /\ Tree(b.fs.disk, b.inode) \subseteq b.fs.map
    BY <2>1, <1>5 DEF Reserved
  <2>3. \/ Broke(c)
        \/ /\ Reserved(b.fs, b.inode, c.fs, c.inode)
           /\ c.ok => b.ok
           /\ InDoubly(num) = 0 => c = b
           /\ c.ok /\ InDoubly(num) # 0 =>
                /\ Filled2(c.fs.disk, c.inode.doubly_indirect_block, InDoubly(num))
                /\ c.fs.map \ b.fs.map
                     \subseteq DoublyBlocks(c.fs.disk, c.inode.doubly_indirect_block, InDoubly(num))
    BY <2>2, <1>6, DoublySteps
  <2> HIDE DEF c, r
  <2>4. CASE Broke(c)
    BY <2>4, <1>1 DEF Broke, r
  <2>5. CASE ~Broke(c)
    <3>1. Reserved(b.fs, b.inode, c.fs, c.inode)
      BY <2>3, <2>5
    <3>2. Reserved(a.fs, a.inode, c.fs, c.inode)
      BY <3>1, <2>1, ReservedTwice
    <3>3. Reserved(fs, inode, c.fs, c.inode)
      BY <3>2, <1>4, ReservedTwice
    <3>4. ASSUME c.ok, fits
          PROVE  /\ Filled(c.fs.disk, c.inode, num)
                 /\ c.fs.map \ fs.map \subseteq Covered(c.fs.disk, c.inode, num)
      <4>1. b.ok /\ a.ok
        BY <3>4, <2>3, <2>5, <1>7, <1>9
      <4> DEFINE e == c.fs.disk
                 J == c.inode
      <4>2. /\ Filled0(J.direct_blocks, InDirect(num))
            /\ {a.inode.direct_blocks[i] : i \in 0..(InDirect(num) - 1)}
                 = {J.direct_blocks[i] : i \in 0..(InDirect(num) - 1)}
        <5>1. \A i \in 0..(InDirect(num) - 1) : i \in Direct
          BY Parts, SizesAssumption DEF Direct
        <5>2. \A i \in Direct : Keeps(a.inode.direct_blocks[i], J.direct_blocks[i])
          BY <3>2 DEF Reserved, Grown
        <5>3. \A i \in 0..(InDirect(num) - 1) : a.inode.direct_blocks[i] # 0
          BY <4>1, <1>4 DEF Filled0
        <5>4. \A i \in 0..(InDirect(num) - 1) : J.direct_blocks[i] = a.inode.direct_blocks[i]
          BY <5>1, <5>2, <5>3 DEF Keeps
        <5> QED
          BY <5>3, <5>4 DEF Filled0
      <4>3. a.fs.map \ fs.map \subseteq Covered(e, J, num)
        BY <4>1, <4>2, <1>4 DEF Covered
      <4>4. InIndirect(num) # 0 => Filled1(e, J.indirect_block, InIndirect(num))
        <5>1. SUFFICES ASSUME InIndirect(num) # 0 PROVE Filled1(e, J.indirect_block, InIndirect(num))
          OBVIOUS
        <5>2. Filled1(b.fs.disk, b.inode.indirect_block, InIndirect(num))
          BY <5>1, <4>1, <1>7, <1>9
        <5>3. Grown1(b.fs.disk, b.inode.indirect_block, e, J.indirect_block)
          BY <3>1 DEF Reserved, Grown
        <5>4. InIndirect(num) \in Nat /\ InIndirect(num) <= INDIRECT_BLOCKS_PER_SECTOR
          BY Parts, SizesAssumption
        <5> QED
          BY <5>2, <5>3, <5>4, Covers1
      <4>5. b.fs.map \ a.fs.map \subseteq Covered(e, J, num)
        <5>1. CASE InIndirect(num) = 0
          BY <5>1, <1>7, <1>9
        <5>2. CASE InIndirect(num) # 0
          <6>1. /\ Filled1(b.fs.disk, b.inode.indirect_block, InIndirect(num))
                /\ b.fs.map \ a.fs.map
                     \subseteq IndirectBlocks(b.fs.disk, b.inode.indirect_block, InIndirect(num))
            BY <5>2, <4>1, <1>7, <1>9
          <6>2. Grown1(b.fs.disk, b.inode.indirect_block, e, J.indirect_block)
            BY <3>1 DEF Reserved, Grown
          <6>3. InIndirect(num) \in Nat /\ InIndirect(num) <= INDIRECT_BLOCKS_PER_SECTOR
            BY Parts, SizesAssumption
          <6>4. IndirectBlocks(b.fs.disk, b.inode.indirect_block, InIndirect(num))
                  \subseteq IndirectBlocks(e, J.indirect_block, InIndirect(num))
            BY <6>1, <6>2, <6>3, Covers1
          <6> QED
            BY <6>1, <6>4, <5>2 DEF Covered
        <5> QED
          BY <5>1, <5>2
      <4>6. c.fs.map \ b.fs.map \subseteq Covered(e, J, num)
        <5>1. CASE InDoubly(num) = 0
          BY <5>1, <2>3, <2>5
        <5>2. CASE InDoubly(num) # 0
          BY <5>2, <3>4, <2>3, <2>5 DEF Covered
        <5> QED
          BY <5>1, <5>2
      <4>7. InDoubly(num) # 0 => Filled2(e, J.doubly_indirect_block, InDoubly(num))
        BY <3>4, <2>3, <2>5
      <4>8. Filled(e, J, num)
        BY <3>4, <4>2, <4>4, <4>7 DEF Filled
      <4> HIDE DEF e, J
      <4>9. c.fs.map \ fs.map \subseteq Covered(e, J, num)
        BY <4>3, <4>5, <4>6
      <4> QED
        BY <4>8, <4>9 DEF e, J
    <3> QED
      BY <3>3, <3>4, <1>1 DEF r
  <2> QED
    BY <2>4, <2>5
<1> QED
  BY <1>8, <1>9

-----------------------------------------------------------------------------
\* A tree depends on what its own sectors hold only.
LEMMA Same ==
    ASSUME NEW d, NEW d2, NEW inode, \A s \in Tree(d, inode) : d2[s] = d[s]
    PROVE  /\ Tree(d2, inode) = Tree(d, inode)
           /\ Proper(d2, inode) <=> Proper(d, inode)
           /\ Grown(d, inode, d2, inode)
<1> DEFINE p == inode.indirect_block
           q == inode.doubly_indirect_block
<1>1. /\ Tree1(d2, p) = Tree1(d, p)
      /\ Proper1(d2, p) <=> Proper1(d, p)
      /\ Grown1(d, p, d2, p)
  <2>1. p # 0 => p \in Tree(d, inode)
    BY DEF Tree, Tree1
  <2> HIDE DEF p
  <2> QED
    BY <2>1, Same1
<1>2. /\ Tree2(d2, q) = Tree2(d, q)
      /\ Proper2(d2, q) <=> Proper2(d, q)
      /\ Grown2(d, q, d2, q)
  <2>1. \A s \in Tree2(d, q) : d2[s] = d[s]
    BY DEF Tree
  <2> HIDE DEF q
  <2> QED
    BY <2>1, Same2
<1>3. Tree(d2, inode) = Tree(d, inode)
  BY <1>1, <1>2 DEF Tree
<1>4. Proper(d2, inode) <=> Proper(d, inode)
  BY <1>1, <1>2 DEF Proper
<1>5. Grown(d, inode, d2, inode)
  BY <1>1, <1>2 DEF Grown, Keeps
<1> QED
  BY <1>3, <1>4, <1>5

\* An inode that has less leads to less.
LEMMA Less ==
    ASSUME NEW d, NEW inode \in InodeType, NEW data \in InodeType, Extends(inode, data)
    PROVE  /\ Tree(d, inode) \subseteq Tree(d, data)
           /\ Proper(d, data) => Proper(d, inode)
<1>1. DOMAIN inode.direct_blocks = Direct /\ DOMAIN data.direct_blocks = Direct
  BY DEF InodeType
<1>2. /\ Entries(inode.direct_blocks) \subseteq Entries(data.direct_blocks)
      /\ Once(data.direct_blocks) => Once(inode.direct_blocks)
  BY <1>1 DEF Entries, Once, Extends, Keeps
<1>3. /\ Tree1(d, inode.indirect_block) \subseteq Tree1(d, data.indirect_block)
      /\ Proper1(d, data.indirect_block) => Proper1(d, inode.indirect_block)
  <2>1. CASE inode.indirect_block = 0
    BY <2>1, NoTree
  <2>2. CASE inode.indirect_block # 0
    BY <2>2 DEF Extends, Keeps
  <2> QED
    BY <2>1, <2>2
<1>4. /\ Tree2(d, inode.doubly_indirect_block) \subseteq Tree2(d, data.doubly_indirect_block)
      /\ Proper2(d, data.doubly_indirect_block) => Proper2(d, inode.doubly_indirect_block)
  <2>1. CASE inode.doubly_indirect_block = 0
    BY <2>1, NoTree
  <2>2. CASE inode.doubly_indirect_block # 0
    BY <2>2 DEF Extends, Keeps
  <2> QED
    BY <2>1, <2>2
<1>5. Tree(d, inode) \subseteq Tree(d, data)
  BY <1>2, <1>3, <1>4 DEF Tree
<1>6. Proper(d, data) => Proper(d, inode)
  <2>1. SUFFICES ASSUME Proper(d, data) PROVE Proper(d, inode)
    OBVIOUS
  <2>2. /\ Once(data.direct_blocks)
        /\ Proper1(d, data.indirect_block)
        /\ Proper2(d, data.doubly_indirect_block)
        /\ Entries(data.direct_blocks) \cap Tree1(d, data.indirect_block) = {}
        /\ Entries(data.direct_blocks) \cap Tree2(d, data.doubly_indirect_block) = {}
        /\ Tree1(d, data.indirect_block) \cap Tree2(d, data.doubly_indirect_block) = {}
    BY <2>1 DEF Proper
  <2>3. /\ Entries(inode.direct_blocks) \cap Tree1(d, inode.indirect_block) = {}
        /\ Entries(inode.direct_blocks) \cap Tree2(d, inode.doubly_indirect_block) = {}
        /\ Tree1(d, inode.indirect_block) \cap Tree2(d, inode.doubly_indirect_block) = {}
    BY <2>2, <1>2, <1>3, <1>4
  <2> QED
    BY <2>2, <2>3, <1>2, <1>3, <1>4 DEF Proper
<1> QED
  BY <1>5, <1>6

\* What the inode on the disk has grows with the struct inode.
LEMMA LessGrows ==
    ASSUME NEW d, NEW d2, NEW inode, NEW data, NEW data2,
           Extends(inode, data), Grown(d, data, d2, data2)
    PROVE  Grown(d, inode, d2, inode) /\ Extends(inode, data2)
<1>1. Grown1(d, inode.indirect_block, d2, inode.indirect_block) /\ Keeps(inode.indirect_block, data2.indirect_block)
  BY DEF Extends, Keeps, Grown, Grown1
<1>2. /\ Grown2(d, inode.doubly_indirect_block, d2, inode.doubly_indirect_block)
      /\ Keeps(inode.doubly_indirect_block, data2.doubly_indirect_block)
  BY DEF Extends, Keeps, Grown, Grown2
<1>3. \A i \in Direct : Keeps(inode.direct_blocks[i], data2.direct_blocks[i])
  BY Zenon DEF Extends, Keeps, Grown
<1>4. inode.length = data2.length
  BY DEF Extends, Grown
<1> QED
  BY <1>1, <1>2, <1>3, <1>4 DEF Grown, Extends, Keeps

\* What a pointer block covers is in its tree.
LEMMA IndirectInTree ==
    ASSUME NEW d \in [Sectors -> SectorType], NEW p \in Sectors, NEW n \in Nat,
           n <= INDIRECT_BLOCKS_PER_SECTOR, Filled1(d, p, n)
    PROVE  IndirectBlocks(d, p, n) \subseteq Tree1(d, p)
<1>1. \A i \in 0..(n - 1) : i \in Pointers
  BY SizesAssumption DEF Pointers
<1>2. p # 0 /\ \A i \in 0..(n - 1) : d[p].blocks[i] # 0
  BY DEF Filled1, Filled0
<1>3. Tree1(d, p) = {p} \cup Entries(d[p].blocks)
  BY <1>2 DEF Tree1
<1>4. DOMAIN d[p].blocks = Pointers
  BY DEF SectorType
<1>5. \A i \in 0..(n - 1) : d[p].blocks[i] \in Entries(d[p].blocks)
  BY <1>1, <1>2, <1>4 DEF Entries
<1> QED
  BY <1>3, <1>5 DEF IndirectBlocks

\* The same for a level 2 block.
LEMMA DoublyInTree ==
    ASSUME NEW d \in [Sectors -> SectorType], NEW p \in Sectors, NEW n \in Nat,
           n <= INDIRECT_BLOCKS_PER_SECTOR * INDIRECT_BLOCKS_PER_SECTOR, Filled2(d, p, n)
    PROVE  DoublyBlocks(d, p, n) \subseteq Tree2(d, p)
<1> DEFINE B == d[p].blocks
           last == DivRoundUp(n, INDIRECT_BLOCKS_PER_SECTOR)
<1>1. \A i \in Pointers : B[i] \in Sectors
  BY DEF SectorType
<1>2. ASSUME NEW i \in 0..(last - 1)
      PROVE  IndirectBlocks(d, B[i], Subsize(n, i)) \subseteq Tree1(d, B[i]) /\ i \in Pointers
  <2>1. last \in Nat /\ last <= INDIRECT_BLOCKS_PER_SECTOR /\ Subsize(n, i) \in 1..INDIRECT_BLOCKS_PER_SECTOR
    BY Subsizes
  <2>2. i \in Pointers
    <3> HIDE DEF last
    <3> QED
      BY <2>1, SizesAssumption DEF Pointers
  <2>3. Filled1(d, B[i], Subsize(n, i))
    BY DEF Filled2
  <2>4. B[i] \in Sectors
    BY <2>2, <1>1
  <2>5. Subsize(n, i) \in Nat /\ Subsize(n, i) <= INDIRECT_BLOCKS_PER_SECTOR
    BY <2>1, SizesAssumption
  <2> HIDE DEF B
  <2> QED
    BY <2>2, <2>3, <2>4, <2>5, IndirectInTree
<1>3. p # 0
  BY DEF Filled2
<1>4. Tree2(d, p) = {p} \cup UNION {Tree1(d, B[i]) : i \in Pointers}
  BY <1>3 DEF Tree2
<1>5. DoublyBlocks(d, p, n) = {p} \cup UNION {IndirectBlocks(d, B[i], Subsize(n, i)) : i \in 0..(last - 1)}
  BY DEF DoublyBlocks
<1> HIDE DEF B, last
<1> QED
  BY <1>2, <1>4, <1>5

\* The sectors of the blocks of a file are in its tree.
LEMMA CoveredInTree ==
    ASSUME NEW d \in [Sectors -> SectorType], NEW inode \in InodeType, NEW num \in Nat,
           Filled(d, inode, num)
    PROVE  Covered(d, inode, num) \subseteq Tree(d, inode)
<1>1. DOMAIN inode.direct_blocks = Direct /\ \A i \in 0..(InDirect(num) - 1) : i \in Direct
  <2>1. DOMAIN inode.direct_blocks = Direct
    BY DEF InodeType
  <2>2. \A i \in 0..(InDirect(num) - 1) : i \in Direct
    BY Parts, SizesAssumption DEF Direct
  <2> QED
    BY <2>1, <2>2
<1>2. {inode.direct_blocks[i] : i \in 0..(InDirect(num) - 1)} \subseteq Tree(d, inode)
  BY <1>1 DEF Filled, Filled0, Tree, Entries
<1>4. InIndirect(num) # 0 => IndirectBlocks(d, inode.indirect_block, InIndirect(num)) \subseteq Tree(d, inode)
  <2>1. SUFFICES ASSUME InIndirect(num) # 0
                 PROVE  IndirectBlocks(d, inode.indirect_block, InIndirect(num)) \subseteq Tree(d, inode)
    OBVIOUS
  <2>2. inode.indirect_block \in Sectors /\ Filled1(d, inode.indirect_block, InIndirect(num))
    BY <2>1 DEF InodeType, Filled
  <2>3. InIndirect(num) \in Nat /\ InIndirect(num) <= INDIRECT_BLOCKS_PER_SECTOR
    BY Parts, SizesAssumption
  <2>4. IndirectBlocks(d, inode.indirect_block, InIndirect(num)) \subseteq Tree1(d, inode.indirect_block)
    BY <2>2, <2>3, IndirectInTree
  <2> QED
    BY <2>4 DEF Tree
<1>5. InDoubly(num) # 0 => DoublyBlocks(d, inode.doubly_indirect_block, InDoubly(num)) \subseteq Tree(d, inode)
  <2>1. SUFFICES ASSUME InDoubly(num) # 0
                 PROVE  DoublyBlocks(d, inode.doubly_indirect_block, InDoubly(num)) \subseteq Tree(d, inode)
    OBVIOUS
  <2>2. InDoubly(num) \in Nat /\ InDoubly(num) <= INDIRECT_BLOCKS_PER_SECTOR * INDIRECT_BLOCKS_PER_SECTOR
    BY Parts
  <2>3. inode.doubly_indirect_block \in Sectors /\ Filled2(d, inode.doubly_indirect_block, InDoubly(num))
    BY <2>1 DEF InodeType, Filled
  <2>4. DoublyBlocks(d, inode.doubly_indirect_block, InDoubly(num)) \subseteq Tree2(d, inode.doubly_indirect_block)
    BY <2>2, <2>3, DoublyInTree
  <2> QED
    BY <2>4 DEF Tree
<1> QED
  BY <1>2, <1>4, <1>5 DEF Covered

\* A file whose sectors are left alone.
LEMMA StoresSame ==
    ASSUME NEW map, NEW d, NEW s, NEW inode \in InodeType, NEW data \in InodeType,
           Stores(map, d, s, inode, data),
           NEW map2, NEW d2, {s} \cup Tree(d, data) \subseteq map2,
           \A t \in {s} \cup Tree(d, data) : d2[t] = d[t]
    PROVE  /\ Stores(map2, d2, s, inode, data)
           /\ Tree(d2, data) = Tree(d, data)
           /\ Covered(d, inode, inode.length) \subseteq Covered(d2, inode, inode.length)
<1>1. Tree(d2, data) = Tree(d, data) /\ (Proper(d2, data) <=> Proper(d, data)) /\ Grown(d, data, d2, data)
  BY Same
<1>2. Grown(d, inode, d2, inode)
  BY <1>1, LessGrows DEF Stores
<1>3. Covered(d, inode, inode.length) \subseteq Covered(d2, inode, inode.length) /\ Filled(d2, inode, inode.length)
  <2>1. inode.length \in Nat /\ inode.length <= inode.length
    BY DEF InodeType
  <2> QED
    BY <1>2, <2>1, Covers DEF Stores
<1> QED
  BY <1>1, <1>3 DEF Stores

\* A file whose struct inode goes: the one on the disk takes its place.
LEMMA StoresClosed ==
    ASSUME NEW map, NEW d, NEW s, NEW inode \in InodeType, NEW data \in InodeType,
           Stores(map, d, s, inode, data)
    PROVE  Stores(map, d, s, inode, inode) /\ Tree(d, inode) \subseteq Tree(d, data)
<1>1. Tree(d, inode) \subseteq Tree(d, data) /\ Proper(d, inode)
  BY Less DEF Stores
<1>2. Extends(inode, inode)
  BY DEF Extends, Keeps
<1> QED
  BY <1>1, <1>2 DEF Stores

\* inode_deallocate releases the sectors of the blocks, which are the file's.
LEMMA Deallocated ==
    ASSUME NEW map, NEW d \in [Sectors -> SectorType], NEW s,
           NEW inode \in InodeType, NEW data \in InodeType, Stores(map, d, s, inode, data)
    PROVE  /\ inode_deallocate(d, inode) = Covered(d, inode, inode.length)
           /\ inode_deallocate(d, inode) \subseteq Tree(d, data)
<1>1. inode_deallocate(d, inode) = Covered(d, inode, inode.length)
  BY DEF inode_deallocate, Covered
<1>2. inode.length \in Nat /\ Filled(d, inode, inode.length)
  BY DEF InodeType, Stores
<1>3. Covered(d, inode, inode.length) \subseteq Tree(d, inode)
  BY <1>2, CoveredInTree
<1> QED
  BY <1>1, <1>3, StoresClosed

-----------------------------------------------------------------------------
(* The steps of the specification.                                         *)

\* The inodes of the files.
LEMMA FileTypes ==
    ASSUME Typed, NEW f \in Files
    PROVE  /\ dir[f] \in Sectors /\ dir[f] # 0
           /\ InodeOf(f) \in InodeType /\ DataAt(f) \in InodeType
<1>1. dir[f] \in Sectors /\ dir[f] # 0
  BY DEF Typed
<1>2. InodeOf(f) \in InodeType
  BY <1>1 DEF Typed, InodeOf, SectorType
<1>3. DataAt(f) \in InodeType
  BY <1>1, <1>2 DEF Typed, DataAt, DataOf, InodeOf
<1> QED
  BY <1>1, <1>2, <1>3

\* Files have inodes of their own.
LEMMA OpenOnes ==
    ASSUME Sound, NEW f \in Files
    PROVE  /\ \A g \in Files : dir[g] = dir[f] => g = f
           /\ f \notin file_table => DataAt(f) = InodeOf(f)
<1>1. \A g \in Files : dir[g] = dir[f] => g = f
  <2>1. \A g \in Files : dir[g] \in All(g)
    BY DEF All
  <2> QED
    BY <2>1 DEF Sound
<1>2. f \notin file_table => DataAt(f) = InodeOf(f)
  BY DEF Sound
<1> QED
  BY <1>1, <1>2

\* do_format.
LEMMA InitIInv == Init => IInv
<1> SUFFICES ASSUME Init PROVE IInv
  OBVIOUS
<1>1. SystemInode(2) \in InodeType /\ SystemInode(3) \in InodeType
  <2>1. 2 \in Sectors /\ 3 \in Sectors /\ 0 \in Direct
    BY SizesAssumption DEF Sectors, Direct
  <2>2. NewInode(1) \in InodeType
    BY SectorTypes
  <2> QED
    BY <2>1, <2>2 DEF SystemInode, InodeType
<1>2. disk \in [Sectors -> SectorType]
  <2>1. InodeSector(SystemInode(2)) \in SectorType /\ InodeSector(SystemInode(3)) \in SectorType /\ zeros \in SectorType
    BY <1>1, SectorTypes
  <2> QED
    BY <2>1 DEF Init
<1>3. System \subseteq Sectors
  BY SizesAssumption DEF System, Sectors
<1>4. Files = {} /\ DOMAIN open_inodes = {} /\ DOMAIN dir = {}
  BY DEF Init, Files
<1>5. Typed
  <2>1. dir \in [Files -> Sectors \ {0}]
    BY <1>4 DEF Init, Files
  <2>2. open_inodes \in [DOMAIN open_inodes -> InodeType]
    BY <1>4 DEF Init
  <2> QED
    BY <1>2, <1>3, <1>4, <2>1, <2>2 DEF Typed, Init
<1>6. MapInodeIntact
  <2>1. FREE_MAP_SECTOR \in Sectors
    BY SizesAssumption DEF Sectors, FREE_MAP_SECTOR
  <2>2. disk[FREE_MAP_SECTOR] = InodeSector(SystemInode(2))
    <3> DEFINE First(s) == CASE s = FREE_MAP_SECTOR -> InodeSector(SystemInode(2))
                             [] s = ROOT_DIR_SECTOR -> InodeSector(SystemInode(3))
                             [] OTHER -> zeros
    <3>1. disk = [s \in Sectors |-> First(s)]
      BY DEF Init
    <3>2. First(FREE_MAP_SECTOR) = InodeSector(SystemInode(2))
      BY FREE_MAP_SECTOR # ROOT_DIR_SECTOR DEF FREE_MAP_SECTOR, ROOT_DIR_SECTOR
    <3> HIDE DEF First
    <3>3. disk[FREE_MAP_SECTOR] = First(FREE_MAP_SECTOR)
      BY <2>1, <3>1
    <3> QED
      BY <3>2, <3>3
  <2> QED
    BY <2>2 DEF MapInodeIntact
<1>7. Sound
  BY <1>4 DEF Sound, Init
<1>8. Exact
  BY <1>4, <1>6 DEF Exact, Init
<1> QED
  BY <1>5, <1>7, <1>8 DEF IInv

\* quit and a new start.
LEMMA RestartIInv == ASSUME IInv, Restart PROVE IInv'
<1>1. /\ disk' = disk /\ dir' = dir /\ failed' = failed /\ map_file' = map_file
      /\ open_inodes' = <<>> /\ file_table' = {} /\ DOMAIN open_inodes' = {}
  BY DEF Restart
<1>2. Files' = Files /\ (MapInodeIntact' <=> MapInodeIntact)
  BY <1>1 DEF Files, MapInodeIntact
<1>3. Typed /\ Typed'
  <2>1. Typed
    BY DEF IInv
  <2>2. {FREE_MAP_SECTOR, ROOT_DIR_SECTOR} \subseteq Sectors
    BY SizesAssumption DEF FREE_MAP_SECTOR, ROOT_DIR_SECTOR, Sectors
  <2>3. free_map' \subseteq Sectors
    BY <2>1, <2>2 DEF Restart, Typed
  <2>4. open_inodes' \in [DOMAIN open_inodes' -> InodeType]
    BY <1>1
  <2> QED
    BY <2>1, <2>3, <2>4, <1>1, <1>2 DEF Typed
<1>4. \A f \in Files : DataAt(f)' = InodeOf(f) /\ InodeOf(f)' = InodeOf(f) /\ dir'[f] = dir[f]
  BY <1>1 DEF DataAt, DataOf, InodeOf
<1>5. ASSUME MapInodeIntact PROVE Sound'
  <2>1. Sound
    BY <1>5 DEF IInv
  <2>2. free_map' = free_map
    BY <1>5, <2>1 DEF Restart, Sound
  <2>3. \A f \in Files : /\ Stores(free_map, disk, dir[f], InodeOf(f), InodeOf(f))
                         /\ Tree(disk, InodeOf(f)) \subseteq Tree(disk, DataAt(f))
    <3>1. \A f \in Files : Stores(free_map, disk, dir[f], InodeOf(f), DataAt(f))
      BY <2>1 DEF Sound, FileOK
    <3> QED
      BY <3>1, <1>3, FileTypes, StoresClosed
  <2>4. \A f \in Files : FileOK(f)'
    BY <2>2, <2>3, <1>1, <1>4 DEF FileOK
  <2>5. \A f \in Files : All(f)' \subseteq All(f)
    BY <2>3, <1>1, <1>4 DEF All
  <2>6. \A f, g \in Files : f # g => All(f)' \cap All(g)' = {}
    BY <2>5, <2>1 DEF Sound
  <2>7. \A f \in Files : DataAt(f)' = InodeOf(f)'
    BY <1>4
  <2> QED
    BY <2>1, <2>2, <2>4, <2>6, <2>7, <1>1, <1>2 DEF Sound
<1>6. ASSUME failed = {} PROVE Exact'
  <2>1. Exact /\ Sound
    BY <1>6 DEF IInv, Exact
  <2>2. free_map' = free_map
    BY <2>1 DEF Restart, Sound, Exact
  <2>3. \A f \in Files : DataAt(f) = InodeOf(f)
    BY <2>1 DEF Exact
  <2>4. \A f \in Files : DataAt(f)' = InodeOf(f)' /\ All(f)' = All(f)
    BY <2>3, <1>1, <1>4 DEF All
  <2>5. \A f \in Files : inode_deallocate(disk, InodeOf(f))' = inode_deallocate(disk, InodeOf(f))
    BY <1>1, <1>4
  <2>6. MapInodeIntact'
    BY <2>1, <1>2 DEF Exact
  <2>7. \A f \in Files : All(f)' \subseteq {dir'[f]} \cup inode_deallocate(disk, InodeOf(f))'
    BY <2>1, <2>4, <2>5, <1>4 DEF Exact
  <2>8. free_map' \subseteq System \cup UNION {All(f)' : f \in Files}
    BY <2>1, <2>2, <2>4 DEF Exact
  <2> QED
    BY <2>4, <2>6, <2>7, <2>8, <1>1, <1>2 DEF Exact
<1> QED
  BY <1>1, <1>2, <1>3, <1>5, <1>6 DEF IInv

\* Struct inodes are read in, or freed: a file that leaves the file table has
\* none any more.
LEMMA Reopened ==
    ASSUME IInv, dir' = dir, disk' = disk, free_map' = free_map, map_file' = map_file, failed' = failed,
           open_inodes' = [s \in DOMAIN open_inodes' |-> DataOf(s)],
           DOMAIN open_inodes' \subseteq DOMAIN open_inodes \cup {dir[g] : g \in Files},
           file_table' \subseteq Files,
           \A g \in file_table \ file_table' : dir[g] \notin DOMAIN open_inodes'
    PROVE  IInv'
<1>1. Files' = Files /\ (MapInodeIntact' <=> MapInodeIntact)
  BY DEF Files, MapInodeIntact
<1>2. Typed
  BY DEF IInv
<1>3. \A s \in DOMAIN open_inodes' : s \in Sectors /\ DataOf(s) \in InodeType
  <2>1. \A g \in Files : dir[g] \in Sectors
    BY <1>2 DEF Typed
  <2>2. \A s \in DOMAIN open_inodes' : s \in Sectors
    BY <2>1, <1>2 DEF Typed
  <2>3. \A s \in Sectors : DataOf(s) \in InodeType
    BY <1>2 DEF Typed, DataOf, SectorType
  <2> QED
    BY <2>2, <2>3
<1>4. Typed'
  <2>1. open_inodes' \in [DOMAIN open_inodes' -> InodeType]
    BY <1>3
  <2> QED
    BY <2>1, <1>1, <1>2, <1>3 DEF Typed
<1>5. \A g \in Files : /\ InodeOf(g)' = InodeOf(g)
                       /\ DataAt(g)' = IF dir[g] \in DOMAIN open_inodes' THEN DataAt(g) ELSE InodeOf(g)
  <2>1. \A g \in Files : InodeOf(g)' = InodeOf(g)
    BY DEF InodeOf
  <2>2. \A g \in Files : DataAt(g)' = IF dir[g] \in DOMAIN open_inodes' THEN open_inodes'[dir[g]] ELSE InodeOf(g)
    BY DEF DataAt, DataOf, InodeOf
  <2>3. \A s \in DOMAIN open_inodes' : open_inodes'[s] = DataOf(s)
    OBVIOUS
  <2> QED
    BY <2>1, <2>2, <2>3 DEF DataAt
<1>6. ASSUME Sound PROVE Sound'
  <2>1. ASSUME NEW g \in Files PROVE FileOK(g)' /\ All(g)' \subseteq All(g)
    <3>1. Stores(free_map, disk, dir[g], InodeOf(g), DataAt(g)) /\ InodeOf(g) \in InodeType /\ DataAt(g) \in InodeType
      BY <1>2, <1>6, FileTypes DEF Sound, FileOK
    <3>2. /\ Stores(free_map, disk, dir[g], InodeOf(g), InodeOf(g))
          /\ Tree(disk, InodeOf(g)) \subseteq Tree(disk, DataAt(g))
      BY <3>1, StoresClosed
    <3>3. CASE dir[g] \in DOMAIN open_inodes'
      BY <3>1, <3>3, <1>5 DEF FileOK, All
    <3>4. CASE dir[g] \notin DOMAIN open_inodes'
      BY <3>2, <3>4, <1>5 DEF FileOK, All
    <3> QED
      BY <3>3, <3>4
  <2>2. \A g, h \in Files : g # h => All(g)' \cap All(h)' = {}
    BY <2>1, <1>6 DEF Sound
  <2>3. \A g \in Files : (g \in file_table' /\ "write" \in failed) \/ DataAt(g)' = InodeOf(g)'
    BY <1>5, <1>6 DEF Sound
  <2>4. DOMAIN open_inodes' \subseteq {dir[g] : g \in Files}
    BY <1>6 DEF Sound
  <2> QED
    BY <2>1, <2>2, <2>3, <2>4, <1>1, <1>6 DEF Sound
<1>7. ASSUME Exact PROVE Exact'
  <2>1. \A g \in Files : DataAt(g)' = DataAt(g) /\ DataAt(g)' = InodeOf(g)'
    BY <1>5, <1>7 DEF Exact
  <2>2. \A g \in Files : All(g)' = All(g)
    BY <2>1 DEF All
  <2>3. \A g \in Files : inode_deallocate(disk, InodeOf(g))' = inode_deallocate(disk, InodeOf(g))
    BY <1>5
  <2>4. \A g \in Files : All(g)' \subseteq {dir'[g]} \cup inode_deallocate(disk, InodeOf(g))'
    BY <2>2, <2>3, <1>7 DEF Exact
  <2>5. free_map' \subseteq System \cup UNION {All(g)' : g \in Files}
    BY <2>2, <1>7 DEF Exact
  <2> QED
    BY <2>1, <2>4, <2>5, <1>1, <1>7 DEF Exact
<1> QED
  BY <1>1, <1>4, <1>6, <1>7 DEF IInv

\* fsutil_read, fsutil_seek, fsutil_size.
LEMMA OpenIInv == ASSUME IInv, NEW f \in Files, inode_open(f) PROVE IInv'
<1>1. /\ disk' = disk /\ dir' = dir /\ failed' = failed /\ map_file' = map_file /\ free_map' = free_map
      /\ file_table' = file_table \cup {f}
      /\ open_inodes' = Bind(open_inodes, dir[f], DataOf(dir[f]))
  BY DEF inode_open
<1>2. file_table \subseteq Files
  BY DEF IInv, Typed
<1>3. open_inodes' = [s \in DOMAIN open_inodes \cup {dir[f]} |-> DataOf(s)]
  BY <1>1 DEF Bind, DataOf
<1>4. /\ DOMAIN open_inodes' = DOMAIN open_inodes \cup {dir[f]}
      /\ open_inodes' = [s \in DOMAIN open_inodes' |-> DataOf(s)]
  BY <1>3
<1> QED
  BY <1>1, <1>2, <1>4, Reopened

\* Struct inodes are freed.
LEMMA Dropped ==
    ASSUME NEW keys
    PROVE  /\ DOMAIN Drop(open_inodes, keys) = DOMAIN open_inodes \ keys
           /\ Drop(open_inodes, keys) = [s \in DOMAIN open_inodes \ keys |-> DataOf(s)]
  BY DEF Drop, Restrict, DataOf

\* fsutil_close.
LEMMA CloseIInv == ASSUME IInv, NEW f \in Files, inode_close(f) PROVE IInv'
<1>1. /\ disk' = disk /\ dir' = dir /\ failed' = failed /\ map_file' = map_file /\ free_map' = free_map
      /\ file_table' = file_table \ {f}
      /\ open_inodes' = Drop(open_inodes, {dir[f]})
  BY DEF inode_close
<1>2. file_table \subseteq Files
  BY DEF IInv, Typed
<1>3. /\ DOMAIN open_inodes' = DOMAIN open_inodes \ {dir[f]}
      /\ open_inodes' = [s \in DOMAIN open_inodes' |-> DataOf(s)]
  BY <1>1, Dropped
<1> QED
  BY <1>1, <1>2, <1>3, Reopened

\* fsutil_rm.
LEMMA RemoveIInv == ASSUME IInv, NEW f \in Files, filesys_remove(f) PROVE IInv'
<1> DEFINE inode == IF f \in file_table THEN disk[dir[f]].inode ELSE DataOf(dir[f])
           gone == {dir[f]} \cup inode_deallocate(disk, inode)
<1>1. /\ disk' = disk /\ failed' = failed /\ map_file' = free_map' /\ free_map' = free_map \ gone
      /\ file_table' = file_table \ {f}
      /\ dir' = Drop(dir, {f})
      /\ open_inodes' = Drop(open_inodes, {dir[f]})
  BY DEF filesys_remove, free_map_release
<1> HIDE DEF inode, gone
<1>3. Typed
  BY DEF IInv
<1>2. /\ Files' = Files \ {f} /\ (MapInodeIntact' <=> MapInodeIntact)
      /\ \A g \in Files' : dir'[g] = dir[g]
      /\ dir' \in [Files' -> Sectors \ {0}]
  <2>1. dir' = [g \in Files \ {f} |-> dir[g]]
    BY <1>1 DEF Drop, Restrict, Files
  <2>2. \A g \in Files : dir[g] \in Sectors \ {0}
    BY <1>3 DEF Typed
  <2>3. Files' = Files \ {f}
    BY <2>1 DEF Files
  <2>4. MapInodeIntact' <=> MapInodeIntact
    BY <1>1 DEF MapInodeIntact
  <2> QED
    BY <2>1, <2>2, <2>3, <2>4
<1>4. /\ DOMAIN open_inodes' = DOMAIN open_inodes \ {dir[f]}
      /\ \A s \in DOMAIN open_inodes' : open_inodes'[s] = open_inodes[s]
      /\ open_inodes' \in [DOMAIN open_inodes' -> InodeType]
  <2>1. open_inodes' = [s \in DOMAIN open_inodes \ {dir[f]} |-> open_inodes[s]]
    BY <1>1 DEF Drop, Restrict
  <2>2. \A s \in DOMAIN open_inodes : open_inodes[s] \in InodeType
    BY <1>3 DEF Typed
  <2> QED
    BY <2>1, <2>2
<1>5. Typed'
  BY <1>1, <1>2, <1>3, <1>4 DEF Typed
<1>6. \A g \in Files' : InodeOf(g)' = InodeOf(g)
  BY <1>1, <1>2 DEF InodeOf
<1>7. ASSUME Sound
      PROVE  /\ \A g \in Files' : DataAt(g)' = DataAt(g)
             /\ DOMAIN open_inodes' \subseteq {dir'[g] : g \in Files'}
             /\ inode = InodeOf(f)
             /\ gone \subseteq All(f)
  <2>1. \A g \in Files : g # f => dir[g] # dir[f]
    BY <1>7, OpenOnes
  <2>2. \A g \in Files' : DataAt(g)' = DataAt(g)
    BY <2>1, <1>1, <1>2, <1>4, ZenonT(60) DEF DataAt, DataOf
  <2>3. DOMAIN open_inodes' \subseteq {dir'[g] : g \in Files'}
    <3>1. \A g \in Files : g # f => g \in Files' /\ dir'[g] = dir[g]
      BY <1>2
    <3>2. DOMAIN open_inodes \subseteq {dir[g] : g \in Files}
      BY <1>7 DEF Sound
    <3> QED
      BY <3>1, <3>2, <1>4
  <2>4. inode = InodeOf(f)
    <3>1. f \notin file_table => DataAt(f) = InodeOf(f)
      BY <1>7, OpenOnes
    <3> QED
      BY <3>1 DEF inode, DataAt, InodeOf
  <2>5. gone \subseteq All(f)
    <3>1. /\ Stores(free_map, disk, dir[f], InodeOf(f), DataAt(f)) /\ InodeOf(f) \in InodeType
          /\ DataAt(f) \in InodeType /\ disk \in [Sectors -> SectorType]
      BY <1>3, <1>7, FileTypes DEF Sound, FileOK, Typed
    <3>2. inode_deallocate(disk, InodeOf(f)) \subseteq Tree(disk, DataAt(f))
      BY <3>1, Deallocated
    <3> QED
      BY <3>2, <2>4 DEF gone, All
  <2> QED
    BY <2>2, <2>3, <2>4, <2>5
<1>8. ASSUME Sound PROVE \A g \in Files' : All(g)' = All(g) /\ All(g) \subseteq free_map' /\ FileOK(g)'
  <2>1. SUFFICES ASSUME NEW g \in Files' PROVE All(g)' = All(g) /\ All(g) \subseteq free_map' /\ FileOK(g)'
    OBVIOUS
  <2>2. g \in Files /\ g # f /\ DataAt(g)' = DataAt(g) /\ InodeOf(g)' = InodeOf(g) /\ dir'[g] = dir[g]
    BY <1>2, <1>6, <1>7, <1>8
  <2>3. All(g)' = All(g)
    BY <2>2, <1>1 DEF All
  <2>4. Stores(free_map, disk, dir[g], InodeOf(g), DataAt(g))
    BY <2>2, <1>8 DEF Sound, FileOK
  <2>5. All(g) \subseteq free_map'
    <3>1. All(g) \subseteq free_map
      BY <2>4 DEF Stores, All
    <3>2. All(g) \cap All(f) = {}
      BY <2>2, <1>8 DEF Sound
    <3> QED
      BY <3>1, <3>2, <1>1, <1>7, <1>8
  <2>6. Stores(free_map', disk, dir[g], InodeOf(g), DataAt(g))
    BY <2>4, <2>5 DEF Stores, All
  <2> QED
    BY <2>2, <2>3, <2>5, <2>6, <1>1 DEF FileOK
<1>9. ASSUME Sound PROVE Sound'
  <2>1. \A g, h \in Files' : g # h => All(g)' \cap All(h)' = {}
    BY <1>2, <1>8, <1>9 DEF Sound
  <2>2. System \subseteq free_map'
    <3>1. All(f) \cap System = {}
      BY <1>9 DEF Sound, FileOK, Stores, All
    <3> QED
      BY <3>1, <1>1, <1>7, <1>9 DEF Sound
  <2>3. \A g \in Files' : (g \in file_table' /\ "write" \in failed') \/ DataAt(g)' = InodeOf(g)'
    <3>1. \A g \in Files' : g \in Files /\ g # f /\ DataAt(g)' = DataAt(g) /\ InodeOf(g)' = InodeOf(g)
      BY <1>2, <1>6, <1>7, <1>9
    <3> QED
      BY <3>1, <1>1, <1>9 DEF Sound
  <2> QED
    BY <2>1, <2>2, <2>3, <1>1, <1>7, <1>8, <1>9 DEF Sound
<1>10. ASSUME Exact, Sound PROVE Exact'
  <2>1. All(f) \subseteq gone
    BY <1>7, <1>10 DEF Exact, gone
  <2>2. free_map' \subseteq System \cup UNION {All(g)' : g \in Files'}
    <3>1. free_map' \subseteq System \cup UNION {All(g) : g \in Files \ {f}}
      BY <2>1, <1>1, <1>10 DEF Exact
    <3> QED
      BY <3>1, <1>2, <1>8, <1>10
  <2>3. \A g \in Files' : inode_deallocate(disk, InodeOf(g))' = inode_deallocate(disk, InodeOf(g))
    BY <1>1, <1>6
  <2>4. \A g \in Files' : /\ DataAt(g)' = InodeOf(g)'
                          /\ All(g)' \subseteq {dir'[g]} \cup inode_deallocate(disk, InodeOf(g))'
    BY <2>3, <1>2, <1>6, <1>7, <1>8, <1>10 DEF Exact
  <2>5. MapInodeIntact'
    BY <1>2, <1>10 DEF Exact
  <2> QED
    BY <2>2, <2>4, <2>5 DEF Exact
<1> QED
  BY <1>1, <1>2, <1>5, <1>9, <1>10 DEF IInv, Exact

\* A file that a step leaves alone.
LEMMA Others ==
    ASSUME Typed, Sound, NEW g \in Files, dir'[g] = dir[g],
           \A u \in All(g) : disk'[u] = disk[u], All(g) \subseteq free_map',
           dir[g] \in DOMAIN open_inodes' <=> dir[g] \in DOMAIN open_inodes,
           dir[g] \in DOMAIN open_inodes => open_inodes'[dir[g]] = open_inodes[dir[g]]
    PROVE  /\ FileOK(g)' /\ All(g)' = All(g)
           /\ DataAt(g)' = DataAt(g) /\ InodeOf(g)' = InodeOf(g)
           /\ inode_deallocate(disk, InodeOf(g)) \subseteq inode_deallocate(disk, InodeOf(g))'
<1>1. disk'[dir[g]] = disk[dir[g]]
  BY DEF All
<1>2. InodeOf(g)' = InodeOf(g)
  BY <1>1 DEF InodeOf
<1>3. DataAt(g)' = DataAt(g)
  BY <1>1 DEF DataAt, DataOf
<1>4. /\ Stores(free_map, disk, dir[g], InodeOf(g), DataAt(g))
      /\ InodeOf(g) \in InodeType /\ DataAt(g) \in InodeType
  BY FileTypes DEF Sound, FileOK
<1>5. /\ {dir[g]} \cup Tree(disk, DataAt(g)) \subseteq free_map'
      /\ \A t \in {dir[g]} \cup Tree(disk, DataAt(g)) : disk'[t] = disk[t]
  BY DEF All
<1>6. /\ Stores(free_map', disk', dir[g], InodeOf(g), DataAt(g))
      /\ Tree(disk', DataAt(g)) = Tree(disk, DataAt(g))
      /\ Covered(disk, InodeOf(g), InodeOf(g).length) \subseteq Covered(disk', InodeOf(g), InodeOf(g).length)
  <2>1. PICK inode, data, s, d, map, d2, map2 :
           /\ inode = InodeOf(g) /\ data = DataAt(g) /\ s = dir[g]
           /\ d = disk /\ map = free_map /\ d2 = disk' /\ map2 = free_map'
    OBVIOUS
  <2>2. Stores(map, d, s, inode, data) /\ inode \in InodeType /\ data \in InodeType
    BY <2>1, <1>4
  <2>3. /\ {s} \cup Tree(d, data) \subseteq map2
        /\ \A t \in {s} \cup Tree(d, data) : d2[t] = d[t]
    BY <2>1, <1>5
  <2>4. /\ Stores(map2, d2, s, inode, data)
        /\ Tree(d2, data) = Tree(d, data)
        /\ Covered(d, inode, inode.length) \subseteq Covered(d2, inode, inode.length)
    BY <2>2, <2>3, StoresSame
  <2> QED
    BY <2>1, <2>4
<1>7. FileOK(g)' /\ All(g)' = All(g)
  BY <1>2, <1>3, <1>6 DEF FileOK, All
<1>8. /\ inode_deallocate(disk, InodeOf(g)) = Covered(disk, InodeOf(g), InodeOf(g).length)
      /\ inode_deallocate(disk', InodeOf(g)) = Covered(disk', InodeOf(g), InodeOf(g).length)
  BY DEF inode_deallocate, Covered
<1>9. inode_deallocate(disk, InodeOf(g))' = inode_deallocate(disk', InodeOf(g))
  BY <1>2 DEF inode_deallocate, IndirectBlocks, DoublyBlocks
<1> QED
  BY <1>2, <1>3, <1>6, <1>7, <1>8, <1>9

\* The length of an inode is not part of its tree.
LEMMA LengthAside ==
    ASSUME NEW inode \in InodeType, NEW num \in Nat
    PROVE  LET new == [inode EXCEPT !.length = num]
           IN  /\ new \in InodeType /\ new.length = num
               /\ \A d : /\ Tree(d, new) = Tree(d, inode)
                         /\ Proper(d, new) <=> Proper(d, inode)
                         /\ \A n : (Filled(d, new, n) <=> Filled(d, inode, n)) /\ Covered(d, new, n) = Covered(d, inode, n)
<1> DEFINE new == [inode EXCEPT !.length = num]
<1>1. /\ new \in InodeType /\ new.length = num
      /\ new.direct_blocks = inode.direct_blocks /\ new.indirect_block = inode.indirect_block
      /\ new.doubly_indirect_block = inode.doubly_indirect_block
  BY DEF InodeType
<1> HIDE DEF new
<1>2. \A d : /\ Tree(d, new) = Tree(d, inode)
             /\ Proper(d, new) <=> Proper(d, inode)
             /\ \A n : (Filled(d, new, n) <=> Filled(d, inode, n)) /\ Covered(d, new, n) = Covered(d, inode, n)
  BY <1>1 DEF Tree, Proper, Filled, Covered
<1> QED
  BY <1>1, <1>2 DEF new

\* The inode of a file is written to a sector outside of its tree.
LEMMA Written ==
    ASSUME NEW e \in [Sectors -> SectorType], NEW d2 \in [Sectors -> SectorType],
           NEW inode \in InodeType, NEW num \in Nat, NEW s,
           s \notin Tree(e, inode), \A t \in Sectors : t # s => d2[t] = e[t],
           Tree(e, inode) \subseteq Sectors, Proper(e, inode)
    PROVE  /\ Tree(d2, inode) = Tree(e, inode) /\ Proper(d2, inode)
           /\ Filled(e, inode, num) =>
                /\ Filled(d2, inode, num)
                /\ Covered(e, inode, num) \subseteq Covered(d2, inode, num)
                /\ Covered(d2, inode, num) \subseteq Tree(d2, inode)
<1>1. \A t \in Tree(e, inode) : d2[t] = e[t]
  OBVIOUS
<1>2. Tree(d2, inode) = Tree(e, inode) /\ Proper(d2, inode) /\ Grown(e, inode, d2, inode)
  BY <1>1, Same
<1>3. ASSUME Filled(e, inode, num)
      PROVE  /\ Filled(d2, inode, num)
             /\ Covered(e, inode, num) \subseteq Covered(d2, inode, num)
             /\ Covered(d2, inode, num) \subseteq Tree(d2, inode)
  <2>1. Filled(d2, inode, num) /\ Covered(e, inode, num) \subseteq Covered(d2, inode, num)
    BY <1>2, <1>3, Covers
  <2> QED
    BY <2>1, CoveredInTree
<1> QED
  BY <1>2, <1>3

\* fsutil_write past the end.
LEMMA WriteIInv ==
    ASSUME IInv, NEW f \in Files, NEW num \in Nat, inode_write_at(f, num)
    PROVE  IInv' /\ (MapInodeIntact' => MapInodeIntact)
<1> DEFINE J == DataOf(dir[f])
           I == InodeOf(f)
           s == dir[f]
           r == inode_reserve(FS, J, num)
           kept == IF r.ok THEN [r.inode EXCEPT !.length = num] ELSE r.inode
           e == r.fs.disk
<1>1. /\ free_map' = r.fs.map
      /\ map_file' = IF r.fs.map = free_map THEN map_file ELSE r.fs.map
      /\ disk' = IF r.ok THEN [e EXCEPT ![s] = InodeSector(kept)] ELSE e
      /\ open_inodes' = Bind(open_inodes, s, kept)
      /\ file_table' = file_table \cup {f}
      /\ failed' = IF r.ok THEN failed ELSE failed \cup {"write"}
      /\ dir' = dir /\ num >= J.length
  BY DEF inode_write_at, Extend
<1>2. Typed
  BY DEF IInv
<1>3. s \in Sectors /\ s # 0 /\ J \in InodeType /\ I \in InodeType /\ num \in Nat /\ J = DataAt(f)
  BY <1>2, FileTypes DEF DataAt
<1>4. FS \in FsType /\ FS.map = free_map /\ FS.disk = disk
  BY <1>2 DEF FS, FsType, Typed
<1>i. I = disk[s].inode /\ s = dir[f]
  BY DEF InodeOf
<1> HIDE DEF J, I, s
<1>5. r \in StateType /\ Stays(FS, r.fs)
  BY <1>3, <1>4, ReserveType
<1>6. \/ Broke(r)
      \/ ~(0 \in free_map /\ Proper(disk, J) /\ Tree(disk, J) \subseteq free_map)
      \/ /\ Reserved(FS, J, r.fs, r.inode)
         /\ r.ok => /\ Filled(r.fs.disk, r.inode, num)
                    /\ r.fs.map \ free_map \subseteq Covered(r.fs.disk, r.inode, num)
  BY <1>3, <1>4, ReserveSteps
<1> HIDE DEF r
<1>7. e \in [Sectors -> SectorType] /\ r.inode \in InodeType /\ r.fs.map \subseteq Sectors /\ r.ok \in BOOLEAN
  BY <1>5 DEF StateType, FsType
<1>8. /\ kept \in InodeType
      /\ \A d : /\ Tree(d, kept) = Tree(d, r.inode)
                /\ Proper(d, kept) <=> Proper(d, r.inode)
                /\ \A n : (Filled(d, kept, n) <=> Filled(d, r.inode, n)) /\ Covered(d, kept, n) = Covered(d, r.inode, n)
      /\ r.ok => kept.length = num
      /\ ~r.ok => kept = r.inode
  <2>1. CASE r.ok
    <3>1. kept = [r.inode EXCEPT !.length = num]
      BY <2>1
    <3> HIDE DEF kept
    <3> QED
      BY <2>1, <3>1, <1>3, <1>7, LengthAside
  <2>2. CASE ~r.ok
    BY <2>2, <1>7
  <2> QED
    BY <2>1, <2>2
<1> HIDE DEF kept, e
<1>9. /\ disk' \in [Sectors -> SectorType]
      /\ \A t \in Sectors : t # s => disk'[t] = e[t]
      /\ r.ok => disk'[s].inode = kept
      /\ ~r.ok => disk' = e
  <2>1. InodeSector(kept) \in SectorType /\ InodeSector(kept).inode = kept
    BY <1>8, SectorTypes
  <2> QED
    BY <2>1, <1>1, <1>3, <1>7
<1>10. /\ DOMAIN open_inodes' = DOMAIN open_inodes \cup {s}
       /\ open_inodes'[s] = kept
       /\ \A t \in DOMAIN open_inodes : t # s => open_inodes'[t] = open_inodes[t]
       /\ open_inodes' \in [DOMAIN open_inodes' -> InodeType]
  <2>1. open_inodes' = [t \in DOMAIN open_inodes \cup {s} |-> IF t = s THEN kept ELSE open_inodes[t]]
    BY <1>1 DEF Bind
  <2>2. \A t \in DOMAIN open_inodes : open_inodes[t] \in InodeType
    BY <1>2 DEF Typed
  <2> QED
    BY <2>1, <2>2, <1>8
<1>11. Files' = Files
  BY <1>1 DEF Files
<1>12. Typed'
  BY <1>1, <1>2, <1>3, <1>7, <1>9, <1>10, <1>11 DEF Typed
<1>13. MapInodeIntact' => MapInodeIntact /\ Intact(e)
  <2>1. disk'[0] = e[0]
    BY <1>3, <1>9, SectorTypes
  <2>2. Intact(e) => Intact(disk)
    BY <1>4, <1>5 DEF Stays, e
  <2> QED
    BY <2>1, <2>2 DEF MapInodeIntact, Intact, FREE_MAP_SECTOR
<1>14. ASSUME Sound, ~Broke(r)
       PROVE  /\ Sound'
              /\ disk'[0] = disk[0]
              /\ \A g \in Files : g # f =>
                   /\ FileOK(g)' /\ All(g)' = All(g)
                   /\ DataAt(g)' = DataAt(g) /\ InodeOf(g)' = InodeOf(g)
                   /\ inode_deallocate(disk, InodeOf(g)) \subseteq inode_deallocate(disk, InodeOf(g))'
              /\ DataAt(f)' = kept
              /\ r.ok => InodeOf(f)' = kept
              /\ Stores(free_map, disk, s, I, J)
              /\ Reserved(FS, J, r.fs, r.inode)
              /\ r.ok => /\ Filled(e, r.inode, num)
                         /\ free_map' \ free_map \subseteq Covered(e, r.inode, num)
              /\ All(f)' = {s} \cup Tree(e, r.inode)
              /\ s \notin Tree(e, r.inode)
  <2>1. Stores(free_map, disk, s, I, J)
    BY <1>3, <1>14 DEF Sound, FileOK, I, s
  <2>2. 0 \in System /\ System \subseteq free_map /\ free_map \subseteq Sectors
    BY <1>2, <1>14 DEF Sound, System, Typed
  <2>3. /\ Reserved(FS, J, r.fs, r.inode)
        /\ r.ok => /\ Filled(e, r.inode, num)
                   /\ free_map' \ free_map \subseteq Covered(e, r.inode, num)
    <3>1. 0 \in free_map /\ Proper(disk, J) /\ Tree(disk, J) \subseteq free_map
      BY <2>1, <2>2 DEF Stores
    <3> QED
      BY <3>1, <1>1, <1>6, <1>14 DEF e
  <2>4. /\ free_map \subseteq free_map'
        /\ \A t \in free_map \ Tree(disk, J) : e[t] = disk[t]
        /\ Proper(e, r.inode)
        /\ Tree(e, r.inode) \subseteq Tree(disk, J) \cup (free_map' \ free_map)
        /\ Grown(disk, J, e, r.inode)
    BY <2>3, <1>1, <1>4 DEF Reserved, e
  <2>5. s \notin Tree(e, r.inode) /\ Tree(e, r.inode) \subseteq Sectors
    <3>1. s \in free_map /\ s \notin Tree(disk, J) /\ Tree(disk, J) \subseteq free_map
      BY <2>1 DEF Stores
    <3>2. free_map' \subseteq Sectors
      BY <1>12 DEF Typed
    <3> QED
      BY <3>1, <3>2, <2>2, <2>4
  <2>6. /\ Tree(disk', r.inode) = Tree(e, r.inode) /\ Proper(disk', r.inode)
        /\ Filled(e, r.inode, num) => Filled(disk', r.inode, num)
    BY <2>4, <2>5, <1>3, <1>7, <1>9, Written
  <2>7. DataAt(f)' = kept
    BY <1>1, <1>10 DEF DataAt, DataOf, s
  <2>8. Tree(disk', kept) = Tree(e, r.inode) /\ Proper(disk', kept)
    BY <2>6, <1>8
  <2>9. All(f)' = {s} \cup Tree(e, r.inode)
    BY <2>7, <2>8, <1>1 DEF All, s
  <2>10. s \in free_map \ System /\ All(f)' \subseteq free_map' \ System
    <3>1. {s} \cup Tree(disk, J) \subseteq free_map \ System
      BY <2>1 DEF Stores
    <3> QED
      BY <3>1, <2>2, <2>4, <2>9
  <2>11. r.ok => InodeOf(f)' = kept
    BY <1>1, <1>9 DEF InodeOf, s
  <2>12. FileOK(f)'
    <3>1. CASE r.ok
      <4>1. Filled(disk', kept, kept.length)
        BY <3>1, <2>3, <2>6, <1>8
      <4>2. Extends(kept, kept)
        BY DEF Extends, Keeps
      <4>3. Stores(free_map', disk', s, kept, kept)
        BY <4>1, <4>2, <2>5, <2>8, <2>9, <2>10 DEF Stores
      <4> QED
        BY <4>3, <3>1, <2>7, <2>11, <1>1 DEF FileOK, s
    <3>2. CASE ~r.ok
      <4>1. kept = r.inode /\ disk' = e
        BY <3>2, <1>8, <1>9
      <4>2. disk'[s] = disk[s]
        BY <4>1, <2>1, <2>4 DEF Stores
      <4>3. InodeOf(f)' = I
        BY <4>2, <1>1, <1>i DEF InodeOf, s
      <4>4. Grown(disk, I, e, I) /\ Extends(I, r.inode)
        BY <2>1, <2>4, LessGrows DEF Stores
      <4>5. Filled(e, I, I.length)
        <5>1. I.length \in Nat /\ I.length <= I.length /\ Filled(disk, I, I.length)
          BY <2>1, <1>3 DEF InodeType, Stores
        <5> QED
          BY <5>1, <4>4, Covers
      <4>6. Stores(free_map', disk', s, I, kept)
        BY <4>1, <4>4, <4>5, <2>5, <2>8, <2>9, <2>10 DEF Stores
      <4> QED
        BY <4>3, <4>6, <2>7, <1>1 DEF FileOK, s
    <3> QED
      BY <3>1, <3>2
  <2>13. ASSUME NEW g \in Files, g # f
         PROVE  /\ FileOK(g)' /\ All(g)' = All(g)
                /\ DataAt(g)' = DataAt(g) /\ InodeOf(g)' = InodeOf(g)
                /\ inode_deallocate(disk, InodeOf(g)) \subseteq inode_deallocate(disk, InodeOf(g))'
    <3>1. All(g) \cap ({s} \cup Tree(disk, J)) = {}
      BY <2>13, <1>3, <1>14 DEF Sound, All, s
    <3>2. All(g) \subseteq free_map
      BY <1>14 DEF Sound, FileOK, Stores, All
    <3>3. \A u \in All(g) : disk'[u] = disk[u]
      BY <3>1, <3>2, <2>2, <2>4, <1>9
    <3>4. dir[g] # s
      BY <3>1 DEF All
    <3>5. /\ dir[g] \in DOMAIN open_inodes' <=> dir[g] \in DOMAIN open_inodes
          /\ dir[g] \in DOMAIN open_inodes => open_inodes'[dir[g]] = open_inodes[dir[g]]
      BY <3>4, <1>10
    <3>6. All(g) \subseteq free_map' /\ dir'[g] = dir[g]
      BY <3>2, <2>4, <1>1
    <3> QED
      BY <3>3, <3>5, <3>6, <1>2, <1>14, Others
  <2>14. \A g \in Files : FileOK(g)'
    BY <2>12, <2>13
  <2>15. \A g \in Files : g # f => All(g)' \cap All(f)' = {}
    <3>1. SUFFICES ASSUME NEW g \in Files, g # f PROVE All(g)' \cap All(f)' = {}
      OBVIOUS
    <3>2. All(g) \cap ({s} \cup Tree(disk, J)) = {}
      BY <3>1, <1>3, <1>14 DEF Sound, All, s
    <3>3. All(g) \subseteq free_map
      BY <1>14 DEF Sound, FileOK, Stores, All
    <3>4. All(g)' = All(g)
      BY <3>1, <2>13
    <3> QED
      BY <3>2, <3>3, <3>4, <2>4, <2>9
  <2>16. \A g, h \in Files : g # h => All(g)' \cap All(h)' = {}
    <3>1. \A g, h \in Files : g # h /\ g # f /\ h # f => All(g)' \cap All(h)' = {}
      BY <2>13, <1>14 DEF Sound
    <3> QED
      BY <3>1, <2>15
  <2>17. DOMAIN open_inodes' \subseteq {dir'[g] : g \in Files}
    BY <1>1, <1>10, <1>14 DEF Sound, s
  <2>c. \A g \in Files : (g \in file_table' /\ "write" \in failed') \/ DataAt(g)' = InodeOf(g)'
    <3>1. \A g \in Files : g # f => (g \in file_table' /\ "write" \in failed') \/ DataAt(g)' = InodeOf(g)'
      BY <2>13, <1>1, <1>14 DEF Sound
    <3>2. (f \in file_table' /\ "write" \in failed') \/ DataAt(f)' = InodeOf(f)'
      BY <2>7, <2>11, <1>1
    <3> QED
      BY <3>1, <3>2
  <2>18. map_file' = free_map' /\ System \subseteq free_map'
    BY <2>2, <2>4, <1>1, <1>14 DEF Sound
  <2>19. Sound'
    BY <2>14, <2>16, <2>17, <2>18, <2>c, <1>11 DEF Sound
  <2>20. disk'[0] = disk[0]
    <3>1. 0 \in free_map \ Tree(disk, J)
      BY <2>1, <2>2 DEF Stores
    <3> QED
      BY <3>1, <2>4, <1>3, <1>9, SectorTypes
  <2> QED
    BY <2>1, <2>3, <2>5, <2>7, <2>9, <2>11, <2>13, <2>19, <2>20
<1>15. ASSUME MapInodeIntact' PROVE Sound'
  <2>1. MapInodeIntact /\ Intact(e)
    BY <1>13, <1>15
  <2>2. ~Broke(r) /\ Sound
    BY <2>1 DEF Broke, IInv, e
  <2> QED
    BY <2>2, <1>14
<1>16. ASSUME failed' = {} PROVE Exact'
  <2>1. r.ok /\ failed = {}
    BY <1>1, <1>16
  <2>2. Exact /\ Sound /\ ~Broke(r)
    BY <2>1 DEF IInv, Exact, Broke
  <2>3. MapInodeIntact'
    BY <2>2, <1>14 DEF MapInodeIntact, FREE_MAP_SECTOR, Exact
  <2>4. I = J /\ {s} \cup Tree(disk, J) \subseteq {s} \cup inode_deallocate(disk, I)
    BY <2>2, <1>3 DEF Exact, All, I, s
  <2>5. /\ Stores(free_map, disk, s, I, J) /\ Reserved(FS, J, r.fs, r.inode)
        /\ Filled(e, r.inode, num) /\ free_map' \ free_map \subseteq Covered(e, r.inode, num)
        /\ All(f)' = {s} \cup Tree(e, r.inode) /\ s \notin Tree(e, r.inode)
        /\ DataAt(f)' = kept /\ InodeOf(f)' = kept
    BY <2>1, <2>2, <1>14
  <2>6. Tree(disk, J) \subseteq Covered(disk, J, J.length)
    <3>1. inode_deallocate(disk, I) = Covered(disk, I, I.length)
      BY DEF inode_deallocate, Covered
    <3> QED
      BY <3>1, <2>4, <2>5 DEF Stores
  <2>7. Covered(disk, J, J.length) \subseteq Covered(e, r.inode, num)
    <3>1. J.length \in Nat /\ J.length <= num
      BY <1>1, <1>3 DEF InodeType
    <3>2. Grown(disk, J, e, r.inode) /\ Filled(disk, J, J.length)
      BY <2>4, <2>5, <1>4 DEF Reserved, Stores, e
    <3> QED
      BY <3>1, <3>2, <1>3, Covers
  <2>8. Tree(e, r.inode) \subseteq Covered(e, r.inode, num)
    <3>1. Tree(e, r.inode) \subseteq Tree(disk, J) \cup (free_map' \ free_map)
      BY <2>5, <1>1, <1>4 DEF Reserved, e
    <3> QED
      BY <3>1, <2>5, <2>6, <2>7
  <2>9. /\ Covered(e, r.inode, num) \subseteq Covered(disk', r.inode, num)
        /\ Covered(disk', r.inode, num) \subseteq Tree(e, r.inode)
    <3>1. Tree(e, r.inode) \subseteq Sectors /\ Proper(e, r.inode)
      <4>1. All(f)' \subseteq Sectors
        BY <2>2, <1>11, <1>12, <1>14 DEF Sound, FileOK, Stores, All, Typed
      <4> QED
        BY <4>1, <2>5 DEF Reserved, e
    <3> QED
      BY <3>1, <2>5, <1>3, <1>7, <1>9, Written
  <2>10. inode_deallocate(disk, InodeOf(f))' = Covered(disk', r.inode, num)
    <3>1. inode_deallocate(disk, InodeOf(f))' = inode_deallocate(disk', kept)
      BY <2>5 DEF inode_deallocate, IndirectBlocks, DoublyBlocks
    <3>2. inode_deallocate(disk', kept) = Covered(disk', kept, kept.length)
      BY DEF inode_deallocate, Covered
    <3> QED
      BY <3>1, <3>2, <2>1, <1>8
  <2>11. All(f)' \subseteq {dir'[f]} \cup inode_deallocate(disk, InodeOf(f))'
    BY <2>5, <2>8, <2>9, <2>10, <1>1 DEF s
  <2>12. \A g \in Files : g # f => /\ DataAt(g)' = InodeOf(g)' /\ All(g)' = All(g)
                                   /\ All(g)' \subseteq {dir'[g]} \cup inode_deallocate(disk, InodeOf(g))'
    BY <2>2, <1>1, <1>14 DEF Exact
  <2>13. free_map' \subseteq System \cup UNION {All(g)' : g \in Files}
    <3>1. \A g \in Files : All(g) \subseteq All(g)'
      <4>1. All(f) = {s} \cup Tree(disk, J)
        BY <1>3 DEF All, s
      <4>2. All(f) \subseteq All(f)'
        BY <4>1, <2>5, <2>6, <2>7, <2>9
      <4> QED
        BY <4>2, <2>12
    <3>2. free_map \subseteq System \cup UNION {All(g) : g \in Files}
      BY <2>2 DEF Exact
    <3>3. free_map' \ free_map \subseteq All(f)'
      BY <2>5, <2>9
    <3> QED
      BY <3>1, <3>2, <3>3
  <2>14. \A g \in Files : /\ DataAt(g)' = InodeOf(g)'
                          /\ All(g)' \subseteq {dir'[g]} \cup inode_deallocate(disk, InodeOf(g))'
    BY <2>5, <2>11, <2>12
  <2> QED
    BY <2>3, <2>13, <2>14, <1>11 DEF Exact
<1> QED
  BY <1>12, <1>13, <1>15, <1>16 DEF IInv

\* A new inode leads nowhere.
LEMMA NewTree ==
    ASSUME NEW num \in Nat, NEW d
    PROVE  /\ NewInode(num) \in InodeType /\ NewInode(num).length = num
           /\ Tree(d, NewInode(num)) = {} /\ Proper(d, NewInode(num))
<1>1. /\ NewInode(num) \in InodeType /\ NewInode(num).length = num
      /\ NewInode(num).direct_blocks = [i \in Direct |-> 0]
      /\ NewInode(num).indirect_block = 0 /\ NewInode(num).doubly_indirect_block = 0
  BY SectorTypes DEF NewInode, ZeroInode
<1>2. Entries(NewInode(num).direct_blocks) = {} /\ Once(NewInode(num).direct_blocks)
  BY <1>1 DEF Entries, Once
<1>3. Tree1(d, 0) = {} /\ Tree2(d, 0) = {} /\ Proper1(d, 0) /\ Proper2(d, 0)
  BY DEF Tree1, Tree2, Proper1, Proper2
<1> QED
  BY <1>1, <1>2, <1>3 DEF Tree, Proper

\* A creation leaves the files there are alone, and adds f or nothing.
Adds(f, num) ==
    /\ \A g \in Files : dir'[g] = dir[g] /\ (MapInodeIntact' => InodeOf(g)' = InodeOf(g))
    /\ Files' = Files \/ (f \notin Files /\ Files' = Files \cup {f})
    /\ MapInodeIntact' /\ f \in Files' \ Files => InodeOf(f)'.length = num

\* filesys_create.
LEMMA CreateIInv ==
    ASSUME IInv, NEW f, NEW num \in Nat, Created(f, num),
           open_inodes' = open_inodes, file_table' = file_table
    PROVE  IInv' /\ (MapInodeIntact' => MapInodeIntact) /\ Adds(f, num)
<1> DEFINE s == bitmap_scan(free_map)
           N == NewInode(num)
           base == [map |-> free_map \cup {s}, disk |-> disk]
           r == inode_reserve(base, N, num)
           e == r.fs.disk
           success == r.ok /\ f \notin DOMAIN dir
<1>1. Typed
  BY DEF IInv
<1>2. open_inodes' = open_inodes /\ file_table' = file_table
  OBVIOUS
<1>3. ASSUME s = 0 PROVE IInv' /\ (MapInodeIntact' => MapInodeIntact) /\ Adds(f, num)
  <2>1. free_map' = free_map /\ map_file' = map_file /\ disk' = disk /\ dir' = dir /\ failed' = failed \cup {"create"}
    BY <1>3 DEF Created
  <2>2. Files' = Files /\ (MapInodeIntact' <=> MapInodeIntact)
    BY <2>1 DEF Files, MapInodeIntact
  <2>3. Typed'
    BY <2>1, <2>2, <1>1, <1>2 DEF Typed
  <2>4. \A g : /\ InodeOf(g)' = InodeOf(g) /\ DataAt(g)' = DataAt(g) /\ All(g)' = All(g)
    BY <2>1, <1>2 DEF InodeOf, DataAt, DataOf, All
  <2>5. \A g : FileOK(g)' <=> FileOK(g)
    BY <2>1, <2>4 DEF FileOK
  <2>6. MapInodeIntact => Sound'
    BY <2>1, <2>2, <2>4, <2>5, <1>2 DEF IInv, Sound
  <2>7. Adds(f, num)
    BY <2>1, <2>2, <2>4 DEF Adds
  <2> QED
    BY <2>1, <2>2, <2>3, <2>6, <2>7 DEF IInv
<1>4. ASSUME s # 0 PROVE IInv' /\ (MapInodeIntact' => MapInodeIntact) /\ Adds(f, num)
  <2>1. /\ free_map' = IF success THEN r.fs.map ELSE r.fs.map \ {s}
        /\ map_file' = free_map'
        /\ disk' = IF r.ok THEN [e EXCEPT ![s] = InodeSector(r.inode)] ELSE e
        /\ dir' = IF r.ok THEN dir_add(dir, f, s) ELSE dir
        /\ failed' = IF success THEN failed ELSE failed \cup {"create"}
    BY <1>4 DEF Created, Create
  <2>2. s \in Sectors /\ s \notin free_map
    BY <1>4, Scan
  <2>3. num \in Nat /\ N \in InodeType /\ N.length = num /\ Tree(disk, N) = {} /\ Proper(disk, N)
    BY NewTree
  <2>4. base \in FsType /\ base.map = free_map \cup {s} /\ base.disk = disk
    BY <2>2, <1>1 DEF FsType, Typed
  <2> HIDE DEF N, base, s
  <2>5. r \in StateType /\ Stays(base, r.fs)
    BY <2>3, <2>4, ReserveType
  <2>6. \/ Broke(r)
        \/ 0 \notin free_map
        \/ /\ Reserved(base, N, r.fs, r.inode)
           /\ r.ok => /\ Filled(r.fs.disk, r.inode, num)
                      /\ r.fs.map \ base.map \subseteq Covered(r.fs.disk, r.inode, num)
    <3>1. 0 \in free_map => 0 \in base.map
      BY <2>4
    <3>2. Proper(base.disk, N) /\ Tree(base.disk, N) \subseteq base.map
      BY <2>3, <2>4
    <3> QED
      BY <3>1, <3>2, <2>3, <2>4, ReserveSteps
  <2> HIDE DEF r
  <2>7. e \in [Sectors -> SectorType] /\ r.inode \in InodeType /\ r.fs.map \subseteq Sectors /\ r.ok \in BOOLEAN
    BY <2>5 DEF StateType, FsType
  <2> HIDE DEF e
  <2>8. /\ disk' \in [Sectors -> SectorType]
        /\ \A t \in Sectors : t # s => disk'[t] = e[t]
        /\ r.ok => disk'[s].inode = r.inode
    <3>1. InodeSector(r.inode) \in SectorType /\ InodeSector(r.inode).inode = r.inode
      BY <2>7, SectorTypes
    <3> QED
      BY <3>1, <2>1, <2>2, <2>7
  <2>9. /\ \A g \in Files : dir'[g] = dir[g]
        /\ success => Files' = Files \cup {f} /\ f \notin Files /\ dir'[f] = s
        /\ ~success => Files' = Files
        /\ dir' \in [Files' -> Sectors \ {0}]
    <3>1. CASE success
      <4>1. dir' = [x \in Files \cup {f} |-> IF x = f THEN s ELSE dir[x]]
        BY <3>1, <2>1 DEF dir_add, Bind, Files
      <4>2. f \notin Files
        BY <3>1 DEF Files
      <4>3. Files' = Files \cup {f}
        BY <4>1 DEF Files
      <4> QED
        BY <4>1, <4>2, <4>3, <3>1, <2>2, <1>1, <1>4 DEF Typed
    <3>2. CASE ~success
      <4>1. dir' = dir
        BY <3>2, <2>1 DEF dir_add
      <4>2. Files' = Files
        BY <4>1 DEF Files
      <4> QED
        BY <4>1, <4>2, <3>2, <1>1 DEF Typed
    <3> QED
      BY <3>1, <3>2
  <2>10. Typed'
    <3>1. file_table' \subseteq Files'
      BY <2>9, <1>1, <1>2 DEF Typed
    <3>2. free_map' \subseteq Sectors /\ map_file' \subseteq Sectors /\ failed' \subseteq {"create", "write"}
      BY <2>1, <2>7, <1>1 DEF Typed
    <3> QED
      BY <3>1, <3>2, <2>8, <2>9, <1>1, <1>2 DEF Typed
  <2>11. MapInodeIntact' => MapInodeIntact /\ Intact(e)
    <3>1. disk'[0] = e[0]
      BY <2>8, <1>4, SectorTypes
    <3>2. Intact(e) => Intact(disk)
      BY <2>4, <2>5 DEF Stays, e
    <3> QED
      BY <3>1, <3>2 DEF MapInodeIntact, Intact, FREE_MAP_SECTOR
  <2>12. ASSUME Sound, ~Broke(r)
         PROVE  /\ Sound'
                /\ disk'[0] = disk[0]
                /\ \A g \in Files :
                     /\ All(g)' = All(g) /\ DataAt(g)' = DataAt(g) /\ InodeOf(g)' = InodeOf(g)
                     /\ inode_deallocate(disk, InodeOf(g)) \subseteq inode_deallocate(disk, InodeOf(g))'
                /\ success => /\ DataAt(f)' = r.inode /\ InodeOf(f)' = r.inode
                              /\ r.inode.length = num
                              /\ All(f)' \subseteq {s} \cup Covered(disk', r.inode, num)
                              /\ {s} \cup Covered(disk', r.inode, num) \subseteq All(f)'
                              /\ free_map' \subseteq free_map \cup {s} \cup Covered(disk', r.inode, num)
    <3>1. 0 \in System /\ System \subseteq free_map /\ free_map \subseteq Sectors
      BY <1>1, <2>12 DEF Sound, System, Typed
    <3>2. /\ Reserved(base, N, r.fs, r.inode)
          /\ r.ok => /\ Filled(e, r.inode, num)
                     /\ r.fs.map \ (free_map \cup {s}) \subseteq Covered(e, r.inode, num)
      BY <3>1, <2>4, <2>6, <2>12 DEF e
    <3>3. /\ free_map \cup {s} \subseteq r.fs.map
          /\ \A t \in free_map \cup {s} : e[t] = disk[t]
          /\ Proper(e, r.inode)
          /\ Tree(e, r.inode) \subseteq r.fs.map \ (free_map \cup {s})
          /\ r.inode.length = num
      BY <3>2, <2>3, <2>4 DEF Reserved, Grown, e
    <3>4. ASSUME NEW g \in Files
          PROVE  /\ FileOK(g)' /\ All(g)' = All(g)
                 /\ DataAt(g)' = DataAt(g) /\ InodeOf(g)' = InodeOf(g)
                 /\ inode_deallocate(disk, InodeOf(g)) \subseteq inode_deallocate(disk, InodeOf(g))'
                 /\ All(g) \subseteq free_map
      <4>1. All(g) \subseteq free_map
        BY <2>12 DEF Sound, FileOK, Stores, All
      <4>2. \A u \in All(g) : disk'[u] = disk[u]
        BY <4>1, <3>1, <3>3, <2>2, <2>8
      <4>3. All(g) \subseteq free_map'
        BY <4>1, <3>3, <2>1, <2>2
      <4>4. dir'[g] = dir[g]
        BY <2>9
      <4> QED
        BY <4>1, <4>2, <4>3, <4>4, <1>1, <1>2, <2>12, Others
    <3>5. disk'[0] = disk[0]
      BY <3>1, <3>3, <2>8, <1>4, SectorTypes
    <3>6. ASSUME success
          PROVE  /\ DataAt(f)' = r.inode /\ InodeOf(f)' = r.inode
                 /\ FileOK(f)' /\ All(f)' = {s} \cup Tree(e, r.inode)
                 /\ All(f)' \subseteq {s} \cup Covered(disk', r.inode, num)
                 /\ {s} \cup Covered(disk', r.inode, num) \subseteq All(f)'
                 /\ free_map' \subseteq free_map \cup {s} \cup Covered(disk', r.inode, num)
      <4>1. dir'[f] = s /\ r.ok /\ free_map' = r.fs.map
        BY <3>6, <2>1, <2>9
      <4>2. InodeOf(f)' = r.inode
        BY <4>1, <2>8 DEF InodeOf
      <4>3. s \notin DOMAIN open_inodes
        <5>1. \A g \in Files : dir[g] \in free_map
          BY <3>4 DEF All
        <5> QED
          BY <5>1, <2>2, <2>12, <1>1 DEF Sound, Typed
      <4>4. DataAt(f)' = r.inode
        BY <4>1, <4>2, <4>3, <1>2 DEF DataAt, DataOf, InodeOf
      <4>5. s \notin Tree(e, r.inode) /\ Tree(e, r.inode) \subseteq Sectors
        BY <3>3, <2>7
      <4>6. /\ Tree(disk', r.inode) = Tree(e, r.inode) /\ Proper(disk', r.inode)
            /\ Filled(disk', r.inode, num)
            /\ Covered(e, r.inode, num) \subseteq Covered(disk', r.inode, num)
            /\ Covered(disk', r.inode, num) \subseteq Tree(disk', r.inode)
        BY <4>1, <4>5, <3>2, <3>3, <2>3, <2>7, <2>8, Written
      <4>7. All(f)' = {s} \cup Tree(e, r.inode)
        BY <4>1, <4>4, <4>6 DEF All
      <4>8. Extends(r.inode, r.inode)
        BY DEF Extends, Keeps
      <4>9. {s} \cup Tree(e, r.inode) \subseteq free_map' \ System
        BY <4>1, <3>1, <3>3, <2>2
      <4>10. Stores(free_map', disk', s, r.inode, r.inode)
        BY <4>5, <4>6, <4>8, <4>9, <3>3 DEF Stores
      <4>11. FileOK(f)'
        BY <4>1, <4>2, <4>4, <4>10 DEF FileOK
      <4>12. /\ All(f)' \subseteq {s} \cup Covered(disk', r.inode, num)
             /\ {s} \cup Covered(disk', r.inode, num) \subseteq All(f)'
             /\ free_map' \subseteq free_map \cup {s} \cup Covered(disk', r.inode, num)
        BY <4>1, <4>6, <4>7, <3>2, <3>3
      <4> QED
        BY <4>2, <4>4, <4>7, <4>11, <4>12
    <3>7. \A g \in Files' : FileOK(g)'
      BY <3>4, <3>6, <2>9
    <3>8. \A g, h \in Files : g # h => All(g)' \cap All(h)' = {}
      BY <3>4, <2>12 DEF Sound
    <3>9. success => \A g \in Files : All(g)' \cap All(f)' = {}
      BY <3>3, <3>4, <3>6, <2>2
    <3>10. \A g, h \in Files' : g # h => All(g)' \cap All(h)' = {}
      <4> HIDE DEF success
      <4> QED
        BY <3>8, <3>9, <2>9
    <3>11. DOMAIN open_inodes' \subseteq {dir'[g] : g \in Files'}
      BY <2>9, <2>12, <1>2 DEF Sound
    <3>c. \A g \in Files' : (g \in file_table' /\ "write" \in failed') \/ DataAt(g)' = InodeOf(g)'
      <4>1. \A g \in Files : (g \in file_table' /\ "write" \in failed') \/ DataAt(g)' = InodeOf(g)'
        BY <3>4, <2>1, <2>12, <1>2 DEF Sound
      <4> QED
        BY <4>1, <3>6, <2>9
    <3>12. map_file' = free_map' /\ System \subseteq free_map'
      BY <3>1, <3>3, <2>1, <2>2
    <3>13. Sound'
      BY <3>7, <3>10, <3>11, <3>12, <3>c DEF Sound
    <3> QED
      BY <3>3, <3>4, <3>5, <3>6, <3>13
  <2>13. ASSUME MapInodeIntact' PROVE Sound'
    <3>1. MapInodeIntact /\ Intact(e)
      BY <2>11, <2>13
    <3>2. ~Broke(r) /\ Sound
      BY <3>1 DEF Broke, IInv, e
    <3> QED
      BY <3>2, <2>12
  <2>14. ASSUME failed' = {} PROVE Exact'
    <3>1. success /\ failed = {}
      BY <2>1, <2>14
    <3>2. Exact /\ Sound /\ ~Broke(r)
      BY <3>1 DEF IInv, Exact, Broke
    <3>3. MapInodeIntact'
      BY <3>2, <2>12 DEF MapInodeIntact, FREE_MAP_SECTOR, Exact
    <3>4. Files' = Files \cup {f} /\ dir'[f] = s /\ \A g \in Files : dir'[g] = dir[g]
      BY <3>1, <2>9
    <3>5. /\ DataAt(f)' = r.inode /\ InodeOf(f)' = r.inode /\ r.inode.length = num
          /\ All(f)' \subseteq {s} \cup Covered(disk', r.inode, num)
          /\ {s} \cup Covered(disk', r.inode, num) \subseteq All(f)'
          /\ free_map' \subseteq free_map \cup {s} \cup Covered(disk', r.inode, num)
      BY <3>1, <3>2, <2>12
    <3>6. inode_deallocate(disk, InodeOf(f))' = Covered(disk', r.inode, num)
      <4>1. inode_deallocate(disk, InodeOf(f))' = inode_deallocate(disk', r.inode)
        BY <3>5 DEF inode_deallocate, IndirectBlocks, DoublyBlocks
      <4>2. inode_deallocate(disk', r.inode) = Covered(disk', r.inode, r.inode.length)
        BY DEF inode_deallocate, Covered
      <4> QED
        BY <4>1, <4>2, <3>5
    <3>7. \A g \in Files : /\ DataAt(g)' = InodeOf(g)' /\ All(g)' = All(g)
                           /\ All(g)' \subseteq {dir'[g]} \cup inode_deallocate(disk, InodeOf(g))'
      BY <3>2, <3>4, <2>12 DEF Exact
    <3>8. \A g \in Files' : /\ DataAt(g)' = InodeOf(g)'
                            /\ All(g)' \subseteq {dir'[g]} \cup inode_deallocate(disk, InodeOf(g))'
      BY <3>4, <3>5, <3>6, <3>7
    <3>9. free_map' \subseteq System \cup UNION {All(g)' : g \in Files'}
      <4>1. free_map \subseteq System \cup UNION {All(g) : g \in Files}
        BY <3>2 DEF Exact
      <4>2. UNION {All(g) : g \in Files} \subseteq UNION {All(g)' : g \in Files'}
        BY <3>4, <3>7
      <4>3. {s} \cup Covered(disk', r.inode, num) \subseteq UNION {All(g)' : g \in Files'}
        BY <3>4, <3>5
      <4> QED
        BY <4>1, <4>2, <4>3, <3>5
    <3> QED
      BY <3>3, <3>8, <3>9 DEF Exact
  <2>15. Adds(f, num)
    <3>1. ASSUME MapInodeIntact'
          PROVE  /\ \A g \in Files : InodeOf(g)' = InodeOf(g)
                 /\ success => InodeOf(f)' = r.inode /\ r.inode.length = num
      <4>1. ~Broke(r) /\ Sound
        BY <3>1, <2>11 DEF Broke, IInv, e
      <4> QED
        BY <4>1, <2>12
    <3>2. Files' = Files \/ (success /\ f \notin Files /\ Files' = Files \cup {f})
      BY <2>9
    <3> HIDE DEF success
    <3> QED
      BY <3>1, <3>2, <2>9 DEF Adds
  <2> QED
    BY <2>10, <2>11, <2>13, <2>14, <2>15 DEF IInv
<1> QED
  BY <1>3, <1>4

\* A step that changes nothing.
LEMMA StutterIInv == ASSUME IInv, UNCHANGED vars PROVE IInv'
<1>1. /\ free_map' = free_map /\ map_file' = map_file /\ disk' = disk /\ dir' = dir
      /\ open_inodes' = open_inodes /\ file_table' = file_table /\ failed' = failed
  BY DEF vars
<1>2. Files' = Files /\ (MapInodeIntact' <=> MapInodeIntact)
  BY <1>1 DEF Files, MapInodeIntact
<1>3. Typed'
  BY <1>1, <1>2 DEF IInv, Typed
<1>4. \A g : /\ InodeOf(g)' = InodeOf(g) /\ DataAt(g)' = DataAt(g) /\ All(g)' = All(g)
             /\ inode_deallocate(disk, InodeOf(g))' = inode_deallocate(disk, InodeOf(g))
  BY <1>1 DEF InodeOf, DataAt, DataOf, All
<1>5. \A g : FileOK(g)' <=> FileOK(g)
  BY <1>1, <1>4 DEF FileOK
<1>6. MapInodeIntact => Sound'
  BY <1>1, <1>2, <1>4, <1>5 DEF IInv, Sound
<1>7. failed = {} => Exact'
  BY <1>1, <1>2, <1>4 DEF IInv, Exact
<1> QED
  BY <1>1, <1>2, <1>3, <1>6, <1>7 DEF IInv

\* Every step keeps the invariant.
LEMMA NextIInv == IInv /\ [Next]_vars => IInv'
<1> SUFFICES ASSUME IInv, [Next]_vars PROVE IInv'
  OBVIOUS
<1>1. ASSUME NEW f \in Names, NEW num \in Lengths, filesys_create(f, num) PROVE IInv'
  BY <1>1, SizesAssumption, CreateIInv DEF filesys_create
<1>2. ASSUME NEW f \in DOMAIN dir, NEW num \in Lengths, inode_write_at(f, num) PROVE IInv'
  BY <1>2, SizesAssumption, WriteIInv DEF Files
<1>3. ASSUME NEW f \in DOMAIN dir, inode_open(f) PROVE IInv'
  BY <1>3, OpenIInv DEF Files
<1>4. ASSUME NEW f \in DOMAIN dir, inode_close(f) PROVE IInv'
  BY <1>4, CloseIInv DEF Files
<1>5. ASSUME NEW f \in DOMAIN dir, filesys_remove(f) PROVE IInv'
  BY <1>5, RemoveIInv DEF Files
<1>6. ASSUME Restart PROVE IInv'
  BY <1>6, RestartIInv
<1>7. ASSUME UNCHANGED vars PROVE IInv'
  BY <1>7, StutterIInv
<1> QED
  BY <1>1, <1>2, <1>3, <1>4, <1>5, <1>6, <1>7 DEF Next, FileCall

\* The trees of all files stay apart from each other and from the system's
\* sectors, marked in the free map, while the free map's inode is there; and
\* while nothing has failed the map marks nothing else.
THEOREM Invariance == Spec => []IInv
<1> QED
  BY InitIInv, NextIInv, PTL DEF Spec

\* What a file owns is part of its tree.
LEMMA OwnedInAll ==
    ASSUME Typed, Sound, NEW f \in Files
    PROVE  Owned(f) \subseteq All(f)
<1>1. /\ Stores(free_map, disk, dir[f], InodeOf(f), DataAt(f))
      /\ InodeOf(f) \in InodeType /\ DataAt(f) \in InodeType
      /\ disk \in [Sectors -> SectorType]
  BY FileTypes DEF Sound, FileOK, Typed
<1>2. inode_deallocate(disk, InodeOf(f)) \subseteq Tree(disk, DataAt(f))
  BY <1>1, Deallocated
<1>3. Held(f) \subseteq Tree(disk, DataAt(f))
  <2>1. CASE dir[f] \notin DOMAIN open_inodes
    BY <2>1 DEF Held
  <2>2. CASE dir[f] \in DOMAIN open_inodes
    <3>1. PICK data : data = DataAt(f)
      OBVIOUS
    <3>2. Held(f) = ({data.direct_blocks[i] : i \in Direct}
                      \cup {data.indirect_block, data.doubly_indirect_block}) \ {0}
      BY <2>2, <3>1 DEF Held, DataAt, DataOf
    <3>3. DOMAIN data.direct_blocks = Direct
      BY <3>1, <1>1 DEF InodeType
    <3>4. {data.direct_blocks[i] : i \in Direct} \ {0} = Entries(data.direct_blocks)
      BY <3>3 DEF Entries
    <3>5. \A p : p # 0 => p \in Tree1(disk, p) /\ p \in Tree2(disk, p)
      BY DEF Tree1, Tree2
    <3> QED
      BY <3>1, <3>2, <3>4, <3>5 DEF Tree
  <2> QED
    BY <2>1, <2>2
<1> QED
  BY <1>2, <1>3 DEF Owned, All

\* Every state of the invariant marks what its files own.
LEMMA IInvMarked == IInv => OwnedIsMarked
<1> SUFFICES ASSUME IInv PROVE OwnedIsMarked
  OBVIOUS
<1>1. Typed
  BY DEF IInv
<1>2. TypeOK
  <2>1. \A s \in Sectors : disk[s].blocks \in [Pointers -> Sectors] /\ disk[s].inode \in InodeType
    BY <1>1 DEF Typed, SectorType
  <2>2. \A f \in Files : dir[f] \in Sectors
    BY <1>1 DEF Typed
  <2>3. \A s \in DOMAIN open_inodes : s \in Sectors /\ open_inodes[s] \in InodeType
    BY <1>1 DEF Typed
  <2> QED
    BY <1>1, <2>1, <2>2, <2>3 DEF Typed, TypeOK
<1>3. ASSUME MapInodeIntact, NEW f \in Files PROVE Owned(f) \subseteq free_map
  <2>1. Sound
    BY <1>3 DEF IInv
  <2>2. All(f) \subseteq free_map
    BY <2>1 DEF Sound, FileOK, Stores, All
  <2> QED
    BY <2>1, <2>2, <1>1, OwnedInAll
<1> QED
  BY <1>2, <1>3 DEF OwnedIsMarked

\* A sector that a file uses is never free for free_map_allocate to hand out,
\* as long as no full disk has put zeros into the free map's inode: for any
\* disk, block sizes, file names and lengths.
THEOREM OwnedMarked == Spec => []OwnedIsMarked
<1> QED
  BY IInvMarked, Invariance, PTL

\* While nothing has failed it marks nothing else.
LEMMA IInvExact == IInv => NothingLost
<1> SUFFICES ASSUME IInv, failed = {} PROVE free_map = System \cup UNION {Owned(f) : f \in Files}
  BY DEF NothingLost
<1>1. Typed /\ Exact /\ Sound
  BY DEF IInv, Exact
<1>2. \A f \in Files : Owned(f) \subseteq All(f)
  BY <1>1, OwnedInAll
<1>3. \A f \in Files : All(f) \subseteq Owned(f)
  BY <1>1 DEF Exact, Owned
<1>4. free_map \subseteq System \cup UNION {Owned(f) : f \in Files}
  BY <1>1, <1>3 DEF Exact
<1>5. \A f \in Files : All(f) \subseteq free_map
  BY <1>1 DEF Sound, FileOK, Stores, All
<1>6. System \subseteq free_map
  BY <1>1 DEF Sound
<1> QED
  BY <1>2, <1>4, <1>5, <1>6

\* As long as no call has failed, creating, extending, closing, reopening and
\* removing files loses no sector: the free map marks those of the system and
\* of the files, and no other.
THEOREM NothingIsLost == Spec => []NothingLost
<1> QED
  BY IInvExact, Invariance, PTL

\* A pointer block covers itself and num sectors.
LEMMA CountsIndirect ==
    ASSUME NEW d \in [Sectors -> SectorType], NEW p \in Sectors, NEW num \in Nat,
           num <= INDIRECT_BLOCKS_PER_SECTOR, Filled1(d, p, num), Proper1(d, p)
    PROVE  Counts(IndirectBlocks(d, p, num), num + 1)
<1> DEFINE B == d[p].blocks
           S == {B[i] : i \in 0..(num - 1)}
<1>1. \A i \in 0..(num - 1) : i \in Pointers
  BY SizesAssumption DEF Pointers
<1>2. DOMAIN B = Pointers
  BY DEF SectorType
<1>3. p # 0 /\ \A i \in 0..(num - 1) : B[i] # 0
  BY DEF Filled1, Filled0
<1>4. Once(B) /\ p \notin Entries(B)
  BY <1>3 DEF Proper1
<1>5. IndirectBlocks(d, p, num) = {p} \cup S
  BY DEF IndirectBlocks
<1> HIDE DEF B
<1>6. \A i, j \in 0..(num - 1) : B[i] = B[j] => i = j
  BY <1>1, <1>2, <1>3, <1>4 DEF Once
<1>7. p \notin S
  BY <1>1, <1>2, <1>3, <1>4 DEF Entries
<1>8. Counts(S, num)
  BY <1>6, CountsValues
<1> HIDE DEF S
<1> QED
  BY <1>5, <1>7, <1>8, CountsOneMore

\* The sectors below the first m pointers of a level 2 block.
Below(d, blocks, num, m) == UNION {IndirectBlocks(d, blocks[i], Subsize(num, i)) : i \in 0..(m - 1)}

\* How many of num sectors are below the first m pointers.
LEMMA SubsizesAdd ==
    ASSUME NEW num \in Nat, NEW m \in Nat, m + 1 <= DivRoundUp(num, INDIRECT_BLOCKS_PER_SECTOR)
    PROVE  /\ m * INDIRECT_BLOCKS_PER_SECTOR \in Nat /\ m * INDIRECT_BLOCKS_PER_SECTOR < num
           /\ Smaller(num, m * INDIRECT_BLOCKS_PER_SECTOR) = m * INDIRECT_BLOCKS_PER_SECTOR
           /\ Subsize(num, m) \in 1..INDIRECT_BLOCKS_PER_SECTOR
           /\ Smaller(num, m * INDIRECT_BLOCKS_PER_SECTOR) + Subsize(num, m)
                = Smaller(num, (m + 1) * INDIRECT_BLOCKS_PER_SECTOR)
<1>1. PICK k \in Nat : k = INDIRECT_BLOCKS_PER_SECTOR /\ k > 0
  BY SizesAssumption
<1>2. PICK last \in Nat : last = DivRoundUp(num, k) /\ \A i \in Nat : i < last <=> i * k < num
  BY <1>1, RoundUp
<1>3. PICK a \in Nat : a = m * k
  BY Times
<1>4. m < last
  BY <1>1, <1>2
<1>5. a < num
  BY <1>2, <1>3, <1>4
<1>6. (m + 1) * k = a + k
  BY <1>3
<1>7. Smaller(num, a) = a
  BY <1>5 DEF Smaller
<1>8. a + Smaller(num - a, k) = Smaller(num, a + k)
  BY <1>5 DEF Smaller
<1>9. Smaller(num - a, k) \in 1..k
  BY <1>1, <1>5 DEF Smaller
<1>10. Subsize(num, m) = Smaller(num - a, k)
  BY <1>1, <1>3 DEF Subsize
<1> QED
  BY <1>1, <1>3, <1>5, <1>6, <1>7, <1>8, <1>9, <1>10

\* All of them are below the last one.
LEMMA SubsizesAll ==
    ASSUME NEW num \in Nat
    PROVE  LET last == DivRoundUp(num, INDIRECT_BLOCKS_PER_SECTOR)
           IN  /\ last \in Nat
               /\ Smaller(num, last * INDIRECT_BLOCKS_PER_SECTOR) = num
               /\ Smaller(num, 0 * INDIRECT_BLOCKS_PER_SECTOR) = 0
<1>1. PICK k \in Nat : k = INDIRECT_BLOCKS_PER_SECTOR /\ k > 0
  BY SizesAssumption
<1>2. PICK last \in Nat : last = DivRoundUp(num, k) /\ \A i \in Nat : i < last <=> i * k < num
  BY <1>1, RoundUp
<1>3. PICK a \in Nat : a = last * k
  BY Times
<1>4. ~(a < num)
  BY <1>2, <1>3
<1>5. Smaller(num, a) = num
  BY <1>4 DEF Smaller
<1>6. Smaller(num, 0) = 0 /\ 0 * k = 0
  BY DEF Smaller
<1> QED
  BY <1>1, <1>2, <1>3, <1>5, <1>6

\* A level 2 block covers itself, its pointer blocks and num sectors.
LEMMA CountsDoubly ==
    ASSUME NEW d \in [Sectors -> SectorType], NEW p \in Sectors, NEW num \in Nat,
           num <= INDIRECT_BLOCKS_PER_SECTOR * INDIRECT_BLOCKS_PER_SECTOR,
           Filled2(d, p, num), Proper2(d, p)
    PROVE  Counts(DoublyBlocks(d, p, num), num + DivRoundUp(num, INDIRECT_BLOCKS_PER_SECTOR) + 1)
<1> DEFINE K == INDIRECT_BLOCKS_PER_SECTOR
           B == d[p].blocks
           last == DivRoundUp(num, K)
           T == {m \in 0..last : Counts(Below(d, B, num, m), Smaller(num, m * K) + m)}
<1>1. last \in Nat /\ last <= K
  BY Subsizes
<1>2. p # 0 /\ \A i \in 0..(last - 1) : Filled1(d, B[i], Subsize(num, i))
  BY DEF Filled2
<1>3. Apart1(d, B) /\ \A i \in Pointers : p \notin Tree1(d, B[i])
  BY <1>2 DEF Proper2
<1>4. \A i \in 0..(last - 1) : i \in Pointers
  <2> HIDE DEF last
  <2> QED
    BY <1>1, SizesAssumption DEF Pointers
<1>5. \A i \in Pointers : B[i] \in Sectors
  BY DEF SectorType
<1>6. DoublyBlocks(d, p, num) = {p} \cup Below(d, B, num, last)
  BY DEF DoublyBlocks, Below
<1> HIDE DEF B
<1>7. ASSUME NEW i \in 0..(last - 1)
      PROVE  /\ Subsize(num, i) \in Nat
             /\ IndirectBlocks(d, B[i], Subsize(num, i)) \subseteq Tree1(d, B[i])
             /\ Counts(IndirectBlocks(d, B[i], Subsize(num, i)), Subsize(num, i) + 1)
  <2>1. Subsize(num, i) \in 1..K
    BY Subsizes
  <2>2. Subsize(num, i) \in Nat /\ Subsize(num, i) <= K
    BY <2>1, SizesAssumption
  <2>3. B[i] \in Sectors /\ Filled1(d, B[i], Subsize(num, i)) /\ Proper1(d, B[i])
    BY <1>2, <1>3, <1>4, <1>5 DEF Apart1
  <2> QED
    BY <2>2, <2>3, IndirectInTree, CountsIndirect
<1>8. 0 \in T
  <2>1. Below(d, B, num, 0) = {}
    BY DEF Below
  <2>2. Counts({}, 0)
    BY FS_EmptySet DEF Counts
  <2>3. Smaller(num, 0 * K) + 0 = 0
    BY SubsizesAll
  <2>4. 0 \in 0..last
    BY <1>1
  <2> HIDE DEF K, last
  <2>5. Counts(Below(d, B, num, 0), Smaller(num, 0 * K) + 0)
    BY <2>1, <2>2, <2>3
  <2> QED
    BY <2>4, <2>5
<1>9. ASSUME NEW n \in 1..last, n - 1 \in T PROVE n \in T
  <2>1. PICK m \in Nat : m = n - 1 /\ m + 1 = n /\ m \in 0..(last - 1) /\ m + 1 <= last
    <3> HIDE DEF last
    <3> QED
      BY <1>1
  <2>2. /\ Smaller(num, m * K) \in Nat
        /\ Smaller(num, m * K) + Subsize(num, m) = Smaller(num, (m + 1) * K)
    BY <2>1, SubsizesAdd
  <2>3. Counts(Below(d, B, num, m), Smaller(num, m * K) + m)
    BY <1>9, <2>1
  <2>4. /\ Subsize(num, m) \in Nat
        /\ IndirectBlocks(d, B[m], Subsize(num, m)) \subseteq Tree1(d, B[m])
        /\ Counts(IndirectBlocks(d, B[m], Subsize(num, m)), Subsize(num, m) + 1)
    BY <2>1, <1>7
  <2>5. \A i \in 0..(m - 1) : i \in 0..(last - 1) /\ i # m
    <3> HIDE DEF last
    <3> QED
      BY <2>1, <1>1
  <2>6. Below(d, B, num, m) \cap IndirectBlocks(d, B[m], Subsize(num, m)) = {}
    <3>1. \A i \in 0..(m - 1) : Tree1(d, B[i]) \cap Tree1(d, B[m]) = {}
      BY <2>1, <2>5, <1>3, <1>4 DEF Apart1
    <3>2. \A i \in 0..(m - 1) : IndirectBlocks(d, B[i], Subsize(num, i)) \subseteq Tree1(d, B[i])
      BY <2>5, <1>7
    <3> HIDE DEF last
    <3> QED
      BY <3>1, <3>2, <2>4 DEF Below
  <2>7. Below(d, B, num, m + 1) = Below(d, B, num, m) \cup IndirectBlocks(d, B[m], Subsize(num, m))
    <3>1. 0..((m + 1) - 1) = 0..(m - 1) \cup {m}
      BY <2>1
    <3> HIDE DEF last
    <3> QED
      BY <3>1 DEF Below
  <2>8. PICK a \in Nat, b \in Nat : a = Smaller(num, m * K) /\ b = Subsize(num, m)
    BY <2>2, <2>4
  <2>9. a + m \in Nat /\ b + 1 \in Nat /\ (a + m) + (b + 1) = (a + b) + (m + 1)
    OBVIOUS
  <2>10. Counts(Below(d, B, num, m + 1), (a + m) + (b + 1))
    <3>1. Counts(Below(d, B, num, m), a + m) /\ Counts(IndirectBlocks(d, B[m], Subsize(num, m)), b + 1)
      BY <2>3, <2>4, <2>8
    <3>2. PICK S1, S2 : S1 = Below(d, B, num, m) /\ S2 = IndirectBlocks(d, B[m], Subsize(num, m))
      OBVIOUS
    <3>x. PICK x \in Nat, y \in Nat : x = a + m /\ y = b + 1
      BY <2>9
    <3>3. Counts(S1, x) /\ Counts(S2, y) /\ S1 \cap S2 = {}
      BY <3>1, <3>2, <3>x, <2>6
    <3>4. Counts(S1 \cup S2, x + y)
      BY <3>3, CountsTogether
    <3> QED
      BY <3>2, <3>x, <3>4, <2>7
  <2>11. Counts(Below(d, B, num, m + 1), Smaller(num, (m + 1) * K) + (m + 1))
    BY <2>2, <2>8, <2>9, <2>10
  <2> QED
    BY <2>1, <2>11
<1>10. last \in T
  <2> HIDE DEF T, last
  <2>1. 0..last \subseteq T
    BY <1>1, <1>8, <1>9, Climb
  <2> QED
    BY <2>1, <1>1
<1>11. Counts(Below(d, B, num, last), num + last)
  <2>1. Smaller(num, last * K) = num
    BY SubsizesAll
  <2> QED
    BY <2>1, <1>10
<1>12. p \notin Below(d, B, num, last)
  BY <1>3, <1>4, <1>7 DEF Below
<1> HIDE DEF T, last
<1>13. Counts({p} \cup Below(d, B, num, last), num + last + 1)
  <2>1. num + last \in Nat
    BY <1>1
  <2> QED
    BY <2>1, <1>11, <1>12, CountsOneMore
<1> QED
  BY <1>6, <1>13 DEF last

\* The sectors of a file of num sectors, its inode included.
LEMMA CountsCovered ==
    ASSUME NEW d \in [Sectors -> SectorType], NEW inode \in InodeType, NEW num \in Nat, NEW s,
           Filled(d, inode, num), Proper(d, inode), s \notin Tree(d, inode)
    PROVE  Counts({s} \cup Covered(d, inode, num), 1 + num + PointerCount(num))
<1> DEFINE A == {inode.direct_blocks[i] : i \in 0..(InDirect(num) - 1)}
           B == IF InIndirect(num) = 0 THEN {} ELSE IndirectBlocks(d, inode.indirect_block, InIndirect(num))
           C == IF InDoubly(num) = 0 THEN {} ELSE DoublyBlocks(d, inode.doubly_indirect_block, InDoubly(num))
<1>p. PICK a \in Nat, b \in Nat, c \in Nat, l \in Nat :
         /\ a = InDirect(num) /\ b = InIndirect(num) /\ c = InDoubly(num)
         /\ l = DivRoundUp(InDoubly(num), INDIRECT_BLOCKS_PER_SECTOR)
  <2>1. InDirect(num) \in Nat /\ InIndirect(num) \in Nat /\ InDoubly(num) \in Nat
    BY Parts, SizesAssumption
  <2>2. DivRoundUp(InDoubly(num), INDIRECT_BLOCKS_PER_SECTOR) \in Nat
    BY <2>1, Subsizes
  <2> QED
    BY <2>1, <2>2
<1>q. num = a + b + c
  BY <1>p DEF Filled
<1>1. Counts(A, a) /\ A \subseteq Entries(inode.direct_blocks)
  <2>1. \A i \in 0..(a - 1) : i \in Direct
    BY <1>p, Parts, SizesAssumption DEF Direct
  <2>2. DOMAIN inode.direct_blocks = Direct
    BY DEF InodeType
  <2>3. \A i \in 0..(a - 1) : inode.direct_blocks[i] # 0
    BY <1>p DEF Filled, Filled0
  <2>4. Once(inode.direct_blocks)
    BY DEF Proper
  <2>5. \A i, j \in 0..(a - 1) : inode.direct_blocks[i] = inode.direct_blocks[j] => i = j
    BY <2>1, <2>2, <2>3, <2>4 DEF Once
  <2>6. A = {inode.direct_blocks[i] : i \in 0..(a - 1)}
    BY <1>p
  <2>7. Counts({inode.direct_blocks[i] : i \in 0..(a - 1)}, a)
    BY <2>5, CountsValues
  <2>8. A \subseteq Entries(inode.direct_blocks)
    <3> HIDE DEF A
    <3> QED
      BY <2>1, <2>2, <2>3, <2>6 DEF Entries
  <2> QED
    BY <2>6, <2>7, <2>8
<1>2. /\ Counts(B, IF b = 0 THEN 0 ELSE b + 1)
      /\ B \subseteq Tree1(d, inode.indirect_block)
  <2>1. CASE b = 0
    BY <2>1, <1>p, FS_EmptySet DEF Counts
  <2>2. CASE b # 0
    <3>1. inode.indirect_block \in Sectors /\ Proper1(d, inode.indirect_block)
      BY DEF InodeType, Proper
    <3>2. Filled1(d, inode.indirect_block, b)
      BY <2>2, <1>p DEF Filled
    <3>3. b <= INDIRECT_BLOCKS_PER_SECTOR
      BY <1>p, Parts, SizesAssumption
    <3>4. B = IndirectBlocks(d, inode.indirect_block, b)
      BY <2>2, <1>p
    <3> HIDE DEF B
    <3>5. /\ Counts(IndirectBlocks(d, inode.indirect_block, b), b + 1)
          /\ IndirectBlocks(d, inode.indirect_block, b) \subseteq Tree1(d, inode.indirect_block)
      BY <3>1, <3>2, <3>3, CountsIndirect, IndirectInTree
    <3> QED
      BY <3>4, <3>5, <2>2
  <2> QED
    BY <2>1, <2>2
<1>3. /\ Counts(C, IF c = 0 THEN 0 ELSE c + l + 1)
      /\ C \subseteq Tree2(d, inode.doubly_indirect_block)
  <2>1. CASE c = 0
    BY <2>1, <1>p, FS_EmptySet DEF Counts
  <2>2. CASE c # 0
    <3>1. inode.doubly_indirect_block \in Sectors /\ Proper2(d, inode.doubly_indirect_block)
      BY DEF InodeType, Proper
    <3>2. Filled2(d, inode.doubly_indirect_block, c)
      BY <2>2, <1>p DEF Filled
    <3>3. c <= INDIRECT_BLOCKS_PER_SECTOR * INDIRECT_BLOCKS_PER_SECTOR
      BY <1>p, Parts
    <3>4. C = DoublyBlocks(d, inode.doubly_indirect_block, c)
      BY <2>2, <1>p
    <3>5. l = DivRoundUp(c, INDIRECT_BLOCKS_PER_SECTOR)
      BY <1>p
    <3> HIDE DEF C
    <3>6. /\ Counts(DoublyBlocks(d, inode.doubly_indirect_block, c), c + DivRoundUp(c, INDIRECT_BLOCKS_PER_SECTOR) + 1)
          /\ DoublyBlocks(d, inode.doubly_indirect_block, c) \subseteq Tree2(d, inode.doubly_indirect_block)
      BY <3>1, <3>2, <3>3, CountsDoubly, DoublyInTree
    <3> QED
      BY <3>4, <3>5, <3>6, <2>2
  <2> QED
    BY <2>1, <2>2
<1>4. Covered(d, inode, num) = (A \cup B) \cup C
  BY DEF Covered
<1> HIDE DEF A, B, C
<1>5. A \cap B = {} /\ (A \cup B) \cap C = {}
  BY <1>1, <1>2, <1>3 DEF Proper
<1>6. s \notin (A \cup B) \cup C
  BY <1>1, <1>2, <1>3 DEF Tree
<1>7. PICK y \in Nat, z \in Nat : y = (IF b = 0 THEN 0 ELSE b + 1) /\ z = (IF c = 0 THEN 0 ELSE c + l + 1)
  OBVIOUS
<1>8. Counts(A \cup B, a + y)
  BY <1>1, <1>2, <1>5, <1>7, CountsTogether
<1>9. Counts((A \cup B) \cup C, a + y + z)
  <2>1. a + y \in Nat
    OBVIOUS
  <2> QED
    BY <2>1, <1>3, <1>5, <1>7, <1>8, CountsTogether
<1>10. Counts({s} \cup ((A \cup B) \cup C), a + y + z + 1)
  <2>1. a + y + z \in Nat
    OBVIOUS
  <2> QED
    BY <2>1, <1>6, <1>9, CountsOneMore
<1>11. PointerCount(num) = (IF b > 0 THEN 1 ELSE 0) + (IF c > 0 THEN 1 + l ELSE 0)
  BY <1>p DEF PointerCount
<1>12. a + y + z + 1 = 1 + (a + b + c) + ((IF b > 0 THEN 1 ELSE 0) + (IF c > 0 THEN 1 + l ELSE 0))
  BY <1>7
<1> QED
  BY <1>4, <1>10, <1>11, <1>12, <1>q

\* The files own different sectors, and each as many as it needs.
LEMMA IInvApart == IInv => NoSharedSector
<1> SUFFICES ASSUME IInv, MapInodeIntact, NEW f \in Files
             PROVE  /\ Owned(f) \cap System = {}
                    /\ Cardinality({dir[f]} \cup inode_deallocate(disk, InodeOf(f)))
                         = 1 + InodeOf(f).length + PointerCount(InodeOf(f).length)
                    /\ \A g \in Files \ {f} : Owned(f) \cap Owned(g) = {}
  BY DEF NoSharedSector
<1>1. Typed /\ Sound
  BY DEF IInv
<1>2. \A g \in Files : Owned(g) \subseteq All(g)
  BY <1>1, OwnedInAll
<1>3. All(f) \cap System = {}
  BY <1>1 DEF Sound, FileOK, Stores, All
<1>4. \A g \in Files \ {f} : All(f) \cap All(g) = {}
  BY <1>1 DEF Sound
<1>5. PICK d, s, inode, data : d = disk /\ s = dir[f] /\ inode = InodeOf(f) /\ data = DataAt(f)
  OBVIOUS
<1>6. d \in [Sectors -> SectorType] /\ inode \in InodeType /\ data \in InodeType
  BY <1>1, <1>5, FileTypes DEF Typed
<1>7. Stores(free_map, d, s, inode, data)
  BY <1>1, <1>5 DEF Sound, FileOK
<1>8. Stores(free_map, d, s, inode, inode) /\ inode_deallocate(d, inode) = Covered(d, inode, inode.length)
  BY <1>6, <1>7, StoresClosed, Deallocated
<1>9. inode.length \in Nat
  BY <1>6 DEF InodeType
<1>10. Filled(d, inode, inode.length) /\ Proper(d, inode) /\ s \notin Tree(d, inode)
  BY <1>8 DEF Stores
<1>11. Counts({s} \cup Covered(d, inode, inode.length), 1 + inode.length + PointerCount(inode.length))
  BY <1>6, <1>9, <1>10, CountsCovered
<1>12. Cardinality({s} \cup inode_deallocate(d, inode)) = 1 + inode.length + PointerCount(inode.length)
  BY <1>8, <1>11 DEF Counts
<1> QED
  BY <1>2, <1>3, <1>4, <1>5, <1>12

\* No sector is part of two files, twice part of one, or part of a file and of
\* the file system, after any calls, failed or not, on any disk, as long as no
\* full disk has put zeros into the free map's inode.
THEOREM SectorsApart == Spec => []NoSharedSector
<1> QED
  BY IInvApart, Invariance, PTL

-----------------------------------------------------------------------------
(* The two ways to the sectors of a file.                                  *)

\* One list after the other.
Joins(S, n, m, s, t, u) ==
    /\ u \in [1..(n + m) -> S]
    /\ \A i \in 1..n : u[i] = s[i]
    /\ \A i \in 1..m : u[n + i] = t[i]

\* That is what \o makes of two lists.
LEMMA Joined ==
    ASSUME NEW S, NEW n \in Nat, NEW m \in Nat, NEW s \in [1..n -> S], NEW t \in [1..m -> S]
    PROVE  Joins(S, n, m, s, t, s \o t)
<1>1. s \in Seq(S) /\ t \in Seq(S)
  BY SeqDef
<1>2. Len(s) = n /\ Len(t) = m
  <2>1. /\ Len(s) \in Nat /\ DOMAIN s = 1..Len(s)
        /\ Len(t) \in Nat /\ DOMAIN t = 1..Len(t)
    BY <1>1, LenProperties
  <2>2. DOMAIN s = 1..n /\ DOMAIN t = 1..m
    OBVIOUS
  <2>3. PICK a \in Nat, b \in Nat : a = Len(s) /\ b = Len(t)
    BY <2>1
  <2>4. 1..a = 1..n /\ 1..b = 1..m
    BY <2>1, <2>2, <2>3
  <2>5. \A x \in Nat, y \in Nat : 1..x = 1..y => x = y
    <3>1. SUFFICES ASSUME NEW x \in Nat, NEW y \in Nat, 1..x = 1..y PROVE x = y
      OBVIOUS
    <3>2. x > 0 => x \in 1..y
      BY <3>1
    <3>3. y > 0 => y \in 1..x
      BY <3>1
    <3> QED
      BY <3>2, <3>3
  <2> QED
    BY <2>3, <2>4, <2>5
<1>3. /\ s \o t \in Seq(S)
      /\ Len(s \o t) = n + m
      /\ \A i \in 1..(n + m) : (s \o t)[i] = IF i <= n THEN s[i] ELSE t[i - n]
  BY <1>1, <1>2, ConcatProperties
<1>4. s \o t \in [1..(n + m) -> S]
  BY <1>3, LenProperties
<1>5. PICK u : u = s \o t
  OBVIOUS
<1>6. \A i \in 1..(n + m) : u[i] = IF i <= n THEN s[i] ELSE t[i - n]
  BY <1>3, <1>5
<1>7. \A i \in 1..n : u[i] = s[i]
  <2>1. \A i \in 1..n : i \in 1..(n + m) /\ i <= n
    OBVIOUS
  <2> QED
    BY <2>1, <1>6
<1>8. \A i \in 1..m : u[n + i] = t[i]
  <2>1. \A i \in 1..m : n + i \in 1..(n + m) /\ ~(n + i <= n) /\ (n + i) - n = i
    OBVIOUS
  <2> QED
    BY <2>1, <1>6
<1> QED
  BY <1>4, <1>5, <1>7, <1>8 DEF Joins

\* The pointer block and the pointer of a sector.
LEMMA Place ==
    ASSUME NEW k \in Nat, k > 0, NEW q \in Nat, NEW r \in 0..(k - 1)
    PROVE  (q * k + r) \div k = q /\ (q * k + r) % k = r
<1>1. PICK i \in Nat : i = q * k + r /\ q * k \in Nat
  <2>1. q * k \in Nat
    BY Times
  <2> QED
    BY <2>1
<1>2. PICK a \in Nat, b \in 0..(k - 1) : a = i \div k /\ b = i % k /\ i = k * a + b
  <2>1. i \div k \in Nat /\ i % k \in 0..(k - 1) /\ i = k * (i \div k) + (i % k)
    OBVIOUS
  <2> QED
    BY <2>1
<1>3. k * a = a * k /\ a * k \in Nat
  BY Times
<1>4. a * k + b = q * k + r
  BY <1>1, <1>2, <1>3
<1>5. a = q
  <2>1. ~(a < q)
    <3>1. a < q => a * k + k <= q * k
      BY Times
    <3> QED
      BY <3>1, <1>1, <1>3, <1>4
  <2>2. ~(q < a)
    <3>1. q < a => q * k + k <= a * k
      BY Times
    <3> QED
      BY <3>1, <1>1, <1>3, <1>4
  <2> QED
    BY <2>1, <2>2
<1>6. b = r
  BY <1>1, <1>4, <1>5
<1> QED
  BY <1>1, <1>2, <1>5, <1>6

\* The list of a pointer block.
LEMMA BlockListType ==
    ASSUME disk \in [Sectors -> SectorType], NEW p \in Sectors,
           NEW num \in Nat, num <= INDIRECT_BLOCKS_PER_SECTOR
    PROVE  /\ BlockList(p, num) \in [1..num -> Sectors]
           /\ \A i \in 1..num : BlockList(p, num)[i] = disk[p].blocks[i - 1]
<1>1. \A i \in 1..num : i - 1 \in Pointers
  BY SizesAssumption DEF Pointers
<1>2. \A i \in Pointers : disk[p].blocks[i] \in Sectors
  BY DEF SectorType
<1> QED
  BY <1>1, <1>2 DEF BlockList

\* The sector at a place of a level 2 block.
At(p, j) == disk[disk[p].blocks[j \div INDIRECT_BLOCKS_PER_SECTOR]].blocks[j % INDIRECT_BLOCKS_PER_SECTOR]

\* The steps of the loop of get_inode_data_sectors over a level 2 block.
ListTurns(list, p, num, last) ==
    /\ list[0] = <<>>
    /\ \A n \in 1..last : list[n] = list[n - 1] \o BlockList(disk[p].blocks[n - 1], Subsize(num, n - 1))

\* There are such steps, and the list is what the last one leaves.
LEMMA DoublyListTurns ==
    ASSUME disk \in [Sectors -> SectorType], NEW p \in Sectors, NEW num \in Nat,
           num <= INDIRECT_BLOCKS_PER_SECTOR * INDIRECT_BLOCKS_PER_SECTOR,
           NEW last \in Nat, last = DivRoundUp(num, INDIRECT_BLOCKS_PER_SECTOR)
    PROVE  \E list : ListTurns(list, p, num, last) /\ DoublyList(p, num) = list[last]
<1> DEFINE S == Seq(Sectors)
           B(n) == BlockList(disk[p].blocks[n - 1], Subsize(num, n - 1))
           G(h) == [n \in 0..last |-> IF n = 0 THEN <<>> ELSE h[n - 1] \o BlockList(disk[p].blocks[n - 1], Subsize(num, n - 1))]
           all == CHOOSE h : h = G(h)
           g == [n \in 1..last |-> [s \in S |-> s \o B(n)]]
<1>1. <<>> \in S
  BY EmptySeq
<1>2. \A s \in S, n \in 1..last : s \o B(n) \in S
  <2>1. last <= INDIRECT_BLOCKS_PER_SECTOR /\ \A i \in 0..(last - 1) : Subsize(num, i) \in 1..INDIRECT_BLOCKS_PER_SECTOR
    BY Subsizes
  <2>2. \A n \in 1..last : n - 1 \in 0..(last - 1) /\ n - 1 \in Pointers
    BY <2>1, SizesAssumption DEF Pointers
  <2>3. \A i \in Pointers : disk[p].blocks[i] \in Sectors
    BY DEF SectorType
  <2>4. ASSUME NEW n \in 1..last PROVE B(n) \in S
    <3>1. Subsize(num, n - 1) \in Nat /\ Subsize(num, n - 1) <= INDIRECT_BLOCKS_PER_SECTOR
      BY <2>1, <2>2, SizesAssumption
    <3>2. B(n) \in [1..Subsize(num, n - 1) -> Sectors]
      BY <3>1, <2>2, <2>3, BlockListType
    <3> QED
      BY <3>1, <3>2, SeqDef
  <2> HIDE DEF B, S
  <2>5. \A s \in S, t \in S : s \o t \in S
    BY ConcatProperties DEF S
  <2> QED
    BY <2>4, <2>5
<1>b. \A n : B(n) = BlockList(disk[p].blocks[n - 1], Subsize(num, n - 1))
  OBVIOUS
<1> HIDE DEF S, B
<1>3. g \in [1..last -> [S -> S]]
  BY <1>2
<1>4. \A n \in 1..last, s \in S : g[n][s] = s \o B(n)
  OBVIOUS
<1> HIDE DEF g
<1>5. PICK h \in [0..last -> S] : Iterates(h, last, <<>>, g)
  BY <1>1, <1>3, Iteration
<1>6. h[0] = <<>> /\ \A n \in 1..last : h[n] = h[n - 1] \o B(n)
  <2>1. h[0] = <<>> /\ \A n \in 1..last : h[n] = g[n][h[n - 1]]
    BY <1>5 DEF Iterates
  <2>2. \A n \in 1..last : h[n - 1] \in S
    BY <1>5
  <2>3. ASSUME NEW n \in 1..last  PROVE h[n] = h[n - 1] \o B(n)
    <3>1. PICK s \in S : s = h[n - 1]
      BY <2>2
    <3>2. g[n][s] = s \o B(n)
      BY <1>4
    <3> QED
      BY <2>1, <3>1, <3>2
  <2> QED
    BY <2>1, <2>3
<1>7. h = G(h)
  <2>1. \A n \in 0..last : n = 0 \/ n \in 1..last
    OBVIOUS
  <2>2. h = [n \in 0..last |-> IF n = 0 THEN <<>> ELSE h[n - 1] \o B(n)]
    BY <1>5, <1>6, <2>1
  <2> QED
    BY <2>2, <1>b
<1>8. all = G(all)
  <2> HIDE DEF G
  <2> QED
    BY <1>7, ZenonT(60)
<1>9. DoublyList(p, num) = all[last]
  BY ZenonT(60) DEF DoublyList
<1> HIDE DEF all
<1>10. all[0] = <<>> /\ \A n \in 1..last : all[n] = all[n - 1] \o BlockList(disk[p].blocks[n - 1], Subsize(num, n - 1))
  <2>1. \A n \in 1..last : n \in 0..last /\ n # 0
    OBVIOUS
  <2>2. 0 \in 0..last
    OBVIOUS
  <2> QED
    BY <1>8, <2>1, <2>2
<1> QED
  BY <1>9, <1>10 DEF ListTurns

\* The list of a level 2 block has the sector of each place.
LEMMA DoublyListIs ==
    ASSUME disk \in [Sectors -> SectorType], NEW p \in Sectors, NEW num \in Nat,
           num <= INDIRECT_BLOCKS_PER_SECTOR * INDIRECT_BLOCKS_PER_SECTOR
    PROVE  /\ DoublyList(p, num) \in [1..num -> Sectors]
           /\ \A i \in 1..num : DoublyList(p, num)[i] = At(p, i - 1)
<1> DEFINE K == INDIRECT_BLOCKS_PER_SECTOR
           B == disk[p].blocks
<1>1. PICK last \in Nat : last = DivRoundUp(num, K)
  BY Subsizes
<1>2. PICK list : ListTurns(list, p, num, last) /\ DoublyList(p, num) = list[last]
  BY <1>1, DoublyListTurns
<1> DEFINE size(m) == Smaller(num, m * K)
           T == {m \in 0..last : /\ list[m] \in [1..size(m) -> Sectors]
                                 /\ \A i \in 1..size(m) : list[m][i] = At(p, i - 1)}
<1>3. 0 \in T
  <2>1. size(0) = 0
    BY SubsizesAll
  <2>2. list[0] = <<>>
    BY <1>2 DEF ListTurns
  <2>3. <<>> \in [1..0 -> Sectors]
    BY EmptySeq, LenProperties
  <2>4. \A i \in 1..0 : FALSE
    OBVIOUS
  <2>5. 0 \in 0..last
    BY <1>1
  <2> HIDE DEF size
  <2>6. list[0] \in [1..size(0) -> Sectors] /\ \A i \in 1..size(0) : list[0][i] = At(p, i - 1)
    BY <2>1, <2>2, <2>3, <2>4
  <2> QED
    BY <2>5, <2>6
<1>4. ASSUME NEW n \in 1..last, n - 1 \in T PROVE n \in T
  <2>1. PICK m \in Nat : m = n - 1 /\ m + 1 = n /\ m \in 0..(last - 1) /\ m + 1 <= last
    BY <1>1
  <2>2. PICK a \in Nat, b \in Nat :
          /\ a = size(m) /\ b = Subsize(num, m) /\ a + b = size(m + 1)
          /\ a = m * K /\ b <= K
    <3>1. /\ m * K \in Nat /\ size(m) = m * K /\ Subsize(num, m) \in 1..K
          /\ size(m) + Subsize(num, m) = size(m + 1)
      BY <2>1, <1>1, SubsizesAdd
    <3>2. Subsize(num, m) \in Nat /\ Subsize(num, m) <= K
      BY <3>1, SizesAssumption
    <3> HIDE DEF size, K
    <3> QED
      BY <3>1, <3>2
  <2>3. list[m] \in [1..a -> Sectors] /\ \A i \in 1..a : list[m][i] = At(p, i - 1)
    <3>1. list[m] \in [1..size(m) -> Sectors] /\ \A i \in 1..size(m) : list[m][i] = At(p, i - 1)
      BY <1>4, <2>1
    <3> HIDE DEF size, T
    <3> QED
      BY <3>1, <2>2
  <2>4. list[n] = list[m] \o BlockList(B[m], b)
    BY <1>2, <2>1, <2>2 DEF ListTurns
  <2>5. m \in Pointers /\ B[m] \in Sectors
    <3>1. last <= K
      BY <1>1, Subsizes
    <3>2. m \in Pointers
      BY <3>1, <2>1, <1>1, SizesAssumption DEF Pointers
    <3>3. \A i \in Pointers : B[i] \in Sectors
      BY DEF SectorType
    <3> QED
      BY <3>2, <3>3
  <2>6. BlockList(B[m], b) \in [1..b -> Sectors] /\ \A i \in 1..b : BlockList(B[m], b)[i] = disk[B[m]].blocks[i - 1]
    <3> HIDE DEF B, T, size
    <3> QED
      BY <2>2, <2>5, BlockListType
  <2>7. PICK s, t, u : s = list[m] /\ t = BlockList(B[m], b) /\ u = list[n]
    OBVIOUS
  <2>8. /\ u \in [1..(a + b) -> Sectors]
        /\ \A i \in 1..a : u[i] = s[i]
        /\ \A i \in 1..b : u[a + i] = t[i]
    <3>1. s \in [1..a -> Sectors] /\ t \in [1..b -> Sectors] /\ u = s \o t
      BY <2>3, <2>4, <2>6, <2>7
    <3> HIDE DEF B, T, size
    <3>2. Joins(Sectors, a, b, s, t, s \o t)
      BY <3>1, Joined, Zenon
    <3> QED
      BY <3>1, <3>2 DEF Joins
  <2>9. ASSUME NEW i \in 1..b PROVE u[a + i] = At(p, (a + i) - 1)
    <3>1. i - 1 \in 0..(K - 1) /\ K \in Nat /\ K > 0 /\ (a + i) - 1 = a + (i - 1)
      BY <2>2, SizesAssumption
    <3>2. (m * K + (i - 1)) \div K = m /\ (m * K + (i - 1)) % K = i - 1
      BY <3>1, Place
    <3>3. ((a + i) - 1) \div K = m /\ ((a + i) - 1) % K = i - 1
      BY <3>1, <3>2, <2>2
    <3>4. At(p, (a + i) - 1) = disk[B[m]].blocks[i - 1]
      BY <3>3 DEF At
    <3> QED
      BY <3>4, <2>6, <2>7, <2>8
  <2>10. ASSUME NEW i \in 1..(a + b) PROVE u[i] = At(p, i - 1)
    <3>1. CASE i <= a
      <4>1. i \in 1..a
        BY <3>1, <2>2
      <4> QED
        BY <4>1, <2>3, <2>7, <2>8
    <3>2. CASE ~(i <= a)
      <4>1. PICK j \in 1..b : i = a + j
        <5>1. i - a \in 1..b /\ i = a + (i - a)
          BY <3>2, <2>2
        <5> QED
          BY <5>1
      <4> QED
        BY <4>1, <2>9
    <3> QED
      BY <3>1, <3>2
  <2>11. list[n] \in [1..size(n) -> Sectors] /\ \A i \in 1..size(n) : list[n][i] = At(p, i - 1)
    <3> HIDE DEF size, T
    <3> QED
      BY <2>1, <2>2, <2>7, <2>8, <2>10
  <2> QED
    BY <2>11
<1>5. last \in T
  <2> HIDE DEF T
  <2>1. 0..last \subseteq T
    BY <1>3, <1>4, Climb
  <2> QED
    BY <2>1
<1>6. size(last) = num
  BY <1>1, SubsizesAll
<1>7. list[last] \in [1..size(last) -> Sectors] /\ \A i \in 1..size(last) : list[last][i] = At(p, i - 1)
  BY <1>5
<1> HIDE DEF size, T
<1> QED
  BY <1>2, <1>6, <1>7

\* The list of a file and the sectors index_to_sector finds.
LEMMA ListsAgree ==
    ASSUME disk \in [Sectors -> SectorType], NEW inode \in InodeType,
           inode.length = InDirect(inode.length) + InIndirect(inode.length) + InDoubly(inode.length)
    PROVE  get_inode_data_sectors(inode) = [i \in 1..inode.length |-> index_to_sector(inode, i - 1)]
<1> DEFINE D == DIRECT_BLOCKS_COUNT
           K == INDIRECT_BLOCKS_PER_SECTOR
<1>1. PICK num \in Nat : num = inode.length
  BY DEF InodeType
<1>2. PICK a \in Nat, b \in Nat, c \in Nat :
         /\ a = InDirect(num) /\ b = InIndirect(num) /\ c = InDoubly(num) /\ num = a + b + c
         /\ a <= D /\ b <= K /\ c <= K * K
         /\ b # 0 => a = D
         /\ c # 0 => b = K
  <2>1. /\ InDirect(num) \in Nat /\ InIndirect(num) \in Nat /\ InDoubly(num) \in Nat
        /\ InDirect(num) <= D /\ InIndirect(num) <= K /\ InDoubly(num) <= K * K
        /\ InIndirect(num) # 0 => InDirect(num) = D
        /\ InDoubly(num) # 0 => InIndirect(num) = K
    BY Parts, SizesAssumption
  <2>2. num = InDirect(num) + InIndirect(num) + InDoubly(num)
    BY <1>1
  <2> QED
    BY <2>1, <2>2
<1>3. /\ D \in Nat /\ K \in Nat /\ D > 0 /\ K > 0
  BY SizesAssumption
<1>4. PICK s : s = [i \in 1..a |-> inode.direct_blocks[i - 1]]
  OBVIOUS
<1>5. PICK t : t = IF b = 0 THEN <<>> ELSE BlockList(inode.indirect_block, b)
  OBVIOUS
<1>6. PICK u : u = IF c = 0 THEN <<>> ELSE DoublyList(inode.doubly_indirect_block, c)
  OBVIOUS
<1>7. get_inode_data_sectors(inode) = (s \o t) \o u
  BY <1>1, <1>2, <1>4, <1>5, <1>6 DEF get_inode_data_sectors
<1>8. s \in [1..a -> Sectors] /\ \A i \in 1..a : s[i] = inode.direct_blocks[i - 1]
  <2>1. \A i \in 1..a : i - 1 \in Direct
    BY <1>2, <1>3 DEF Direct
  <2>2. \A i \in Direct : inode.direct_blocks[i] \in Sectors
    BY DEF InodeType
  <2> QED
    BY <2>1, <2>2, <1>4
<1>e. <<>> \in [1..0 -> Sectors]
  BY EmptySeq, LenProperties
<1>9. t \in [1..b -> Sectors] /\ \A i \in 1..b : t[i] = disk[inode.indirect_block].blocks[i - 1]
  <2>1. CASE b = 0
    BY <2>1, <1>5, <1>e
  <2>2. CASE b # 0
    <3>1. inode.indirect_block \in Sectors
      BY DEF InodeType
    <3> QED
      BY <3>1, <2>2, <1>2, <1>5, BlockListType
  <2> QED
    BY <2>1, <2>2
<1>10. u \in [1..c -> Sectors] /\ \A i \in 1..c : u[i] = At(inode.doubly_indirect_block, i - 1)
  <2>1. CASE c = 0
    BY <2>1, <1>6, <1>e
  <2>2. CASE c # 0
    <3>1. inode.doubly_indirect_block \in Sectors
      BY DEF InodeType
    <3> QED
      BY <3>1, <2>2, <1>2, <1>6, DoublyListIs
  <2> QED
    BY <2>1, <2>2
<1>11. PICK v : v = s \o t
  OBVIOUS
<1>12. /\ v \in [1..(a + b) -> Sectors]
       /\ \A i \in 1..a : v[i] = s[i]
       /\ \A i \in 1..b : v[a + i] = t[i]
  <2>1. Joins(Sectors, a, b, s, t, s \o t)
    BY <1>8, <1>9, Joined, Zenon
  <2> QED
    BY <2>1, <1>11 DEF Joins
<1>13. PICK w : w = v \o u
  OBVIOUS
<1>14. PICK ab \in Nat : ab = a + b
  OBVIOUS
<1>15. /\ w \in [1..(ab + c) -> Sectors]
       /\ \A i \in 1..ab : w[i] = v[i]
       /\ \A i \in 1..c : w[ab + i] = u[i]
  <2>1. v \in [1..ab -> Sectors]
    BY <1>12, <1>14
  <2>2. Joins(Sectors, ab, c, v, u, v \o u)
    BY <2>1, <1>10, Joined, Zenon
  <2> QED
    BY <2>2, <1>13 DEF Joins
<1>16. /\ w \in [1..num -> Sectors]
       /\ \A i \in 1..a : w[i] = inode.direct_blocks[i - 1]
       /\ \A i \in 1..b : w[a + i] = disk[inode.indirect_block].blocks[i - 1]
       /\ \A i \in 1..c : w[a + b + i] = At(inode.doubly_indirect_block, i - 1)
  <2>1. \A i \in 1..a : i \in 1..ab
    BY <1>14
  <2>2. \A i \in 1..b : a + i \in 1..ab
    BY <1>14
  <2>3. w \in [1..num -> Sectors]
    BY <1>2, <1>14, <1>15
  <2>4. \A i \in 1..a : w[i] = inode.direct_blocks[i - 1]
    BY <2>1, <1>8, <1>12, <1>15
  <2>5. \A i \in 1..b : w[a + i] = disk[inode.indirect_block].blocks[i - 1]
    BY <2>2, <1>9, <1>12, <1>15
  <2>6. \A i \in 1..c : w[a + b + i] = At(inode.doubly_indirect_block, i - 1)
    BY <1>10, <1>14, <1>15
  <2> QED
    BY <2>3, <2>4, <2>5, <2>6
<1>17. ASSUME NEW i \in 1..num PROVE w[i] = index_to_sector(inode, i - 1)
  <2>1. CASE i <= a
    <3>1. i \in 1..a /\ i - 1 < D
      BY <2>1, <1>2, <1>3
    <3>2. ~(i - 1 - D >= 0) /\ ~(i - 1 - D - K >= 0)
      BY <3>1, <1>3
    <3>3. index_to_sector(inode, i - 1) = inode.direct_blocks[i - 1]
      BY <3>1, <3>2 DEF index_to_sector
    <3> QED
      BY <3>1, <3>3, <1>16
  <2>2. CASE ~(i <= a) /\ i <= a + b
    <3>1. PICK j \in 1..b : i = a + j /\ j = i - a
      <4>1. i - a \in 1..b /\ i = a + (i - a)
        BY <2>2, <1>2
      <4> QED
        BY <4>1
    <3>2. /\ ~(i - 1 < D) /\ i - 1 - D >= 0 /\ i - 1 - D - K < 0 /\ ~(i - 1 - D - K >= 0)
          /\ i - 1 - D = j - 1
      BY <3>1, <1>2, <1>3
    <3>3. index_to_sector(inode, i - 1) = disk[inode.indirect_block].blocks[i - 1 - D]
      BY <3>2 DEF index_to_sector
    <3> QED
      BY <3>1, <3>2, <3>3, <1>16
  <2>3. CASE ~(i <= a + b)
    <3>1. PICK j \in 1..c : i = a + b + j
      <4>1. i - (a + b) \in 1..c /\ i = a + b + (i - (a + b))
        BY <2>3, <1>2
      <4> QED
        BY <4>1
    <3>2. /\ ~(i - 1 < D) /\ i - 1 - D >= 0 /\ ~(i - 1 - D - K < 0) /\ i - 1 - D - K >= 0
          /\ i - 1 - D - K = j - 1
      BY <3>1, <1>2, <1>3
    <3>3. i - 1 - D - K \in 0..(K * K - 1)
      <4>1. K * K \in Nat
        BY <1>3
      <4> QED
        BY <4>1, <3>2, <1>2
    <3>4. index_to_sector(inode, i - 1) = At(inode.doubly_indirect_block, i - 1 - D - K)
      BY <3>2, <3>3 DEF index_to_sector, At
    <3> QED
      BY <3>1, <3>2, <3>4, <1>16
  <2> QED
    BY <2>1, <2>2, <2>3
<1>18. w = [i \in 1..num |-> index_to_sector(inode, i - 1)]
  BY <1>16, <1>17
<1> QED
  BY <1>1, <1>7, <1>11, <1>13, <1>18

\* The inode of a file covers its length, so the two ways agree.
LEMMA IInvLists == IInv => SectorListsAgree
<1> SUFFICES ASSUME IInv, MapInodeIntact, NEW f \in Files
             PROVE  get_inode_data_sectors(InodeOf(f))
                      = [i \in 1..InodeOf(f).length |-> index_to_sector(InodeOf(f), i - 1)]
  BY DEF SectorListsAgree
<1>1. Typed /\ Sound
  BY DEF IInv
<1>2. disk \in [Sectors -> SectorType] /\ InodeOf(f) \in InodeType
  BY <1>1, FileTypes DEF Typed
<1>3. PICK inode : inode = InodeOf(f)
  OBVIOUS
<1>4. Filled(disk, inode, inode.length)
  BY <1>1, <1>3 DEF Sound, FileOK, Stores
<1>5. inode.length = InDirect(inode.length) + InIndirect(inode.length) + InDoubly(inode.length)
  BY <1>4 DEF Filled
<1>6. get_inode_data_sectors(inode) = [i \in 1..inode.length |-> index_to_sector(inode, i - 1)]
  BY <1>2, <1>3, <1>5, ListsAgree
<1> QED
  BY <1>3, <1>6

\* get_inode_data_sectors lists, for a file of any length the pointers can
\* reach, the sectors index_to_sector finds one by one.
THEOREM ListsAgreeAlways == Spec => []SectorListsAgree
<1> QED
  BY IInvLists, Invariance, PTL
=============================================================================
