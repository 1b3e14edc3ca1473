------------------------- MODULE FsExtensionsProofs --------------------------
(***************************************************************************)
(* Proofs about FsExtensions: the commands of fsutil2.c keep InodeAlloc's  *)
(* invariant, struct inodes stay right, and defragment gets every file     *)
(* back, for every size.                                                   *)
(***************************************************************************)
EXTENDS FsExtensions, InodeAllocProofs

-----------------------------------------------------------------------------
(* Struct inodes that are only read in or freed.                           *)

\* Freeing the struct inodes of some sectors.
LEMMA Dropping ==
    ASSUME NEW fn, NEW keys
    PROVE  /\ DOMAIN Drop(fn, keys) = DOMAIN fn \ keys
           /\ \A s \in DOMAIN fn \ keys : Drop(fn, keys)[s] = fn[s]
           /\ Drop(fn, keys) = [s \in DOMAIN fn \ keys |-> fn[s]]
  BY DEF Drop, Restrict

\* A command that only opens and closes files.
LEMMA Reopens ==
    ASSUME IInv, UNCHANGED <<free_map, map_file, disk, dir, failed>>,
           NEW D, D \subseteq DOMAIN open_inodes \cup SectorsOf(Files),
           open_inodes' = [s \in D |-> DataOf(s)],
           file_table' \subseteq Files,
           \A g \in file_table \ file_table' : dir[g] \notin D
    PROVE  IInv' /\ Files' = Files /\ (MapInodeIntact' <=> MapInodeIntact)
<1>1. /\ free_map' = free_map /\ map_file' = map_file /\ disk' = disk /\ dir' = dir
      /\ failed' = failed
  OBVIOUS
<1>2. DOMAIN open_inodes' = D
  OBVIOUS
<1>3. DOMAIN open_inodes' \subseteq DOMAIN open_inodes \cup {dir[g] : g \in Files}
  BY <1>2 DEF SectorsOf
<1>4. open_inodes' = [s \in DOMAIN open_inodes' |-> DataOf(s)]
  BY <1>2
<1>5. \A g \in file_table \ file_table' : dir[g] \notin DOMAIN open_inodes'
  BY <1>2
<1>6. IInv'
  BY <1>1, <1>3, <1>4, <1>5, Reopened
<1> QED
  BY <1>1, <1>6 DEF Files, MapInodeIntact

\* filesys_open, or dir_open_root and filesys_open for all files.
LEMMA OpensIInv ==
    ASSUME IInv, UNCHANGED <<free_map, map_file, disk, dir, failed>>,
           NEW files, files \subseteq Files,
           open_inodes' = Opened(SectorsOf(files)),
           file_table \subseteq file_table', file_table' \subseteq Files
    PROVE  /\ IInv' /\ Files' = Files /\ (MapInodeIntact' <=> MapInodeIntact)
           /\ DOMAIN open_inodes' = DOMAIN open_inodes \cup SectorsOf(files)
<1> DEFINE D == DOMAIN open_inodes \cup SectorsOf(files)
<1>1. open_inodes' = [s \in D |-> DataOf(s)]
  BY DEF Opened
<1>2. D \subseteq DOMAIN open_inodes \cup SectorsOf(Files)
  BY DEF SectorsOf
<1>3. \A g \in file_table \ file_table' : dir[g] \notin D
  OBVIOUS
<1>4. DOMAIN open_inodes' = D
  BY <1>1
<1> HIDE DEF D
<1>5. IInv' /\ Files' = Files /\ (MapInodeIntact' <=> MapInodeIntact)
  BY <1>1, <1>2, <1>3, Reopens
<1> QED
  BY <1>4, <1>5 DEF D

\* file_close, whoever else uses the struct inode.
LEMMA ClosesIInv ==
    ASSUME IInv, UNCHANGED <<free_map, map_file, disk, dir, failed, file_table>>,
           NEW keys, open_inodes' = Drop(open_inodes, keys)
    PROVE  /\ IInv' /\ Files' = Files /\ (MapInodeIntact' <=> MapInodeIntact)
           /\ DOMAIN open_inodes' = DOMAIN open_inodes \ keys
<1> DEFINE D == DOMAIN open_inodes \ keys
<1>1. open_inodes' = [s \in D |-> DataOf(s)] /\ DOMAIN open_inodes' = D
  BY Dropped
<1>2. file_table' \subseteq Files /\ \A g \in file_table \ file_table' : dir[g] \notin D
  BY DEF IInv, Typed
<1>3. D \subseteq DOMAIN open_inodes \cup SectorsOf(Files)
  OBVIOUS
<1> HIDE DEF D
<1>4. IInv' /\ Files' = Files /\ (MapInodeIntact' <=> MapInodeIntact)
  BY <1>1, <1>2, <1>3, Reopens
<1> QED
  BY <1>1, <1>4 DEF D

\* recover_2: every file is opened, and some are closed.
LEMMA OpensSomeClosed ==
    ASSUME IInv, UNCHANGED <<free_map, map_file, disk, dir, failed, file_table>>,
           NEW files, files \subseteq Files, NEW keys,
           open_inodes' = Drop(Opened(SectorsOf(files)), keys)
    PROVE  IInv' /\ Files' = Files /\ (MapInodeIntact' <=> MapInodeIntact)
<1> DEFINE O == Opened(SectorsOf(files))
           D == DOMAIN O \ keys
<1>1. DOMAIN O = DOMAIN open_inodes \cup SectorsOf(files) /\ \A s \in DOMAIN O : O[s] = DataOf(s)
  BY DEF Opened
<1>2. D \subseteq DOMAIN open_inodes \cup SectorsOf(Files)
  BY <1>1 DEF SectorsOf
<1> HIDE DEF O
<1>3. open_inodes' = [s \in D |-> O[s]]
  BY Dropping DEF O
<1>4. open_inodes' = [s \in D |-> DataOf(s)]
  BY <1>1, <1>3
<1>5. file_table' \subseteq Files /\ \A g \in file_table \ file_table' : dir[g] \notin D
  BY DEF IInv, Typed
<1> HIDE DEF D
<1> QED
  BY <1>2, <1>4, <1>5, Reopens

-----------------------------------------------------------------------------
(* What copy_in takes for the size of a file.                              *)

\* A text ends within k blocks if it has at most k.
LEMMA Within ==
    ASSUME NEW B \in Nat, B > 0, NEW n \in Nat
    PROVE  /\ DivRoundUp(n, B) \in Nat
           /\ \A k \in Nat : n <= k * B <=> DivRoundUp(n, B) <= k
<1>1. PICK a \in Nat : a = DivRoundUp(n, B) /\ \A i \in Nat : i < a <=> i * B < n
  BY RoundUp
<1>2. ASSUME NEW k \in Nat PROVE n <= k * B <=> a <= k
  <2>1. k * B \in Nat
    BY Times
  <2> QED
    BY <1>1, <2>1
<1> QED
  BY <1>1, <1>2

\* Whole blocks can be taken off before or after rounding up.
LEMMA BlocksOff ==
    ASSUME NEW B \in Nat, B > 0, NEW n \in Nat, NEW k \in Nat, k * B <= n
    PROVE  /\ n - k * B \in Nat
           /\ DivRoundUp(n - k * B, B) = DivRoundUp(n, B) - k
<1>1. PICK p \in Nat : p = k * B
  BY Times
<1>2. PICK m \in Nat : m = n - p
  BY <1>1
<1>3. PICK a \in Nat : a = DivRoundUp(m, B) /\ \A j \in Nat : m <= j * B <=> a <= j
  BY Within
<1>4. PICK b \in Nat : b = DivRoundUp(n, B) /\ \A j \in Nat : n <= j * B <=> b <= j
  BY Within
<1>5. \A j \in Nat : (j + k) * B = j * B + p /\ j * B \in Nat /\ (j + k) * B \in Nat
  <2> TAKE j \in Nat
  <2>1. j * B \in Nat /\ (j + k) * B \in Nat
    BY Times
  <2>2. (j + k) * B = j * B + k * B
    OBVIOUS
  <2> QED
    BY <1>1, <2>1, <2>2
<1>6. \A j \in Nat : a <= j <=> b <= j + k
  <2> TAKE j \in Nat
  <2>1. j + k \in Nat
    OBVIOUS
  <2>2. m <= j * B <=> n <= j * B + p
    <3>1. PICK x \in Nat : x = j * B
      BY <1>5
    <3> QED
      BY <3>1, <1>1, <1>2
  <2> QED
    BY <2>1, <2>2, <1>3, <1>4, <1>5
<1>7. k <= b
  <2>1. CASE b < k
    <3>1. b * B + B <= p
      BY <2>1, <1>1, Times
    <3>2. n <= b * B
      BY <1>4
    <3>3. b * B \in Nat
      BY Times
    <3> QED
      BY <1>1, <3>1, <3>2, <3>3
  <2> QED
    BY <2>1
<1>8. a <= b - k /\ b <= a + k
  <2>1. b - k \in Nat
    BY <1>7
  <2>2. a <= a /\ b <= (b - k) + k
    OBVIOUS
  <2> QED
    BY <1>6, <2>1, <2>2
<1> QED
  BY <1>1, <1>2, <1>3, <1>4, <1>7, <1>8

\* The inode and the pointer blocks of a file of num sectors, in sectors.
Overhead(num) ==
    IF num <= DIRECT_BLOCKS_COUNT THEN 1
    ELSE IF num <= DIRECT_BLOCKS_COUNT + INDIRECT_BLOCKS_PER_SECTOR THEN 2
    ELSE 3 + DivRoundUp(num - (DIRECT_BLOCKS_COUNT + INDIRECT_BLOCKS_PER_SECTOR), INDIRECT_BLOCKS_PER_SECTOR)

\* get_overhead counts in bytes what inode_reserve takes in sectors.
LEMMA OverheadInBlocks ==
    ASSUME NEW size \in Nat
    PROVE  /\ Overhead(DivRoundUp(size, BLOCK_SECTOR_SIZE)) \in Nat
           /\ get_overhead(size) = Overhead(DivRoundUp(size, BLOCK_SECTOR_SIZE)) * BLOCK_SECTOR_SIZE
<1>1. PICK B \in Nat : B = BLOCK_SECTOR_SIZE /\ B > 0
  BY CopyAssumption
<1>2. PICK D \in Nat : D = DIRECT_BLOCKS_COUNT /\ D > 0
  BY SizesAssumption
<1>3. PICK I \in Nat : I = INDIRECT_BLOCKS_PER_SECTOR /\ I > 0
  BY SizesAssumption
<1>4. PICK num \in Nat : num = DivRoundUp(size, B) /\ \A k \in Nat : size <= k * B <=> num <= k
  BY <1>1, Within
<1>5. PICK S \in Nat : S = D + I
  OBVIOUS
<1>6. D * B + I * B = S * B /\ S * B \in Nat /\ D * B \in Nat
  <2>1. S * B \in Nat /\ D * B \in Nat
    BY Times
  <2> QED
    BY <1>5, <2>1
<1>7. PICK p \in Nat : p = D * B
  BY <1>6
<1>8. PICK q \in Nat : q = S * B
  BY <1>6
<1>9. (size <= p <=> num <= D) /\ (size <= q <=> num <= S)
  BY <1>4, <1>7, <1>8
<1>10. get_overhead(size)
         = CASE size <= p -> B
             [] p < size /\ size <= q -> 2 * B
             [] size > q -> (3 + DivRoundUp(DivRoundUp(size - q, B), I)) * B
  BY <1>1, <1>2, <1>3, <1>6, <1>7, <1>8 DEF get_overhead
<1>11. Overhead(num) = IF num <= D THEN 1 ELSE IF num <= S THEN 2 ELSE 3 + DivRoundUp(num - S, I)
  BY <1>2, <1>3, <1>5 DEF Overhead
<1>12. p <= q
  BY <1>5, <1>7, <1>8, Times
<1>13. CASE size <= p
  BY <1>13, <1>9, <1>10, <1>11, <1>12, <1>1, <1>4
<1>14. CASE p < size /\ size <= q
  BY <1>14, <1>9, <1>10, <1>11, <1>12, <1>1, <1>4
<1>15. CASE size > q
  <2>1. DivRoundUp(size - q, B) = num - S
    BY <1>15, <1>1, <1>4, <1>8, BlocksOff
  <2>2. num - S \in Nat /\ ~(num <= S) /\ ~(num <= D)
    BY <1>15, <1>9, <1>5
  <2>3. PICK x \in Nat : x = DivRoundUp(num - S, I)
    BY <2>2, <1>3, Within
  <2>4. get_overhead(size) = (3 + x) * B
    BY <1>10, <1>12, <1>15, <2>1, <2>3
  <2>5. Overhead(num) = 3 + x
    BY <1>11, <2>2, <2>3
  <2> QED
    BY <1>1, <1>4, <2>4, <2>5
<1> QED
  BY <1>13, <1>14, <1>15, <1>7, <1>8

\* What a file takes: its data, its inode and its pointer blocks.
LEMMA CostIs ==
    ASSUME NEW num \in Nat
    PROVE  /\ Overhead(num) \in Nat /\ PointerCount(num) \in Nat /\ Cost(num) \in Nat
           /\ Reached(num) => Cost(num) = num + Overhead(num)
<1>1. PICK D \in Nat : D = DIRECT_BLOCKS_COUNT /\ D > 0
  BY SizesAssumption
<1>2. PICK I \in Nat : I = INDIRECT_BLOCKS_PER_SECTOR /\ I > 0
  BY SizesAssumption
<1>3. PICK a \in Nat : a = InDirect(num)
  BY <1>1 DEF InDirect, Smaller
<1>4. a = Smaller(num, D) /\ a <= num
  BY <1>1, <1>3 DEF InDirect, Smaller
<1>a. InIndirect(num) = Smaller(num - a, I)
  BY <1>2, <1>3 DEF InIndirect
<1>5. PICK b \in Nat : b = InIndirect(num)
  BY <1>2, <1>4, <1>a DEF Smaller
<1>6. b = Smaller(num - a, I) /\ b <= num - a
  BY <1>2, <1>4, <1>5, <1>a DEF Smaller
<1>8. PICK c \in Nat : c = InDoubly(num)
  BY Parts
<1>9. PICK x \in Nat : x = DivRoundUp(c, I)
  BY <1>2, Within
<1>10. PointerCount(num) = (IF b > 0 THEN 1 ELSE 0) + (IF c > 0 THEN 1 + x ELSE 0)
  BY <1>2, <1>5, <1>8, <1>9 DEF PointerCount
<1>11. Overhead(num) = IF num <= D THEN 1 ELSE IF num <= D + I THEN 2
                       ELSE 3 + DivRoundUp(num - (D + I), I)
  BY <1>1, <1>2 DEF Overhead
<1>12. num > D + I => DivRoundUp(num - (D + I), I) \in Nat
  BY <1>2, Within
<1>13. ASSUME Reached(num) PROVE Cost(num) = num + Overhead(num)
  <2>1. num = a + b + c
    BY <1>13, <1>3, <1>5, <1>8 DEF Reached
  <2>2. CASE num <= D
    <3>1. a = num /\ b = 0 /\ c = 0
      BY <2>1, <2>2, <1>4 DEF Smaller
    <3> QED
      BY <2>2, <3>1, <1>10, <1>11 DEF Cost
  <2>3. CASE num > D /\ num <= D + I
    <3>1. a = D /\ b = num - D
      BY <2>3, <1>4, <1>6 DEF Smaller
    <3>2. b > 0 /\ c = 0
      BY <2>1, <2>3, <3>1
    <3> QED
      BY <2>3, <3>2, <1>10, <1>11 DEF Cost
  <2>4. CASE num > D + I
    <3>1. a = D /\ b = I
      BY <2>4, <1>4, <1>6 DEF Smaller
    <3>2. c = num - (D + I) /\ c > 0 /\ b > 0
      BY <2>1, <2>4, <3>1, <1>2
    <3>3. x = DivRoundUp(num - (D + I), I)
      BY <3>2, <1>9
    <3>4. ~(num <= D) /\ ~(num <= D + I)
      BY <2>4
    <3>5. Overhead(num) = 3 + x /\ PointerCount(num) = 2 + x
      BY <3>2, <3>3, <3>4, <1>10, <1>11
    <3> QED
      BY <3>5 DEF Cost
  <2> QED
    BY <2>2, <2>3, <2>4
<1>14. Overhead(num) \in Nat
  BY <1>11, <1>12
<1>15. PointerCount(num) \in Nat
  BY <1>10
<1> QED
  BY <1>13, <1>14, <1>15 DEF Cost

\* A longer file has no less overhead, and a disk that is filled by one file
\* holds its overhead.
LEMMA OverheadGrows ==
    ASSUME NEW m \in Nat, NEW n \in Nat, m <= n
    PROVE  /\ Overhead(m) <= Overhead(n)
           /\ n >= 1 => Overhead(n) <= n
<1>1. PICK D \in Nat : D = DIRECT_BLOCKS_COUNT /\ D > 0
  BY SizesAssumption
<1>2. PICK I \in Nat : I = INDIRECT_BLOCKS_PER_SECTOR /\ I > 0
  BY SizesAssumption
<1>3. PICK S \in Nat : S = D + I /\ S >= 3 /\ S > D
  BY <1>1, <1>2, CopyAssumption
<1>4. \A num \in Nat : Overhead(num) = IF num <= D THEN 1 ELSE IF num <= S THEN 2
                                       ELSE 3 + DivRoundUp(num - S, I)
  BY <1>1, <1>2, <1>3 DEF Overhead
<1>5. \A k \in Nat : DivRoundUp(k, I) \in Nat /\ DivRoundUp(k, I) <= k
  <2> TAKE k \in Nat
  <2>1. k <= k * I /\ k * I \in Nat
    <3>1. k * 1 <= k * I /\ k * I \in Nat
      <4>1. 1 * k <= I * k /\ I * k \in Nat
        BY <1>2, Times
      <4> QED
        BY <4>1
    <3> QED
      BY <3>1
  <2> QED
    BY <2>1, <1>2, Within
<1>6. ASSUME m > S PROVE DivRoundUp(m - S, I) <= DivRoundUp(n - S, I)
  <2>1. PICK x \in Nat : x = m - S
    BY <1>6
  <2>2. PICK y \in Nat : y = n - S
    BY <1>6
  <2>a. DivRoundUp(y, I) \in Nat /\ \A k \in Nat : y <= k * I <=> DivRoundUp(y, I) <= k
    BY <1>2, Within
  <2>3. PICK b \in Nat : b = DivRoundUp(y, I) /\ y <= b * I
    BY <2>a
  <2>4. x <= b * I
    <3>1. b * I \in Nat
      BY Times
    <3> QED
      BY <3>1, <2>1, <2>2, <2>3
  <2>5. DivRoundUp(x, I) <= b
    BY <2>4, <1>2, Within
  <2> QED
    BY <2>1, <2>2, <2>3, <2>5
<1>7. Overhead(m) <= Overhead(n)
  <2>1. CASE n <= S
    BY <2>1, <1>3, <1>4
  <2>2. CASE n > S /\ m <= S
    <3>1. PICK y \in Nat : y = DivRoundUp(n - S, I)
      BY <2>2, <1>5
    <3>2. Overhead(n) = 3 + y
      BY <2>2, <3>1, <1>3, <1>4
    <3> QED
      BY <2>2, <3>2, <1>3, <1>4
  <2>3. CASE m > S
    <3>1. PICK x \in Nat : x = DivRoundUp(m - S, I)
      BY <2>3, <1>5
    <3>2. PICK y \in Nat : y = DivRoundUp(n - S, I)
      BY <2>3, <1>5
    <3>3. Overhead(n) = 3 + y /\ Overhead(m) = 3 + x
      BY <2>3, <3>1, <3>2, <1>3, <1>4
    <3> QED
      BY <2>3, <3>1, <3>2, <3>3, <1>6
  <2> QED
    BY <2>1, <2>2, <2>3
<1>8. ASSUME n >= 1 PROVE Overhead(n) <= n
  <2>1. CASE n <= S
    BY <1>8, <2>1, <1>1, <1>4
  <2>2. CASE n > S
    <3>1. PICK x \in Nat : x = n - S
      BY <2>2
    <3>2. PICK y \in Nat : y = DivRoundUp(x, I) /\ y <= x
      BY <1>5
    <3>3. Overhead(n) = 3 + y
      BY <2>2, <3>1, <3>2, <1>3, <1>4
    <3> QED
      BY <3>1, <3>2, <3>3, <1>3
  <2> QED
    BY <2>1, <2>2
<1> QED
  BY <1>7, <1>8

\* What copy_in gives the file, in sectors, with c sectors free.
WriteBlocks(bufsize, c) ==
    DivRoundUp(get_write_size(bufsize, c * BLOCK_SECTOR_SIZE), BLOCK_SECTOR_SIZE)

\* If the file fits with its overhead, or is cut, what it takes is there.
LEMMA WriteSize ==
    ASSUME NEW bufsize \in Nat, NEW c \in Nat, c >= 1
    PROVE  /\ WriteBlocks(bufsize, c) \in Nat
           /\ FitsWhole(bufsize, c * BLOCK_SECTOR_SIZE) \/ bufsize >= c * BLOCK_SECTOR_SIZE
                => WriteBlocks(bufsize, c) + Overhead(WriteBlocks(bufsize, c)) <= c
<1>1. PICK B \in Nat : B = BLOCK_SECTOR_SIZE /\ B > 1
  BY CopyAssumption
<1>2. PICK free \in Nat : free = c * B
  BY <1>1, Times
<1>3. free > 1
  <2>1. 1 * B <= c * B
    BY Times
  <2> QED
    BY <2>1, <1>1, <1>2
<1>4. PICK o \in Nat : o = Overhead(c)
  BY CostIs
<1>5. DivRoundUp(free, B) = c
  <2>1. \A k \in Nat : free <= k * B <=> DivRoundUp(free, B) <= k
    BY <1>1, Within
  <2>2. PICK d \in Nat : d = DivRoundUp(free, B)
    BY <1>1, Within
  <2>3. d <= c
    BY <2>1, <2>2, <1>2
  <2>4. CASE d < c
    <3>1. d * B + B <= c * B /\ d * B \in Nat
      BY <2>4, Times
    <3>2. free <= d * B
      BY <2>1, <2>2
    <3> QED
      BY <3>1, <3>2, <1>1, <1>2
  <2> QED
    BY <2>2, <2>3, <2>4
<1>6. get_overhead(free) = o * B /\ o <= c
  BY <1>1, <1>4, <1>5, OverheadInBlocks, OverheadGrows
<1>7. \A k \in Nat : k * B \in Nat /\ DivRoundUp(k * B, B) = k
  <2> TAKE k \in Nat
  <2>1. PICK n \in Nat : n = k * B
    BY Times
  <2>a. DivRoundUp(n, B) \in Nat /\ \A j \in Nat : n <= j * B <=> DivRoundUp(n, B) <= j
    BY <1>1, Within
  <2>2. PICK d \in Nat : d = DivRoundUp(n, B) /\ \A j \in Nat : n <= j * B <=> d <= j
    BY <2>a
  <2>3. d <= k
    BY <2>1, <2>2
  <2>4. CASE d < k
    <3>1. d * B + B <= k * B /\ d * B \in Nat
      BY <2>4, Times
    <3>2. n <= d * B
      BY <2>2
    <3> QED
      BY <2>1, <3>1, <3>2, <1>1
  <2> QED
    BY <2>1, <2>2, <2>3, <2>4
<1>8. CASE bufsize >= free
  <2>1. get_write_size(bufsize, free) = free - get_overhead(free)
    <3>1. free # 1 /\ ~(bufsize < free)
      BY <1>3, <1>8
    <3>2. ~FitsWhole(bufsize, free)
      BY <3>1 DEF FitsWhole
    <3> QED
      BY <3>1, <3>2, <1>8, Zenon DEF get_write_size
  <2>2. PICK k \in Nat : k = c - o
    BY <1>6
  <2>3. free - o * B = k * B
    BY <1>2, <2>2
  <2>4. WriteBlocks(bufsize, c) = k
    BY <2>1, <2>3, <1>1, <1>2, <1>6, <1>7 DEF WriteBlocks
  <2>5. Overhead(k) <= o /\ Overhead(k) \in Nat
    BY <2>2, <1>4, OverheadGrows, CostIs
  <2> QED
    BY <2>2, <2>4, <2>5
<1>9. CASE FitsWhole(bufsize, free)
  <2>1. bufsize < free
    BY <1>9 DEF FitsWhole
  <2>2. get_write_size(bufsize, free) = bufsize
    BY <2>1, <1>3, <1>9 DEF get_write_size
  <2>a. DivRoundUp(bufsize, B) \in Nat /\ \A k \in Nat : bufsize <= k * B <=> DivRoundUp(bufsize, B) <= k
    BY <1>1, Within
  <2>3. PICK num \in Nat : num = DivRoundUp(bufsize, B) /\ \A k \in Nat : bufsize <= k * B <=> num <= k
    BY <2>a
  <2>4. PICK w \in Nat : w = Overhead(num) /\ get_overhead(bufsize) = w * B
    BY <1>1, <2>3, OverheadInBlocks
  <2>5. w * B <= free - bufsize
    BY <1>9, <2>4 DEF FitsWhole
  <2>6. w <= c
    <3>1. w * B \in Nat /\ (c < w => c * B + B <= w * B)
      BY Times
    <3> QED
      BY <3>1, <2>5, <1>1, <1>2
  <2>7. PICK k \in Nat : k = c - w
    BY <2>6
  <2>8. free - w * B = k * B
    BY <1>2, <2>7
  <2>9. bufsize <= k * B
    <3>1. w * B \in Nat /\ k * B \in Nat
      BY Times
    <3> QED
      BY <3>1, <2>5, <2>8
  <2>10. num <= k
    BY <2>3, <2>9
  <2>11. WriteBlocks(bufsize, c) = num
    BY <2>2, <2>3, <1>1, <1>2 DEF WriteBlocks
  <2> QED
    BY <2>4, <2>7, <2>10, <2>11
<1>10. CASE bufsize < free /\ ~FitsWhole(bufsize, free)
  <2>1. PICK left \in Nat : left = free - bufsize /\ left >= 1
    BY <1>10
  <2>2. PICK single \in Nat : single = DIRECT_BLOCKS_COUNT + INDIRECT_BLOCKS_PER_SECTOR
    BY SizesAssumption
  <2>3. PICK k \in Nat : k = CASE left = 1 -> DIRECT_BLOCKS_COUNT
                               [] left \in {2, 3} -> single
                               [] OTHER -> single + left - 3
    <3>1. CASE left = 1
      BY <3>1, SizesAssumption
    <3>2. CASE left \in {2, 3}
      BY <3>2
    <3>3. CASE left > 3
      BY <3>3
    <3> QED
      BY <2>1, <3>1, <3>2, <3>3
  <2>4. get_write_size(bufsize, free) = B * k
    BY <1>1, <1>3, <1>10, <2>1, <2>2, <2>3 DEF get_write_size
  <2>5. B * k = k * B
    OBVIOUS
  <2>6. WriteBlocks(bufsize, c) = k
    BY <2>4, <2>5, <1>1, <1>2, <1>7 DEF WriteBlocks
  <2> QED
    BY <2>6, <1>1, <1>2, <1>10
<1> QED
  BY <1>1, <1>2, <1>8, <1>9, <1>10

-----------------------------------------------------------------------------
(* inode_reserve does not fail while there is room.                        *)

\* A map with at least n clear bits.
HasRoom(map, n) == map \subseteq Sectors /\ 0 \in map /\ n <= Cardinality(Sectors \ map)

\* The clear bits can be counted.
LEMMA FreeSectors ==
    ASSUME NEW map
    PROVE  IsFiniteSet(Sectors \ map) /\ Cardinality(Sectors \ map) \in Nat
<1>1. IsFiniteSet(Sectors)
  BY SizesAssumption, FS_Interval DEF Sectors
<1> QED
  BY <1>1, FS_Subset, FS_CardinalityType

\* Marking one bit takes no more than one.
LEMMA RoomTaken ==
    ASSUME NEW map, NEW n \in Nat, HasRoom(map, n + 1), NEW s \in Sectors
    PROVE  /\ HasRoom(map, n) /\ HasRoom(map \cup {s}, n)
           /\ bitmap_scan(map) # 0 /\ bitmap_scan(map) \in Sectors
<1> DEFINE clear == Sectors \ map
<1>2. IsFiniteSet(clear) /\ Cardinality(clear) \in Nat
  BY FreeSectors
<1>3. /\ IsFiniteSet(clear \ {s})
      /\ Cardinality(clear \ {s}) = IF s \in clear THEN Cardinality(clear) - 1 ELSE Cardinality(clear)
  BY <1>2, FS_RemoveElement
<1>4. Sectors \ (map \cup {s}) = clear \ {s}
  OBVIOUS
<1>5. PICK c \in Nat : c = Cardinality(clear) /\ n + 1 <= c
  BY <1>2 DEF HasRoom
<1>6. map \cup {s} \subseteq Sectors /\ 0 \in map \cup {s}
  BY DEF HasRoom
<1>7. HasRoom(map \cup {s}, n)
  <2>1. n <= Cardinality(clear \ {s})
    BY <1>3, <1>5
  <2> QED
    BY <2>1, <1>4, <1>6 DEF HasRoom
<1>8. HasRoom(map, n)
  BY <1>5 DEF HasRoom
<1>9. ASSUME bitmap_scan(map) = 0 PROVE FALSE
  <2>1. Sectors \subseteq map
    BY <1>9, Scan DEF HasRoom
  <2>2. clear = {}
    BY <2>1
  <2>3. Cardinality(clear) = 0
    BY <2>2, FS_EmptySet
  <2> QED
    BY <2>3, <1>5
<1> QED
  BY <1>7, <1>8, <1>9, Scan

\* A data sector.
LEMMA DataFits ==
    ASSUME NEW fs \in FsType, NEW p \in Sectors, NEW n \in Nat, HasRoom(fs.map, n + 1)
    PROVE  ReserveData(fs, p).ok /\ HasRoom(ReserveData(fs, p).fs.map, n)
<1> DEFINE s == bitmap_scan(fs.map)
<1>1. s # 0 /\ s \in Sectors /\ HasRoom(fs.map, n)
  BY RoomTaken, SectorTypes
<1>2. HasRoom(fs.map \cup {s}, n)
  BY <1>1, RoomTaken
<1> HIDE DEF s
<1>3. CASE p # 0
  <2>1. ReserveData(fs, p) = [fs |-> fs, p |-> p, ok |-> TRUE]
    BY <1>3 DEF ReserveData
  <2> QED
    BY <2>1, <1>1
<1>4. CASE p = 0
  <2>1. ReserveData(fs, p) = [fs |-> Allocated(fs, s), p |-> s, ok |-> TRUE]
    BY <1>1, <1>4 DEF ReserveData, s
  <2>2. Allocated(fs, s).map = fs.map \cup {s}
    BY <1>1, AllocatedType
  <2> QED
    BY <2>1, <2>2, <1>2
<1> QED
  BY <1>3, <1>4

\* The head of inode_reserve_indirect.
LEMMA PointerFits ==
    ASSUME NEW fs \in FsType, NEW p \in Sectors, NEW n \in Nat, HasRoom(fs.map, n + 1)
    PROVE  HasRoom(PointerBlock(fs, p).fs.map, n)
<1> DEFINE s == bitmap_scan(fs.map)
<1>1. s # 0 /\ s \in Sectors /\ HasRoom(fs.map, n)
  BY RoomTaken, SectorTypes
<1>2. HasRoom(fs.map \cup {s}, n)
  BY <1>1, RoomTaken
<1> HIDE DEF s
<1>3. CASE p # 0
  <2>1. PointerBlock(fs, p) = [fs |-> fs, p |-> p]
    BY <1>3 DEF PointerBlock
  <2> QED
    BY <2>1, <1>1
<1>4. CASE p = 0
  <2>1. PointerBlock(fs, p) = [fs |-> Allocated(fs, s), p |-> s]
    BY <1>4 DEF PointerBlock, s
  <2>2. Allocated(fs, s).map = fs.map \cup {s}
    BY <1>1, AllocatedType
  <2> QED
    BY <2>1, <2>2, <1>2
<1> QED
  BY <1>3, <1>4

\* The loop over data sectors.
LEMMA AllFits ==
    ASSUME NEW size \in Nat, NEW fs \in FsType, NEW blocks \in [0..(size - 1) -> Sectors],
           NEW num \in Nat, num <= size, NEW n \in Nat, HasRoom(fs.map, num + n)
    PROVE  ReserveAll(fs, blocks, num).ok /\ HasRoom(ReserveAll(fs, blocks, num).fs.map, n)
<1>1. PICK done \in [0..num -> DoneType(size)] :
          Turns(done, fs, blocks, num) /\ ReserveAll(fs, blocks, num) = done[num]
  BY ReserveAllTurns
<1> DEFINE T == {m \in 0..num : done[m].ok /\ HasRoom(done[m].fs.map, (num - m) + n)}
<1>2. 0 \in T
  <2>1. done[0].ok /\ done[0].fs = fs
    BY <1>1 DEF Turns, Started
  <2>2. (num - 0) + n = num + n /\ 0 \in 0..num
    OBVIOUS
  <2> QED
    BY <2>1, <2>2
<1>3. ASSUME NEW m \in 1..num, m - 1 \in T PROVE m \in T
  <2>1. PICK i \in 0..(size - 1) : i = m - 1 /\ i \in 0..num
    OBVIOUS
  <2>2. PICK st \in DoneType(size) : st = done[i]
    BY <2>1, <1>1
  <2>3. PICK k \in Nat : k = (num - m) + n
    OBVIOUS
  <2>4. (num - i) + n = k + 1
    BY <2>1, <2>3
  <2>5. st.ok /\ HasRoom(st.fs.map, k + 1)
    BY <1>3, <2>1, <2>2, <2>4
  <2>6. st.fs \in FsType /\ st.blocks[i] \in Sectors
    BY <2>1 DEF DoneType
  <2>7. ReserveData(st.fs, st.blocks[i]).ok /\ HasRoom(ReserveData(st.fs, st.blocks[i]).fs.map, k)
    BY <2>5, <2>6, DataFits
  <2>8. done[m] = Stored(st.blocks, i, ReserveData(st.fs, st.blocks[i]))
    <3>1. done[m] = ReserveOne(done[m - 1], m - 1)
      BY <1>1 DEF Turns
    <3> QED
      BY <3>1, <2>1, <2>2, <2>5 DEF ReserveOne
  <2>9. done[m].ok /\ HasRoom(done[m].fs.map, k)
    BY <2>7, <2>8 DEF Stored
  <2> QED
    BY <2>3, <2>9
<1>4. num \in T
  <2> HIDE DEF T
  <2>1. 0..num \subseteq T
    BY <1>2, <1>3, Climb
  <2> QED
    BY <2>1
<1>5. (num - num) + n = n
  OBVIOUS
<1> QED
  BY <1>1, <1>4, <1>5

\* inode_reserve_indirect, level 1.
LEMMA Fits1 ==
    ASSUME NEW fs \in FsType, NEW p \in Sectors, NEW num \in 0..INDIRECT_BLOCKS_PER_SECTOR,
           NEW n \in Nat, HasRoom(fs.map, (num + 1) + n)
    PROVE  /\ inode_reserve_indirect_1(fs, p, num).ok
           /\ HasRoom(inode_reserve_indirect_1(fs, p, num).fs.map, n)
<1> DEFINE b == PointerBlock(fs, p)
           done == ReserveAll(b.fs, b.fs.disk[b.p].blocks, num)
<1>1. INDIRECT_BLOCKS_PER_SECTOR \in Nat /\ num \in Nat /\ num <= INDIRECT_BLOCKS_PER_SECTOR
  BY SizesAssumption
<1>2. b.fs \in FsType /\ b.p \in Sectors
  BY PointerBlockType
<1>3. HasRoom(b.fs.map, num + n)
  <2>1. (num + 1) + n = (num + n) + 1 /\ num + n \in Nat
    BY <1>1
  <2> QED
    BY <2>1, PointerFits
<1>4. inode_reserve_indirect_1(fs, p, num) = WriteBack(b.p, done)
  BY DEF inode_reserve_indirect_1
<1> HIDE DEF b
<1>5. b.fs.disk[b.p].blocks \in [0..(INDIRECT_BLOCKS_PER_SECTOR - 1) -> Sectors]
  BY <1>2 DEF FsType, SectorType, Pointers
<1>6. done.ok /\ HasRoom(done.fs.map, n)
  BY <1>1, <1>2, <1>3, <1>5, AllFits
<1> HIDE DEF done
<1>7. WriteBack(b.p, done).ok /\ WriteBack(b.p, done).fs.map = done.fs.map
  BY <1>6 DEF WriteBack
<1> QED
  BY <1>4, <1>6, <1>7

\* The loop over pointer blocks.
LEMMA BlocksFit ==
    ASSUME NEW fs \in FsType, NEW blocks \in [Pointers -> Sectors],
           NEW num \in Nat, num <= INDIRECT_BLOCKS_PER_SECTOR * INDIRECT_BLOCKS_PER_SECTOR,
           NEW top \in Nat, top = DivRoundUp(num, INDIRECT_BLOCKS_PER_SECTOR),
           NEW n \in Nat, HasRoom(fs.map, (num + top) + n)
    PROVE  /\ ReserveAllBlocks(fs, blocks, num).ok
           /\ HasRoom(ReserveAllBlocks(fs, blocks, num).fs.map, n)
<1> DEFINE K == INDIRECT_BLOCKS_PER_SECTOR
           S == DoneType(K)
<1>1. PICK done \in [0..top -> S] :
          BlockTurns(done, fs, blocks, num, top) /\ ReserveAllBlocks(fs, blocks, num) = done[top]
  BY ReserveAllBlocksTurns
<1> DEFINE Left(m) == (num - Smaller(num, m * K)) + (top - m)
           T == {m \in 0..top : done[m].ok /\ HasRoom(done[m].fs.map, Left(m) + n)}
<1>2. Smaller(num, top * K) = num /\ Smaller(num, 0 * K) = 0
  BY SubsizesAll
<1>3. 0 \in T
  <2>1. done[0].ok /\ done[0].fs = fs
    BY <1>1 DEF BlockTurns, Started
  <2>2. Left(0) + n = (num + top) + n /\ 0 \in 0..top
    <3>1. PICK z \in Nat : z = Smaller(num, 0 * K) /\ z = 0
      BY <1>2
    <3>2. (num - z) + (top - 0) = num + top
      BY <3>1
    <3> QED
      BY <3>1, <3>2
  <2> HIDE DEF Left
  <2> QED
    BY <2>1, <2>2
<1>4. ASSUME NEW m \in 1..top, m - 1 \in T PROVE m \in T
  <2>1. PICK i \in Nat : i = m - 1 /\ i \in 0..(top - 1) /\ i \in 0..top /\ m = i + 1
    OBVIOUS
  <2>2. PICK st \in S : st = done[i]
    BY <2>1, <1>1
  <2>3. PICK u \in Nat : u = Subsize(num, i) /\ u \in 1..K /\ u \in 0..K
    <3>1. Subsize(num, i) \in 1..K
      BY <2>1, Subsizes
    <3> QED
      BY <3>1, SizesAssumption
  <2>4. PICK a \in Nat : a = Smaller(num, i * K) /\ a + u = Smaller(num, m * K) /\ a + u <= num
    <3>1. /\ i * K \in Nat /\ i * K < num /\ Smaller(num, i * K) = i * K
          /\ Smaller(num, i * K) + Subsize(num, i) = Smaller(num, (i + 1) * K)
      <4>1. i + 1 <= DivRoundUp(num, INDIRECT_BLOCKS_PER_SECTOR)
        BY <2>1
      <4> QED
        BY <4>1, SubsizesAdd
    <3>2. PICK y \in Nat : y = m * K
      BY SizesAssumption, Times
    <3>3. Smaller(num, y) <= num
      BY <3>2 DEF Smaller
    <3> QED
      BY <3>1, <3>2, <3>3, <2>1, <2>3
  <2>5. PICK k \in Nat : k = Left(m) + n
    <3>1. (num - (a + u)) + (top - m) + n \in Nat
      BY <2>4, SMTT(30)
    <3> QED
      BY <3>1, <2>4
  <2>6. Left(i) + n = (u + 1) + k
    <3>1. Left(i) + n = ((num - a) + (top - i)) + n /\ k = ((num - (a + u)) + (top - m)) + n
      BY <2>4, <2>5
    <3> HIDE DEF Left
    <3>2. PICK j \in Nat : j = m /\ j = i + 1 /\ j <= top
      BY <2>1
    <3>3. PICK d \in Nat : d = num - (a + u) /\ num - a = d + u
      BY <2>4, SMTT(30)
    <3>4. PICK e \in Nat : e = top - j /\ top - i = e + 1
      BY <3>2
    <3>5. Left(i) + n = ((d + u) + (e + 1)) + n /\ k = (d + e) + n
      BY <3>1, <3>2, <3>3, <3>4
    <3> QED
      BY <3>5
  <2>7. st.ok /\ HasRoom(st.fs.map, (u + 1) + k)
    BY <1>4, <2>1, <2>2, <2>6
  <2>8. st.fs \in FsType /\ st.blocks[i] \in Sectors
    <3>1. i \in Pointers
      <4>1. top <= K /\ K \in Nat
        BY Subsizes, SizesAssumption
      <4> QED
        BY <4>1, <2>1 DEF Pointers
    <3> QED
      BY <3>1 DEF DoneType, Pointers
  <2> HIDE DEF Left, T, S
  <2> DEFINE r == inode_reserve_indirect_1(st.fs, st.blocks[i], u)
  <2>9. r.ok /\ HasRoom(r.fs.map, k)
    BY <2>3, <2>7, <2>8, Fits1
  <2>10. done[m] = Stored(st.blocks, i, r)
    <3>1. done[m] = ReserveOneBlock(done[m - 1], m - 1, num)
      BY <1>1 DEF BlockTurns
    <3> QED
      BY <3>1, <2>1, <2>2, <2>3, <2>7 DEF ReserveOneBlock
  <2> HIDE DEF r
  <2>11. done[m].ok /\ HasRoom(done[m].fs.map, k)
    BY <2>9, <2>10 DEF Stored
  <2> QED
    BY <2>5, <2>11 DEF T
<1>5. top \in T
  <2> HIDE DEF T
  <2>1. 0..top \subseteq T
    BY <1>3, <1>4, Climb
  <2> QED
    BY <2>1
<1>6. Left(top) + n = n
  <2>1. (num - num) + (top - top) + n = n
    OBVIOUS
  <2> QED
    BY <2>1, <1>2
<1> HIDE DEF Left
<1> QED
  BY <1>1, <1>5, <1>6

\* inode_reserve_indirect, level 2.
LEMMA Fits2 ==
    ASSUME NEW fs \in FsType, NEW p \in Sectors, NEW num \in Nat,
           num <= INDIRECT_BLOCKS_PER_SECTOR * INDIRECT_BLOCKS_PER_SECTOR,
           NEW top \in Nat, top = DivRoundUp(num, INDIRECT_BLOCKS_PER_SECTOR),
           NEW n \in Nat, HasRoom(fs.map, (num + top + 1) + n)
    PROVE  /\ inode_reserve_indirect_2(fs, p, num).ok
           /\ HasRoom(inode_reserve_indirect_2(fs, p, num).fs.map, n)
<1> DEFINE b == PointerBlock(fs, p)
           done == ReserveAllBlocks(b.fs, b.fs.disk[b.p].blocks, num)
<1>2. b.fs \in FsType /\ b.p \in Sectors
  BY PointerBlockType
<1>3. HasRoom(b.fs.map, (num + top) + n)
  <2>1. (num + top + 1) + n = ((num + top) + n) + 1 /\ (num + top) + n \in Nat
    OBVIOUS
  <2> QED
    BY <2>1, PointerFits
<1>4. inode_reserve_indirect_2(fs, p, num) = WriteBack(b.p, done)
  BY DEF inode_reserve_indirect_2
<1> HIDE DEF b
<1>5. b.fs.disk[b.p].blocks \in [Pointers -> Sectors]
  BY <1>2 DEF FsType, SectorType
<1>6. done.ok /\ HasRoom(done.fs.map, n)
  BY <1>2, <1>3, <1>5, BlocksFit
<1> HIDE DEF done
<1>7. WriteBack(b.p, done).ok /\ WriteBack(b.p, done).fs.map = done.fs.map
  BY <1>6 DEF WriteBack
<1> QED
  BY <1>4, <1>6, <1>7

\* inode_reserve.
LEMMA ReserveFits ==
    ASSUME NEW fs \in FsType, NEW inode \in InodeType, NEW num \in Nat, Reached(num),
           NEW n \in Nat, HasRoom(fs.map, (num + PointerCount(num)) + n)
    PROVE  /\ inode_reserve(fs, inode, num).ok
           /\ HasRoom(inode_reserve(fs, inode, num).fs.map, n)
<1> DEFINE K == INDIRECT_BLOCKS_PER_SECTOR
           st == [fs |-> fs, inode |-> inode, ok |-> TRUE]
           A == ReserveDirect(st, num)
           B == ReserveIndirect(A, num)
           C == ReserveDoubly(B, num)
           R == inode_reserve(fs, inode, num)
<1>1. PICK a \in Nat : a = InDirect(num) /\ a <= DIRECT_BLOCKS_COUNT
  BY Parts
<1>2. PICK b \in Nat : b = InIndirect(num) /\ b \in 0..K
  BY Parts, SizesAssumption
<1>3. PICK c \in Nat : c = InDoubly(num) /\ c <= K * K
  BY Parts
<1>4. PICK x \in Nat : x = DivRoundUp(c, K)
  BY Subsizes
<1>5. num = a + b + c
  BY <1>1, <1>2, <1>3 DEF Reached
<1>6. PICK v \in Nat : v = (IF c > 0 THEN c + x + 1 ELSE 0) + n
  OBVIOUS
<1>7. PICK w \in Nat : w = (IF b > 0 THEN b + 1 ELSE 0) + v
  OBVIOUS
<1>8. (num + PointerCount(num)) + n = a + w
  <2>1. PointerCount(num) = (IF b > 0 THEN 1 ELSE 0) + (IF c > 0 THEN 1 + x ELSE 0)
    BY <1>2, <1>3, <1>4 DEF PointerCount
  <2>2. PICK y \in Nat : y = IF b > 0 THEN 1 ELSE 0
    OBVIOUS
  <2>3. PICK z \in Nat : z = IF c > 0 THEN 1 + x ELSE 0
    OBVIOUS
  <2>4. PICK q \in Nat : q = PointerCount(num) /\ q = y + z
    BY <2>1, <2>2, <2>3
  <2>5. b \in Nat /\ w = b + y + v
    BY <1>2, <1>7, <2>2
  <2>6. v = c + z + n
    BY <1>6, <2>3
  <2>7. (num + q) + n = a + w
    BY <1>5, <2>4, <2>5, <2>6
  <2> QED
    BY <2>4, <2>7
<1>9. R.ok = (C.ok /\ Reached(num)) /\ R.fs = C.fs
  <2>1. R = [C EXCEPT !.ok = C.ok /\ Reached(num)]
    BY DEF inode_reserve, Reached
  <2>2. C \in StateType
    <3>1. st \in StateType
      BY DEF StateType
    <3> HIDE DEF st
    <3>2. A \in StateType
      BY <3>1, ReserveDirectType
    <3> HIDE DEF A
    <3>3. B \in StateType
      BY <3>2, ReserveIndirectType
    <3> HIDE DEF B
    <3> QED
      BY <3>3, ReserveDoublyType
  <2> HIDE DEF R, C
  <2> QED
    BY <2>1, <2>2 DEF StateType
<1> HIDE DEF R
<1>10. st \in StateType /\ st.fs = fs /\ st.inode = inode
  BY DEF StateType
<1> HIDE DEF st
<1>11. A \in StateType /\ A.ok /\ HasRoom(A.fs.map, w)
  <2>1. inode.direct_blocks \in [0..(DIRECT_BLOCKS_COUNT - 1) -> Sectors] /\ DIRECT_BLOCKS_COUNT \in Nat
    BY SizesAssumption DEF InodeType, Direct
  <2>2. HasRoom(fs.map, a + w)
    BY <1>8
  <2> DEFINE done == ReserveAll(fs, inode.direct_blocks, a)
  <2>3. done.ok /\ HasRoom(done.fs.map, w)
    BY <2>1, <2>2, <1>1, AllFits
  <2> HIDE DEF done
  <2>4. A \in StateType /\ A.fs = done.fs /\ A.ok = done.ok
    BY <1>1, <1>10, ReserveDirectType DEF done
  <2> QED
    BY <2>3, <2>4
<1> HIDE DEF A
<1>12. B \in StateType /\ B.ok /\ HasRoom(B.fs.map, v)
  <2>1. CASE b = 0
    <3>1. B = A
      BY <2>1, <1>2, <1>11, ReserveIndirectType
    <3>2. w = v
      BY <2>1, <1>7
    <3> QED
      BY <3>1, <3>2, <1>11
  <2>2. CASE b # 0
    <3> DEFINE r == inode_reserve_indirect_1(A.fs, A.inode.indirect_block, b)
    <3>1. B \in StateType /\ B.fs = r.fs /\ B.ok = r.ok
      BY <2>2, <1>2, <1>11, ReserveIndirectType
    <3>2. A.fs \in FsType /\ A.inode.indirect_block \in Sectors
      BY <1>11 DEF StateType, InodeType
    <3>3. HasRoom(A.fs.map, (b + 1) + v)
      <4>1. w = (b + 1) + v
        BY <2>2, <1>7
      <4> QED
        BY <4>1, <1>11
    <3>4. r.ok /\ HasRoom(r.fs.map, v)
      BY <3>2, <3>3, <1>2, Fits1
    <3> HIDE DEF r
    <3> QED
      BY <3>1, <3>4
  <2> QED
    BY <2>1, <2>2
<1> HIDE DEF B
<1>13. C.ok /\ HasRoom(C.fs.map, n)
  <2>1. CASE c = 0
    <3>1. C = B
      BY <2>1, <1>3, <1>12, ReserveDoublyType
    <3>2. v = n
      BY <2>1, <1>6
    <3> QED
      BY <3>1, <3>2, <1>12
  <2>2. CASE c # 0
    <3> DEFINE r == inode_reserve_indirect_2(B.fs, B.inode.doubly_indirect_block, c)
    <3>1. C.fs = r.fs /\ C.ok = r.ok
      BY <2>2, <1>3, <1>12, ReserveDoublyType
    <3>2. B.fs \in FsType /\ B.inode.doubly_indirect_block \in Sectors
      BY <1>12 DEF StateType, InodeType
    <3>3. HasRoom(B.fs.map, (c + x + 1) + n)
      <4>1. v = (c + x + 1) + n
        BY <2>2, <1>6
      <4> QED
        BY <4>1, <1>12
    <3>4. r.ok /\ HasRoom(r.fs.map, n)
      BY <3>2, <3>3, <1>3, <1>4, Fits2
    <3> HIDE DEF r
    <3> QED
      BY <3>1, <3>4
  <2> QED
    BY <2>1, <2>2
<1> HIDE DEF C
<1> QED
  BY <1>9, <1>13 DEF R

-----------------------------------------------------------------------------
(* A file that fits is created.                                            *)

\* filesys_create, or its part of copy_in and defragment.
LEMMA CreatedFits ==
    ASSUME IInv, System \subseteq free_map, NEW f, f \notin Files, NEW num \in Nat, Reached(num),
           NEW n \in Nat, Cost(num) + n <= Cardinality(Sectors \ free_map), Created(f, num)
    PROVE  f \in Files' /\ n <= Cardinality(Sectors \ free_map')
<1> DEFINE s == bitmap_scan(free_map)
           base == [map |-> free_map \cup {s}, disk |-> disk]
           r == inode_reserve(base, NewInode(num), num)
<1>1. PICK q \in Nat : q = PointerCount(num) /\ Cost(num) = 1 + num + q
  <2>1. PointerCount(num) \in Nat
    BY CostIs
  <2> QED
    BY <2>1 DEF Cost
<1>2. PICK k \in Nat : k = (num + q) + n
  OBVIOUS
<1>3. Typed
  BY DEF IInv
<1>4. HasRoom(free_map, k + 1)
  <2>1. k + 1 = Cost(num) + n
    BY <1>1, <1>2
  <2>2. 0 \in free_map /\ free_map \subseteq Sectors
    BY <1>3 DEF System, Typed
  <2> QED
    BY <2>1, <2>2 DEF HasRoom
<1>5. s # 0 /\ s \in Sectors
  BY <1>4, RoomTaken, SectorTypes
<1>6. HasRoom(free_map \cup {s}, (num + PointerCount(num)) + n)
  BY <1>1, <1>2, <1>4, <1>5, RoomTaken
<1> HIDE DEF s
<1>7. base \in FsType /\ base.map = free_map \cup {s} /\ NewInode(num) \in InodeType
  BY <1>3, <1>5, NewTree DEF FsType, Typed
<1>8. Create(f, s, r)
  BY <1>5 DEF Created, s
<1> HIDE DEF base
<1>9. r.ok /\ HasRoom(r.fs.map, n)
  BY <1>6, <1>7, ReserveFits
<1> HIDE DEF r
<1>10. free_map' = r.fs.map /\ dir' = dir_add(dir, f, s)
  BY <1>8, <1>9 DEF Create, Files
<1>11. f \in Files'
  BY <1>10 DEF dir_add, Bind, Files
<1> QED
  BY <1>9, <1>10, <1>11 DEF HasRoom

-----------------------------------------------------------------------------
(* InodeAlloc's calls and the struct inodes of open files.                 *)

\* A file in the file table that had its struct inode has it still.
TableKept ==
    \A g \in file_table' :
        \/ dir'[g] \in DOMAIN open_inodes'
        \/ /\ g \in file_table
           /\ dir[g] \in DOMAIN open_inodes => dir'[g] \in DOMAIN open_inodes'

\* What every command does, to files that were there or are called f.
Keeping(names) ==
    /\ IInv'
    /\ MapInodeIntact' => MapInodeIntact /\ TableKept
    /\ Files' \subseteq Files \cup names

\* filesys_create.
LEMMA CreateKeeping ==
    ASSUME IInv, NEW f, NEW num \in Nat, Created(f, num),
           open_inodes' = open_inodes, file_table' = file_table
    PROVE  Keeping({f})
<1>1. IInv' /\ (MapInodeIntact' => MapInodeIntact) /\ Adds(f, num)
  BY CreateIInv
<1>2. file_table \subseteq Files
  BY DEF IInv, Typed
<1>3. \A g \in Files : dir'[g] = dir[g]
  BY <1>1 DEF Adds
<1>4. TableKept
  BY <1>2, <1>3 DEF TableKept
<1>5. Files' \subseteq Files \cup {f}
  BY <1>1 DEF Adds
<1> QED
  BY <1>1, <1>4, <1>5 DEF Keeping

\* inode_write_at.
LEMMA WriteKeeping ==
    ASSUME IInv, NEW f \in Files, NEW num \in Nat, inode_write_at(f, num)
    PROVE  Keeping({})
<1>1. IInv' /\ (MapInodeIntact' => MapInodeIntact)
  BY WriteIInv
<1>2. dir' = dir /\ file_table' = file_table \cup {f}
  BY DEF inode_write_at, Extend
<1>3. DOMAIN open_inodes' = DOMAIN open_inodes \cup {dir[f]}
  BY DEF inode_write_at, Extend, Bind
<1>4. TableKept
  BY <1>2, <1>3 DEF TableKept
<1>5. Files' = Files
  BY <1>2 DEF Files
<1> QED
  BY <1>1, <1>4, <1>5 DEF Keeping

\* inode_open of a file that is not open.
LEMMA OpenKeeping ==
    ASSUME IInv, NEW f \in Files, inode_open(f)
    PROVE  Keeping({})
<1>1. IInv'
  BY OpenIInv
<1>2. dir' = dir /\ disk' = disk /\ file_table' = file_table \cup {f}
  BY DEF inode_open
<1>3. DOMAIN open_inodes' = DOMAIN open_inodes \cup {dir[f]}
  BY DEF inode_open, Bind
<1>4. TableKept
  BY <1>2, <1>3 DEF TableKept
<1>5. Files' = Files /\ (MapInodeIntact' <=> MapInodeIntact)
  BY <1>2 DEF Files, MapInodeIntact
<1> QED
  BY <1>1, <1>4, <1>5 DEF Keeping

\* inode_close.
LEMMA CloseKeeping ==
    ASSUME IInv, NEW f \in Files, inode_close(f)
    PROVE  Keeping({})
<1>1. IInv'
  BY CloseIInv
<1>2. dir' = dir /\ disk' = disk /\ file_table' = file_table \ {f} /\ file_table \subseteq Files
  BY DEF inode_close, IInv, Typed
<1>3. DOMAIN open_inodes' = DOMAIN open_inodes \ {dir[f]}
  BY Dropped DEF inode_close
<1>4. MapInodeIntact => TableKept
  <2>1. ASSUME Sound PROVE \A g \in Files : dir[g] = dir[f] => g = f
    BY <2>1, OpenOnes
  <2> QED
    BY <2>1, <1>2, <1>3 DEF TableKept, IInv
<1>5. Files' = Files /\ (MapInodeIntact' <=> MapInodeIntact)
  BY <1>2 DEF Files, MapInodeIntact
<1> QED
  BY <1>1, <1>4, <1>5 DEF Keeping

\* filesys_remove.
LEMMA RemoveKeeping ==
    ASSUME IInv, NEW f \in Files, filesys_remove(f)
    PROVE  /\ Keeping({}) /\ (MapInodeIntact' <=> MapInodeIntact)
           /\ Files' = Files \ {f} /\ \A g \in Files' : dir'[g] = dir[g] /\ InodeOf(g)' = InodeOf(g)
<1>1. IInv'
  BY RemoveIInv
<1>2. /\ dir' = Drop(dir, {f}) /\ disk' = disk
      /\ file_table' = file_table \ {f} /\ file_table \subseteq Files
  BY DEF filesys_remove, IInv, Typed
<1>3. DOMAIN open_inodes' = DOMAIN open_inodes \ {dir[f]}
  BY Dropped DEF filesys_remove
<1>4. Files' = Files \ {f} /\ \A g \in Files' : dir'[g] = dir[g]
  <2>1. dir' = [g \in Files \ {f} |-> dir[g]]
    BY <1>2 DEF Drop, Restrict, Files
  <2> QED
    BY <2>1 DEF Files
<1>5. MapInodeIntact => TableKept
  <2>1. ASSUME Sound PROVE \A g \in Files : dir[g] = dir[f] => g = f
    BY <2>1, OpenOnes
  <2>2. ASSUME Sound PROVE TableKept
    <3>1. \A g \in file_table' : g \in file_table /\ g \in Files' /\ g \in Files /\ g # f
      BY <1>2, <1>4
    <3>2. \A g \in file_table' : dir'[g] = dir[g] /\ dir[g] # dir[f]
      BY <3>1, <2>1, <2>2, <1>4
    <3> QED
      BY <3>1, <3>2, <1>3 DEF TableKept
  <2> QED
    BY <2>2 DEF IInv
<1>6. (MapInodeIntact' <=> MapInodeIntact) /\ \A g \in Files' : InodeOf(g)' = InodeOf(g)
  BY <1>2, <1>4 DEF MapInodeIntact, InodeOf
<1> QED
  BY <1>1, <1>4, <1>5, <1>6 DEF Keeping

\* A step that leaves InodeAlloc's state alone.
LEMMA StutterKeeping == ASSUME IInv, UNCHANGED vars PROVE Keeping({})
<1>1. IInv'
  BY StutterIInv
<1>2. TableKept
  BY DEF vars, TableKept
<1>3. Files' = Files /\ (MapInodeIntact' <=> MapInodeIntact)
  BY DEF vars, Files, MapInodeIntact
<1> QED
  BY <1>1, <1>2, <1>3 DEF Keeping

\* Files are opened and stay open.
LEMMA OpensKeeping ==
    ASSUME IInv, UNCHANGED <<free_map, map_file, disk, dir, failed>>,
           NEW files, files \subseteq Files,
           open_inodes' = Opened(SectorsOf(files)),
           NEW more, more \subseteq files, file_table' = file_table \cup more
    PROVE  Keeping({})
<1>1. file_table \subseteq file_table' /\ file_table' \subseteq Files
  BY DEF IInv, Typed
<1>2. /\ IInv' /\ Files' = Files /\ (MapInodeIntact' <=> MapInodeIntact)
      /\ DOMAIN open_inodes' = DOMAIN open_inodes \cup SectorsOf(files)
  BY <1>1, OpensIInv
<1>3. TableKept
  BY <1>2 DEF TableKept, SectorsOf
<1> QED
  BY <1>2, <1>3 DEF Keeping

\* A file that is not in the file table is read and closed again.
LEMMA CatKeeping ==
    ASSUME IInv, UNCHANGED <<free_map, map_file, disk, dir, failed, file_table>>,
           NEW f \in Files, f \notin file_table, open_inodes' = Drop(open_inodes, {dir[f]})
    PROVE  Keeping({})
<1>1. /\ IInv' /\ Files' = Files /\ (MapInodeIntact' <=> MapInodeIntact)
      /\ DOMAIN open_inodes' = DOMAIN open_inodes \ {dir[f]}
  BY ClosesIInv
<1>2. file_table \subseteq Files
  BY DEF IInv, Typed
<1>3. MapInodeIntact => TableKept
  <2>1. ASSUME Sound PROVE \A g \in Files : dir[g] = dir[f] => g = f
    BY <2>1, OpenOnes
  <2> QED
    BY <2>1, <1>1, <1>2 DEF TableKept, IInv
<1> QED
  BY <1>1, <1>3 DEF Keeping

\* quit and a new start.
LEMMA RestartKeeping == ASSUME IInv, Restart PROVE Keeping({})
<1>1. IInv'
  BY RestartIInv
<1>2. file_table' = {} /\ dir' = dir /\ disk' = disk
  BY DEF Restart
<1>3. TableKept
  BY <1>2 DEF TableKept
<1> QED
  BY <1>1, <1>2, <1>3 DEF Keeping, Files, MapInodeIntact

-----------------------------------------------------------------------------
(* The commands that start and end at the prompt.                          *)

\* Open files keep their struct inodes.
LEMMA LiveKept ==
    ASSUME TableInodesLive, NEW names, Keeping(names), freed' = freed, ran' = ran
    PROVE  TableInodesLive'
<1> SUFFICES ASSUME MapInodeIntact', ran' = {}
             PROVE  freed' = {} /\ \A g \in file_table' : dir'[g] \in DOMAIN open_inodes'
  BY DEF TableInodesLive, SectorsOf
<1>1. MapInodeIntact /\ TableKept
  BY DEF Keeping
<1>2. freed = {} /\ \A g \in file_table : dir[g] \in DOMAIN open_inodes
  BY <1>1 DEF TableInodesLive, SectorsOf
<1> QED
  BY <1>1, <1>2 DEF TableKept

\* While no defragment runs, its list is empty.
LEMMA PromptStep ==
    ASSUME ExtIInv, ~Recovered, phase = "idle", phase' = phase,
           existing_files' = existing_files, before' = before,
           writing' # <<>> => writing' \in Names \X Nat,
           NEW names, names \subseteq Names, Keeping(names), TableInodesLive'
    PROVE  ExtIInv'
<1>1. before' = <<>> /\ existing_files' = <<>> /\ existing_files' \in Seq(Names \X Nat)
  BY DEF ExtIInv
<1>2. Defragments' /\ DefragmentKeepsFiles'
  BY <1>1 DEF Defragments, DefragmentKeepsFiles
<1>3. IInv' /\ Files' \subseteq Names
  BY DEF ExtIInv, Keeping
<1> QED
  BY <1>1, <1>2, <1>3 DEF ExtIInv

\* InodeAlloc's commands.
LEMMA CallStep == ASSUME ExtIInv, ~Recovered, Call PROVE ExtIInv'
<1>1. /\ phase = "idle" /\ writing = <<>> /\ freed' = freed /\ ran' = ran
      /\ phase' = phase /\ existing_files' = existing_files /\ before' = before /\ writing' = writing
  BY DEF Call, Prompt, Steps
<1>2. IInv /\ TableInodesLive
  BY DEF ExtIInv
<1>3. \E f \in Names : Keeping({f}) \/ Keeping({})
  <2>1. ASSUME NEW f \in Names, NEW num \in Lengths, filesys_create(f, num) PROVE Keeping({f})
    BY <2>1, <1>2, SizesAssumption, CreateKeeping DEF filesys_create
  <2>2. ASSUME NEW f \in Files, NEW num \in Lengths, inode_write_at(f, num) PROVE Keeping({})
    BY <2>2, <1>2, SizesAssumption, WriteKeeping
  <2>3. ASSUME NEW f \in Files, inode_open(f) \/ inode_close(f) PROVE Keeping({})
    BY <2>3, <1>2, OpenKeeping, CloseKeeping
  <2>4. Files \subseteq Names
    BY DEF ExtIInv
  <2> QED
    BY <2>1, <2>2, <2>3, <2>4 DEF Call
<1>4. PICK names : names \subseteq Names /\ Keeping(names)
  BY <1>3
<1>5. TableInodesLive'
  BY <1>1, <1>2, <1>4, LiveKept
<1> QED
  BY <1>1, <1>4, <1>5, PromptStep

\* quit and a new start.
LEMMA RestartStep == ASSUME ExtIInv, ~Recovered, ExtRestart PROVE ExtIInv'
<1>1. /\ phase = "idle" /\ writing = <<>> /\ freed' = {} /\ file_table' = {}
      /\ phase' = phase /\ existing_files' = existing_files /\ before' = before /\ writing' = writing
  BY DEF ExtRestart, Restart, Prompt, Steps
<1>2. Keeping({})
  BY RestartKeeping DEF ExtIInv, ExtRestart
<1>3. TableInodesLive'
  BY <1>1 DEF TableInodesLive, SectorsOf
<1> QED
  BY <1>1, <1>2, <1>3, PromptStep

\* fsutil_rm.
LEMMA RmStep == ASSUME ExtIInv, ~Recovered, NEW f, fsutil_rm(f) PROVE ExtIInv'
<1>1. /\ phase = "idle" /\ writing = <<>> /\ freed' = freed /\ ran' = ran
      /\ phase' = phase /\ existing_files' = existing_files /\ before' = before /\ writing' = writing
  BY DEF fsutil_rm, Prompt, Steps
<1>2. IInv /\ TableInodesLive
  BY DEF ExtIInv
<1>3. Keeping({})
  <2>1. CASE filesys_remove(f)
    <3>1. f \in Files
      BY <2>1 DEF filesys_remove, Files
    <3> QED
      BY <3>1, <2>1, <1>2, RemoveKeeping
  <2>2. CASE UNCHANGED vars
    BY <2>2, <1>2, StutterKeeping
  <2> QED
    BY <2>1, <2>2 DEF fsutil_rm
<1>4. TableInodesLive'
  BY <1>1, <1>2, <1>3, LiveKept
<1> QED
  BY <1>1, <1>3, <1>4, PromptStep

\* What a command that only opens and closes files leaves alone.
LEMMA ReadOnlySteps ==
    ASSUME ReadOnly
    PROVE  /\ phase = "idle" /\ writing = <<>>
           /\ phase' = phase /\ existing_files' = existing_files /\ before' = before /\ writing' = writing
           /\ UNCHANGED <<free_map, map_file, disk, dir, failed>>
  BY DEF ReadOnly, Prompt, Steps

\* cat.
LEMMA CatStep == ASSUME ExtIInv, ~Recovered, NEW f, fsutil_cat(f) PROVE ExtIInv'
<1>1. ReadOnly /\ freed' = freed /\ ran' = ran
  BY DEF fsutil_cat
<1>2. Keeping({})
  BY <1>1, ReadOnlySteps, CatKeeping DEF fsutil_cat, ExtIInv
<1>3. TableInodesLive'
  BY <1>1, <1>2, LiveKept DEF ExtIInv
<1> QED
  BY <1>1, <1>2, <1>3, ReadOnlySteps, PromptStep

\* copy_out.
LEMMA CopyOutStep == ASSUME ExtIInv, ~Recovered, NEW f, copy_out(f) PROVE ExtIInv'
<1>1. ReadOnly /\ freed' = freed /\ ran' = ran
  BY DEF copy_out
<1>2. Keeping({})
  <2>1. {f} \subseteq Files /\ SectorsOf({f}) = {dir[f]}
    BY DEF copy_out, SectorsOf
  <2>2. open_inodes' = Opened(SectorsOf({f})) /\ file_table' = file_table \cup {f}
    BY <2>1 DEF copy_out
  <2>3. IInv
    BY DEF ExtIInv
  <2> QED
    BY <2>1, <2>2, <2>3, <1>1, ReadOnlySteps, OpensKeeping
<1>3. TableInodesLive'
  BY <1>1, <1>2, LiveKept DEF ExtIInv
<1> QED
  BY <1>1, <1>2, <1>3, ReadOnlySteps, PromptStep

\* find_file.
LEMMA FindFileStep == ASSUME ExtIInv, ~Recovered, find_file PROVE ExtIInv'
<1>1. ReadOnly /\ ran' # {} /\ file_table' = file_table
  BY DEF find_file
<1>2. /\ IInv' /\ Files' = Files /\ (MapInodeIntact' <=> MapInodeIntact)
  <2>1. open_inodes' = Drop(open_inodes, SectorsOf(Listed))
    BY DEF find_file, OpenAndClose
  <2>2. IInv
    BY DEF ExtIInv
  <2> QED
    BY <2>1, <2>2, <1>1, ReadOnlySteps, ClosesIInv
<1>3. before' = <<>> /\ existing_files' = <<>> /\ existing_files' \in Seq(Names \X Nat) /\ writing' = <<>>
  BY <1>1, ReadOnlySteps DEF ExtIInv
<1>4. Defragments' /\ DefragmentKeepsFiles' /\ TableInodesLive'
  BY <1>1, <1>3 DEF Defragments, DefragmentKeepsFiles, TableInodesLive
<1> QED
  BY <1>2, <1>3, <1>4 DEF ExtIInv

\* fragmentation_degree.
LEMMA DegreeStep == ASSUME ExtIInv, ~Recovered, fragmentation_degree PROVE ExtIInv'
<1>1. ReadOnly /\ freed' = freed /\ ran' = ran
  BY DEF fragmentation_degree
<1>2. Keeping({})
  <2>1. Listed \subseteq Files
    BY DEF Listed
  <2>2. open_inodes' = Opened(SectorsOf(Listed)) /\ file_table' = file_table \cup {}
    BY DEF fragmentation_degree
  <2>3. IInv
    BY DEF ExtIInv
  <2> HIDE DEF Listed
  <2> QED
    BY <2>1, <2>2, <2>3, <1>1, ReadOnlySteps, OpensKeeping
<1>3. TableInodesLive'
  BY <1>1, <1>2, LiveKept DEF ExtIInv
<1> QED
  BY <1>1, <1>2, <1>3, ReadOnlySteps, PromptStep

\* recover_2.
LEMMA Recover2Step == ASSUME ExtIInv, ~Recovered, recover_2 PROVE ExtIInv'
<1>1. ReadOnly /\ ran' # {} /\ file_table' = file_table
  BY DEF recover_2
<1>2. IInv' /\ Files' = Files /\ (MapInodeIntact' <=> MapInodeIntact)
  <2>1. PICK found : open_inodes' = Drop(Opened(SectorsOf(Listed)), SectorsOf(found))
    BY DEF recover_2
  <2>2. IInv /\ Listed \subseteq Files
    BY DEF ExtIInv, Listed
  <2> QED
    BY <2>1, <2>2, <1>1, ReadOnlySteps, OpensSomeClosed
<1>3. before' = <<>> /\ existing_files' = <<>> /\ existing_files' \in Seq(Names \X Nat) /\ writing' = <<>>
  BY <1>1, ReadOnlySteps DEF ExtIInv
<1>4. Defragments' /\ DefragmentKeepsFiles' /\ TableInodesLive'
  BY <1>1, <1>3 DEF Defragments, DefragmentKeepsFiles, TableInodesLive
<1> QED
  BY <1>2, <1>3, <1>4 DEF ExtIInv

\* copy_in, up to fsutil_create.
LEMMA CopyInStep ==
    ASSUME ExtIInv, ~Recovered, NEW f \in Names, NEW bufsize \in CopySizes, copy_in(f, bufsize)
    PROVE  /\ ExtIInv'
           /\ \E c \in Nat :
                /\ c = Cardinality(Sectors \ free_map) /\ c >= 1
                /\ Created(f, WriteBlocks(bufsize, c))
                /\ last' = [cmd |-> "copy_in", bufsize |-> bufsize, free_space |-> c * BLOCK_SECTOR_SIZE,
                            new |-> f \notin Files, success |-> f \in Files' \ Files]
<1>1. PICK c \in Nat : c = Cardinality(Sectors \ free_map)
  BY FreeSectors
<1>2. c >= 1
  BY <1>1, CopyAssumption DEF copy_in
<1>3. PICK size : size = WriteBlocks(bufsize, c)
  OBVIOUS
<1>4. /\ Created(f, size)
      /\ writing' = IF f \in DOMAIN dir' \ DOMAIN dir THEN <<f, size>> ELSE <<>>
      /\ last' = [cmd |-> "copy_in", bufsize |-> bufsize, free_space |-> c * BLOCK_SECTOR_SIZE,
                  new |-> f \notin Files, success |-> f \in DOMAIN dir' \ DOMAIN dir]
      /\ open_inodes' = open_inodes /\ file_table' = file_table
  BY <1>1, <1>3 DEF copy_in, WriteBlocks
<1>5. size \in Nat
  BY <1>2, <1>3, WriteSize, CopyAssumption
<1>6. /\ phase = "idle" /\ phase' = phase /\ existing_files' = existing_files /\ before' = before
      /\ freed' = freed /\ ran' = ran
  BY DEF copy_in, Prompt
<1>7. Keeping({f}) /\ IInv /\ TableInodesLive
  BY <1>4, <1>5, CreateKeeping DEF ExtIInv
<1>8. TableInodesLive'
  BY <1>6, <1>7, LiveKept
<1>9. ExtIInv'
  BY <1>4, <1>5, <1>6, <1>7, <1>8, PromptStep
<1> QED
  BY <1>1, <1>2, <1>3, <1>4, <1>9 DEF Files

-----------------------------------------------------------------------------
(* What the files in defragment's list take.                               *)

\* The sum up to each of the files.
CostTurns(total, files) ==
    /\ total[0] = 0
    /\ \A n \in 1..Len(files) : total[n] = total[n - 1] + Cost(files[n][2])

\* TotalCost is the last of these sums.
LEMMA TotalTurns ==
    ASSUME NEW files \in Seq(Names \X Nat)
    PROVE  \E total \in [0..Len(files) -> Nat] : CostTurns(total, files) /\ TotalCost(files) = total[Len(files)]
<1>1. PICK k \in Nat : k = Len(files)
  OBVIOUS
<1> DEFINE C(n) == Cost(files[n][2])
           G(h) == [n \in 0..k |-> IF n = 0 THEN 0 ELSE h[n - 1] + Cost(files[n][2])]
           all == CHOOSE h : h = G(h)
           g == [n \in 1..k |-> [s \in Nat |-> s + C(n)]]
<1>2. ASSUME NEW n \in 1..k PROVE C(n) \in Nat
  <2>1. files[n] \in Names \X Nat
    BY <1>1
  <2>2. files[n][2] \in Nat
    BY <2>1
  <2> QED
    BY <2>2, CostIs
<1>b. \A n : C(n) = Cost(files[n][2])
  OBVIOUS
<1> HIDE DEF C
<1>3. g \in [1..k -> [Nat -> Nat]]
  BY <1>2
<1>4. \A n \in 1..k, s \in Nat : g[n][s] = s + C(n)
  OBVIOUS
<1> HIDE DEF g
<1>5. PICK h \in [0..k -> Nat] : Iterates(h, k, 0, g)
  BY <1>3, Iteration
<1>6. h[0] = 0 /\ \A n \in 1..k : h[n] = h[n - 1] + C(n)
  <2>1. h[0] = 0 /\ \A n \in 1..k : h[n] = g[n][h[n - 1]]
    BY <1>5 DEF Iterates
  <2>2. ASSUME NEW n \in 1..k PROVE h[n] = h[n - 1] + C(n)
    <3>1. PICK y \in Nat : y = h[n - 1]
      BY <1>5
    <3>2. g[n][y] = y + C(n)
      BY <1>4
    <3> QED
      BY <3>1, <3>2, <2>1
  <2> QED
    BY <2>1, <2>2
<1>7. h = G(h)
  <2>1. \A n \in 0..k : n = 0 \/ n \in 1..k
    OBVIOUS
  <2>2. h = [n \in 0..k |-> IF n = 0 THEN 0 ELSE h[n - 1] + C(n)]
    BY <1>5, <1>6, <2>1
  <2> QED
    BY <2>2, <1>b
<1>8. all = G(all)
  <2> HIDE DEF G
  <2> QED
    BY <1>7, ZenonT(60)
<1>9. TotalCost(files) = all[k]
  BY <1>1, ZenonT(60) DEF TotalCost
<1> HIDE DEF all
<1>10. all[0] = 0 /\ \A n \in 1..k : all[n] = all[n - 1] + C(n)
  <2>1. \A n \in 1..k : n \in 0..k /\ n # 0
    OBVIOUS
  <2>2. 0 \in 0..k
    OBVIOUS
  <2> QED
    BY <1>8, <1>b, <2>1, <2>2
<1>11. \A n \in 0..k : all[n] \in Nat
  <2>1. \A n \in 1..k : all[n - 1] \in Nat => all[n] \in Nat
    BY <1>2, <1>10
  <2>2. all[0] \in Nat
    BY <1>10
  <2>3. PICK fn : fn = all
    OBVIOUS
  <2>4. fn[0] \in Nat /\ \A n \in 1..k : fn[n - 1] \in Nat => fn[n] \in Nat
    BY <2>1, <2>2, <2>3
  <2>5. \A n \in 0..k : fn[n] \in Nat
    BY <2>4, Kept
  <2> QED
    BY <2>3, <2>5
<1>12. all \in [0..k -> Nat]
  BY <1>8, <1>11
<1>13. CostTurns(all, files)
  BY <1>1, <1>10, <1>b DEF CostTurns
<1> QED
  BY <1>1, <1>9, <1>12, <1>13

\* The empty list.
LEMMA TotalEmpty == TotalCost(<<>>) = 0
<1>1. <<>> \in Seq(Names \X Nat) /\ Len(<<>>) = 0
  OBVIOUS
<1>2. PICK total : CostTurns(total, <<>>) /\ TotalCost(<<>>) = total[0]
  BY <1>1, TotalTurns
<1> QED
  BY <1>2 DEF CostTurns

\* A file at the end.
LEMMA TotalAppend ==
    ASSUME NEW files \in Seq(Names \X Nat), NEW x \in Names \X Nat
    PROVE  TotalCost(files) \in Nat /\ TotalCost(Append(files, x)) = TotalCost(files) + Cost(x[2])
<1>1. PICK k \in Nat : k = Len(files)
  OBVIOUS
<1>2. PICK more \in Seq(Names \X Nat) : more = Append(files, x)
  <2>1. \A S : files \in Seq(S) /\ x \in S => Append(files, x) \in Seq(S)
    OBVIOUS
  <2> QED
    BY <2>1
<1>3. Len(more) = k + 1 /\ more[k + 1] = x /\ \A n \in 1..k : more[n] = files[n]
  BY <1>1, <1>2
<1>4. PICK a \in [0..k -> Nat] : CostTurns(a, files) /\ TotalCost(files) = a[k]
  BY <1>1, TotalTurns
<1>5. PICK b \in [0..(k + 1) -> Nat] : CostTurns(b, more) /\ TotalCost(more) = b[k + 1]
  BY <1>3, TotalTurns
<1>6. /\ a[0] = 0 /\ \A n \in 1..k : a[n] = a[n - 1] + Cost(files[n][2])
      /\ b[0] = 0 /\ \A n \in 1..(k + 1) : b[n] = b[n - 1] + Cost(more[n][2])
  BY <1>1, <1>3, <1>4, <1>5 DEF CostTurns
<1> DEFINE T == {n \in 0..k : b[n] = a[n]}
<1>7. 0 \in T
  BY <1>6
<1>8. ASSUME NEW n \in 1..k, n - 1 \in T PROVE n \in T
  <2>1. b[n - 1] = a[n - 1] /\ more[n] = files[n]
    BY <1>3, <1>8
  <2>2. a[n] = a[n - 1] + Cost(files[n][2]) /\ n \in 1..(k + 1)
    BY <1>6
  <2>3. b[n] = b[n - 1] + Cost(more[n][2])
    BY <1>6, <2>2
  <2> QED
    BY <2>1, <2>2, <2>3
<1>9. k \in T
  <2> HIDE DEF T
  <2>1. 0..k \subseteq T
    BY <1>7, <1>8, Climb
  <2> QED
    BY <2>1
<1>10. b[k + 1] = b[k] + Cost(x[2])
  <2>1. k + 1 \in 1..(k + 1) /\ (k + 1) - 1 = k
    OBVIOUS
  <2> QED
    BY <2>1, <1>3, <1>6
<1>11. a[k] \in Nat
  BY <1>4
<1> QED
  BY <1>2, <1>4, <1>5, <1>9, <1>10, <1>11

\* The file at the head.
LEMMA TotalHead ==
    ASSUME NEW files \in Seq(Names \X Nat), files # <<>>
    PROVE  /\ Head(files) \in Names \X Nat /\ Tail(files) \in Seq(Names \X Nat)
           /\ TotalCost(Tail(files)) \in Nat
           /\ TotalCost(files) = Cost(Head(files)[2]) + TotalCost(Tail(files))
<1>1. PICK x \in Names \X Nat : x = Head(files) /\ x = files[1]
  OBVIOUS
<1>2. PICK rest \in Seq(Names \X Nat) : rest = Tail(files)
  <2>1. \A S : files \in Seq(S) => Tail(files) \in Seq(S)
    OBVIOUS
  <2> QED
    BY <2>1
<1>3. PICK k \in Nat : k = Len(rest) /\ Len(files) = k + 1
  BY <1>2, SMTT(30)
<1>4. \A n \in 1..k : rest[n] = files[n + 1]
  BY <1>2, <1>3
<1>5. PICK a \in [0..k -> Nat] : CostTurns(a, rest) /\ TotalCost(rest) = a[k]
  BY <1>3, TotalTurns
<1>6. PICK b \in [0..(k + 1) -> Nat] : CostTurns(b, files) /\ TotalCost(files) = b[k + 1]
  BY <1>3, TotalTurns
<1>7. /\ a[0] = 0 /\ \A n \in 1..k : a[n] = a[n - 1] + Cost(rest[n][2])
      /\ b[0] = 0 /\ \A n \in 1..(k + 1) : b[n] = b[n - 1] + Cost(files[n][2])
  BY <1>3, <1>5, <1>6 DEF CostTurns
<1>8. PICK c \in Nat : c = Cost(x[2])
  <2>1. x[2] \in Nat
    OBVIOUS
  <2> QED
    BY <2>1, CostIs
<1> DEFINE T == {n \in 0..k : b[n + 1] = c + a[n]}
<1>9. 0 \in T
  <2>1. b[1] = b[1 - 1] + Cost(files[1][2])
    BY <1>7
  <2> QED
    BY <2>1, <1>1, <1>7, <1>8
<1>10. ASSUME NEW n \in 1..k, n - 1 \in T PROVE n \in T
  <2>1. PICK m \in 0..k : m = n - 1 /\ n = m + 1
    OBVIOUS
  <2>2. b[m + 1] = c + a[m]
    BY <2>1, <1>10
  <2>3. n + 1 \in 1..(k + 1) /\ (n + 1) - 1 = m + 1
    BY <2>1
  <2>4. b[n + 1] = b[m + 1] + Cost(files[n + 1][2])
    BY <2>3, <1>7
  <2>5. a[n] = a[m] + Cost(rest[n][2])
    BY <2>1, <1>7
  <2>6. PICK q \in Nat : q = Cost(rest[n][2])
    <3>1. rest[n] \in Names \X Nat
      BY <1>3
    <3>2. rest[n][2] \in Nat
      BY <3>1
    <3> QED
      BY <3>2, CostIs
  <2>7. a[m] \in Nat /\ rest[n] = files[n + 1]
    BY <1>4, <1>5
  <2>8. b[n + 1] = c + a[n]
    BY <2>2, <2>4, <2>5, <2>6, <2>7
  <2> QED
    BY <2>8
<1>11. k \in T
  <2> HIDE DEF T
  <2>1. 0..k \subseteq T
    BY <1>9, <1>10, Climb
  <2> QED
    BY <2>1
<1>12. a[k] \in Nat
  BY <1>5
<1> QED
  BY <1>1, <1>2, <1>5, <1>6, <1>8, <1>11, <1>12

-----------------------------------------------------------------------------
(* The steps of defragment.                                                *)

\* The struct inode of a file has its length, and an inode reaches it.
LEMMA SameLength ==
    ASSUME IInv, MapInodeIntact, NEW f \in Files
    PROVE  /\ LengthOf(f) = InodeOf(f).length /\ InodeOf(f).length \in Nat
           /\ Reached(InodeOf(f).length)
<1>1. Stores(free_map, disk, dir[f], InodeOf(f), DataAt(f)) /\ InodeOf(f) \in InodeType
  BY FileTypes DEF IInv, Sound, FileOK
<1>2. InodeOf(f).length \in Nat
  BY <1>1 DEF InodeType
<1>3. Extends(InodeOf(f), DataAt(f)) /\ Filled(disk, InodeOf(f), InodeOf(f).length)
  BY <1>1 DEF Stores
<1>4. LengthOf(f) = InodeOf(f).length
  BY <1>3 DEF Extends, LengthOf, DataAt
<1> QED
  BY <1>2, <1>3, <1>4 DEF Filled, Reached

\* rm gives back all that the file took.
LEMMA RoomFreed ==
    ASSUME IInv, MapInodeIntact, NEW f \in Files, filesys_remove(f)
    PROVE  Cardinality(Sectors \ free_map') = Cardinality(Sectors \ free_map) + Cost(InodeOf(f).length)
<1> DEFINE gone == {dir[f]} \cup inode_deallocate(disk, InodeOf(f))
           clear == Sectors \ free_map
<1>1. free_map' = free_map \ gone
  <2>1. f \notin file_table => DataAt(f) = InodeOf(f)
    BY OpenOnes DEF IInv
  <2> QED
    BY <2>1 DEF filesys_remove, free_map_release, DataAt, InodeOf
<1>2. gone \subseteq free_map /\ free_map \subseteq Sectors
  BY IInvMarked DEF OwnedIsMarked, Owned, TypeOK
<1>3. Cardinality(gone) = Cost(InodeOf(f).length)
  <2>1. NoSharedSector
    BY IInvApart
  <2>2. Cardinality(gone) = 1 + InodeOf(f).length + PointerCount(InodeOf(f).length)
    BY <2>1 DEF NoSharedSector
  <2> QED
    BY <2>2 DEF Cost
<1> HIDE DEF gone
<1>4. Sectors \ free_map' = clear \cup gone /\ clear \cap gone = {}
  BY <1>1, <1>2
<1>5. IsFiniteSet(clear) /\ IsFiniteSet(gone) /\ Cardinality(clear) \in Nat /\ Cardinality(gone) \in Nat
  <2>1. IsFiniteSet(Sectors)
    BY SizesAssumption, FS_Interval DEF Sectors
  <2> QED
    BY <2>1, <1>2, FS_Subset, FS_CardinalityType
<1> HIDE DEF clear
<1>6. Cardinality(clear \cup gone) = Cardinality(clear) + Cardinality(gone) - Cardinality(clear \cap gone)
  BY <1>5, FS_Union
<1>7. Cardinality(clear \cap gone) = 0
  BY <1>4, FS_EmptySet
<1>8. Cardinality(clear \cup gone) = Cardinality(clear) + Cardinality(gone)
  BY <1>5, <1>6, <1>7
<1> QED
  BY <1>3, <1>4, <1>8 DEF clear

\* A step keeps the invariant if defragment can go on.
LEMMA MiddleStep ==
    ASSUME ExtIInv, ~Recovered, NEW names, names \subseteq Names, Keeping(names),
           freed' = freed, ran' = ran, existing_files' \in Seq(Names \X Nat),
           writing' # <<>> => writing' \in Names \X Nat,
           phase' = "idle" => before' = <<>> /\ existing_files' = <<>>,
           MapInodeIntact' => Defragments' /\ DefragmentKeepsFiles'
    PROVE  ExtIInv'
<1>1. TableInodesLive'
  BY LiveKept DEF ExtIInv
<1>2. IInv' /\ Files' \subseteq Names
  BY DEF ExtIInv, Keeping
<1>3. DefragmentKeepsFiles'
  BY DEF DefragmentKeepsFiles
<1> QED
  BY <1>1, <1>2, <1>3 DEF ExtIInv

\* The same files in the same sectors.
LEMMA SameFiles ==
    ASSUME free_map' = free_map, dir' = dir, disk' = disk,
           existing_files' = existing_files, before' = before,
           Defragments, DefragmentKeepsFiles, MapInodeIntact, ~Recovered, ran' = ran,
           phase' # "restore" => writing' = <<>>,
           writing' = <<>> \/ (writing' = writing /\ open_inodes' = open_inodes)
    PROVE  Defragments' /\ DefragmentKeepsFiles'
<1>1. /\ Files' = Files /\ \A f \in Files : InodeOf(f)' = InodeOf(f)
      /\ open_inodes' = open_inodes => \A f \in Files : DataAt(f)' = DataAt(f)
  BY DEF Files, InodeOf, DataAt, DataOf
<1>2. before # <<>> => Restorable(existing_files)'
  BY <1>1 DEF Defragments, Restorable
<1>3. Defragments'
  BY <1>1, <1>2 DEF Defragments
<1>4. DefragmentKeepsFiles'
  BY <1>1 DEF DefragmentKeepsFiles
<1> QED
  BY <1>3, <1>4

\* What ExtIInv says while defragment runs.
LEMMA Middle ==
    ASSUME ExtIInv, ~Recovered
    PROVE  /\ IInv /\ TableInodesLive /\ Files \subseteq Names
           /\ existing_files \in Seq(Names \X Nat)
           /\ writing # <<>> => writing \in Names \X Nat
           /\ phase = "idle" => before = <<>> /\ existing_files = <<>>
           /\ MapInodeIntact => Defragments
           /\ DefragmentKeepsFiles
  BY DEF ExtIInv

\* defragment, up to its first loop.
LEMMA DefragmentStep == ASSUME ExtIInv, ~Recovered, defragment PROVE ExtIInv'
<1>1. /\ phase = "idle" /\ writing' = <<>> /\ existing_files' = existing_files
      /\ freed' = freed /\ ran' = ran /\ UNCHANGED vars
      /\ phase' = IF Listed = {} THEN "idle" ELSE "collect"
      /\ before' = IF Listed = {} THEN <<>> ELSE [f \in Files |-> LengthOf(f)]
  BY DEF defragment, Prompt
<1>2. IInv /\ existing_files' = <<>> /\ existing_files' \in Seq(Names \X Nat)
  BY <1>1, Middle
<1>3. Keeping({})
  BY <1>1, <1>2, StutterKeeping
<1>4. ASSUME MapInodeIntact' PROVE Defragments' /\ DefragmentKeepsFiles'
  <2>1. MapInodeIntact /\ Files' = Files /\ free_map' = free_map /\ \A f \in Files : InodeOf(f)' = InodeOf(f)
    BY <1>1, <1>4 DEF vars, MapInodeIntact, Files, InodeOf
  <2>2. TotalCost(existing_files') <= Cardinality(Sectors \ free_map')
    <3>1. PICK map : map = free_map'
      OBVIOUS
    <3>2. PICK c \in Nat : c = Cardinality(Sectors \ map)
      BY FreeSectors
    <3>3. TotalCost(existing_files') = 0
      BY <1>2, TotalEmpty
    <3> QED
      BY <3>1, <3>2, <3>3
  <2>3. Restorable(existing_files)'
    <3>1. DOMAIN existing_files' = {}
      BY <1>2
    <3>2. TotalCost(existing_files)' = TotalCost(existing_files')
      BY DEF TotalCost
    <3> QED
      BY <2>2, <3>1, <3>2 DEF Restorable
  <2>4. Defragments'
    BY <1>1, <2>3 DEF Defragments
  <2>5. DefragmentKeepsFiles'
    <3>1. CASE Listed = {}
      BY <3>1, <1>1 DEF DefragmentKeepsFiles
    <3>2. CASE Listed # {}
      <4>1. DOMAIN before' = Files /\ \A f \in Files : before'[f] = InodeOf(f).length
        BY <3>2, <1>1, <1>2, <2>1, SameLength
      <4>2. Range(existing_files') = {}
        BY <1>2 DEF Range
      <4>3. {<<f, InodeOf(f)'.length>> : f \in Files'} = {<<f, before'[f]>> : f \in DOMAIN before'}
        BY <4>1, <2>1
      <4> QED
        BY <4>2, <4>3 DEF DefragmentKeepsFiles, Range
    <3> QED
      BY <3>1, <3>2
  <2> QED
    BY <2>4, <2>5
<1>5. phase' = "idle" => before' = <<>>
  BY <1>1
<1> QED
  BY <1>1, <1>2, <1>3, <1>4, <1>5, MiddleStep

\* The list new is old, of k files, with x at its end.
AtEnd(k, old, new, x) ==
    /\ DOMAIN old = 1..k /\ DOMAIN new = 1..(k + 1)
    /\ new[k + 1] = x /\ \A i \in 1..k : new[i] = old[i]

\* The list old, one longer than new, starts with x and goes on with new.
AtHead(k, new, old, x) ==
    /\ DOMAIN old = 1..(k + 1) /\ DOMAIN new = 1..k
    /\ old[1] = x /\ \A i \in 1..k : new[i] = old[i + 1]

\* What a list holds when a file is put at its end.
LEMMA RangeAppended ==
    ASSUME NEW k \in Nat, NEW old, NEW new, NEW x, AtEnd(k, old, new, x)
    PROVE  Range(new) = Range(old) \cup {x}
<1> USE DEF AtEnd
<1>1. ASSUME NEW y \in Range(new) PROVE y \in Range(old) \cup {x}
  <2>1. PICK i \in 1..(k + 1) : y = new[i]
    BY DEF Range
  <2>2. i \in 1..k \/ i = k + 1
    OBVIOUS
  <2> QED
    BY <2>1, <2>2 DEF Range
<1>2. ASSUME NEW y \in Range(old) PROVE y \in Range(new)
  <2>1. PICK i \in 1..k : y = old[i]
    BY DEF Range
  <2>2. i \in 1..(k + 1) /\ y = new[i]
    BY <2>1
  <2> QED
    BY <2>2 DEF Range
<1>3. x \in Range(new)
  <2>1. k + 1 \in 1..(k + 1)
    OBVIOUS
  <2> QED
    BY <2>1 DEF Range
<1> QED
  BY <1>1, <1>2, <1>3

\* What a list holds behind its head.
LEMMA RangeTail ==
    ASSUME NEW k \in Nat, NEW old, NEW new, NEW x, AtHead(k, new, old, x)
    PROVE  Range(old) = Range(new) \cup {x}
<1> USE DEF AtHead
<1>1. ASSUME NEW y \in Range(old) PROVE y \in Range(new) \cup {x}
  <2>1. PICK i \in 1..(k + 1) : y = old[i]
    BY DEF Range
  <2>2. CASE i = 1
    BY <2>1, <2>2
  <2>3. CASE i # 1
    <3>1. PICK j \in 1..k : i = j + 1
      <4>1. i - 1 \in 1..k /\ i = (i - 1) + 1
        BY <2>3
      <4> QED
        BY <4>1
    <3>2. y = new[j]
      BY <2>1, <3>1
    <3> QED
      BY <3>2 DEF Range
  <2> QED
    BY <2>2, <2>3
<1>2. ASSUME NEW y \in Range(new) PROVE y \in Range(old)
  <2>1. PICK i \in 1..k : y = new[i]
    BY DEF Range
  <2>2. i + 1 \in 1..(k + 1) /\ y = old[i + 1]
    BY <2>1
  <2> QED
    BY <2>2 DEF Range
<1>3. x \in Range(old)
  <2>1. 1 \in 1..(k + 1)
    OBVIOUS
  <2> QED
    BY <2>1 DEF Range
<1> QED
  BY <1>1, <1>2, <1>3

\* A file is read and removed.
LEMMA CollectStep == ASSUME ExtIInv, ~Recovered, NEW f \in Files, Collect(f) PROVE ExtIInv'
<1>1. /\ phase = "collect" /\ phase' = phase /\ writing' = writing /\ before' = before
      /\ freed' = freed /\ ran' = ran /\ filesys_remove(f)
      /\ existing_files' = Append(existing_files, <<f, LengthOf(f)>>)
  BY DEF Collect
<1>2. /\ IInv /\ existing_files \in Seq(Names \X Nat) /\ f \in Names
      /\ writing' # <<>> => writing' \in Names \X Nat
      /\ MapInodeIntact => Defragments /\ DefragmentKeepsFiles
  BY <1>1, Middle
<1>3. /\ Keeping({}) /\ (MapInodeIntact' <=> MapInodeIntact)
      /\ Files' = Files \ {f} /\ \A g \in Files' : InodeOf(g)' = InodeOf(g)
  BY <1>1, <1>2, RemoveKeeping
<1>4. PICK x \in Names \X Nat : x = <<f, LengthOf(f)>>
  <2>1. LengthOf(f) \in Nat
    BY <1>2, FileTypes DEF IInv, LengthOf, DataAt, InodeType
  <2> QED
    BY <1>2, <2>1
<1>5. PICK old \in Seq(Names \X Nat) : old = existing_files
  BY <1>2
<1>6. PICK new : new = existing_files' /\ new = Append(old, x)
  BY <1>1, <1>4, <1>5
<1>7. PICK k \in Nat : k = Len(old)
  OBVIOUS
<1>8. /\ new \in Seq(Names \X Nat)
      /\ DOMAIN new = 1..(k + 1) /\ new[k + 1] = x
      /\ DOMAIN old = 1..k /\ \A i \in 1..k : new[i] = old[i]
  <2>1. \A S : old \in Seq(S) /\ x \in S =>
            /\ Append(old, x) \in Seq(S) /\ Len(Append(old, x)) = Len(old) + 1
            /\ DOMAIN Append(old, x) = 1..(Len(old) + 1) /\ DOMAIN old = 1..Len(old)
            /\ Append(old, x)[Len(old) + 1] = x /\ \A i \in 1..Len(old) : Append(old, x)[i] = old[i]
    OBVIOUS
  <2> QED
    BY <2>1, <1>6, <1>7
<1>9. ASSUME MapInodeIntact', before' # <<>> PROVE Defragments' /\ DefragmentKeepsFiles'
  <2>1. /\ MapInodeIntact /\ before # <<>> /\ DefragmentKeepsFiles
        /\ writing = <<>> /\ Restorable(old)
    BY <1>1, <1>2, <1>3, <1>5, <1>9 DEF Defragments
  <2>2. x[1] = f /\ x[2] = InodeOf(f).length /\ Reached(x[2]) /\ x = <<f, InodeOf(f).length>>
    BY <1>2, <1>4, <2>1, SameLength
  <2>3. \A i \in DOMAIN new : i \in 1..k \/ i = k + 1
    BY <1>8
  <2>4. \A i \in 1..k : new[i][1] \notin Files /\ Reached(new[i][2])
    BY <1>8, <2>1 DEF Restorable
  <2>5. \A i \in DOMAIN new : new[i][1] \notin Files' /\ Reached(new[i][2])
    BY <1>3, <1>8, <2>2, <2>3, <2>4
  <2>6. \A i, j \in DOMAIN new : new[i][1] = new[j][1] => i = j
    <3>1. \A i, j \in 1..k : new[i][1] = new[j][1] => i = j
      BY <1>8, <2>1 DEF Restorable
    <3>2. \A i \in 1..k : new[i][1] # new[k + 1][1]
      BY <1>8, <2>2, <2>4
    <3> QED
      BY <2>3, <3>1, <3>2
  <2>7. TotalCost(new) <= Cardinality(Sectors \ free_map')
    <3>1. PICK a \in Nat : a = TotalCost(old) /\ TotalCost(new) = a + Cost(x[2])
      BY <1>6, TotalAppend
    <3>2. Cardinality(Sectors \ free_map') = Cardinality(Sectors \ free_map) + Cost(x[2])
      BY <1>1, <1>2, <2>1, <2>2, RoomFreed
    <3>3. PICK c \in Nat : c = Cardinality(Sectors \ free_map) /\ a <= c
      BY <2>1, <3>1, FreeSectors DEF Restorable
    <3>4. PICK q \in Nat : q = Cost(x[2])
      <4>1. x[2] \in Nat
        OBVIOUS
      <4> QED
        BY <4>1, CostIs
    <3> QED
      BY <3>1, <3>2, <3>3, <3>4
  <2>8. Restorable(existing_files)'
    <3>1. TotalCost(existing_files)' = TotalCost(new)
      BY <1>6 DEF TotalCost
    <3> QED
      BY <1>6, <2>5, <2>6, <2>7, <3>1 DEF Restorable
  <2>9. Defragments'
    BY <1>1, <2>1, <2>8 DEF Defragments
  <2>10. Range(new) = Range(old) \cup {x}
    <3>1. AtEnd(k, old, new, x)
      BY <1>8 DEF AtEnd
    <3> QED
      BY <3>1, RangeAppended
  <2>11. {<<g, InodeOf(g).length>> : g \in Files} \cup Range(old) = {<<g, before[g]>> : g \in DOMAIN before}
    BY <2>1, <1>5 DEF DefragmentKeepsFiles
  <2>12. {<<g, InodeOf(g).length>> : g \in Files}
           = {<<g, InodeOf(g)'.length>> : g \in Files'} \cup {x}
    BY <1>3, <2>2
  <2>13. DefragmentKeepsFiles'
    <3>1. {<<g, InodeOf(g)'.length>> : g \in Files'} \cup Range(new) = {<<g, before[g]>> : g \in DOMAIN before}
      BY <2>10, <2>11, <2>12
    <3> QED
      BY <3>1, <1>1, <1>6 DEF DefragmentKeepsFiles, Range
  <2> QED
    BY <2>9, <2>13
<1>10. MapInodeIntact' => Defragments' /\ DefragmentKeepsFiles'
  BY <1>9 DEF Defragments, DefragmentKeepsFiles
<1>11. existing_files' \in Seq(Names \X Nat) /\ phase' # "idle"
  BY <1>1, <1>6, <1>8
<1> QED
  BY <1>1, <1>2, <1>3, <1>10, <1>11, MiddleStep

\* A command, or defragment's rm, on freed memory.
LEMMA UseFreedStep == ASSUME ExtIInv, ~Recovered, UseFreed PROVE ExtIInv'
<1>1. /\ phase' = "ub" /\ UNCHANGED vars /\ freed' = freed /\ ran' = ran
      /\ existing_files' = existing_files /\ writing' = writing /\ before' = before
      /\ phase = "collect" \/ (phase = "idle" /\ writing = <<>>)
  BY DEF UseFreed, Prompt
<1>2. IInv
  BY Middle
<1>3. Keeping({})
  BY <1>1, <1>2, StutterKeeping
<1>4. ASSUME MapInodeIntact' PROVE Defragments' /\ DefragmentKeepsFiles'
  <2>1. MapInodeIntact /\ Defragments /\ DefragmentKeepsFiles
    BY <1>1, <1>4, Middle DEF vars, MapInodeIntact
  <2>2. before # <<>> => writing = <<>>
    BY <2>1, <1>1 DEF Defragments
  <2>3. CASE before = <<>>
    BY <2>3, <1>1 DEF Defragments, DefragmentKeepsFiles
  <2>4. CASE before # <<>>
    <3>1. free_map' = free_map /\ dir' = dir /\ disk' = disk
      BY <1>1 DEF vars
    <3> QED
      BY <2>1, <2>2, <2>4, <3>1, <1>1, SameFiles
  <2> QED
    BY <2>3, <2>4
<1>5. phase' # "idle"
  BY <1>1
<1> QED
  BY <1>1, <1>3, <1>4, <1>5, Middle, MiddleStep

\* All files are removed.
LEMMA CollectedStep == ASSUME ExtIInv, ~Recovered, Collected PROVE ExtIInv'
<1>1. /\ phase' = "restore" /\ UNCHANGED vars /\ freed' = freed /\ ran' = ran
      /\ existing_files' = existing_files /\ writing' = writing /\ before' = before
  BY DEF Collected
<1>2. IInv
  BY Middle
<1>3. Keeping({})
  BY <1>1, <1>2, StutterKeeping
<1>4. ASSUME MapInodeIntact' PROVE Defragments' /\ DefragmentKeepsFiles'
  <2>1. MapInodeIntact /\ Defragments /\ DefragmentKeepsFiles
    BY <1>1, <1>4, Middle DEF vars, MapInodeIntact
  <2>2. free_map' = free_map /\ dir' = dir /\ disk' = disk /\ open_inodes' = open_inodes
    BY <1>1 DEF vars
  <2> QED
    BY <2>1, <2>2, <1>1, SameFiles
<1>5. phase' # "idle"
  BY <1>1
<1> QED
  BY <1>1, <1>3, <1>4, <1>5, Middle, MiddleStep

\* All files are back.
LEMMA ReturnsStep == ASSUME ExtIInv, ~Recovered, DefragmentReturns PROVE ExtIInv'
<1>1. /\ before' = <<>> /\ UNCHANGED vars /\ freed' = freed /\ ran' = ran
      /\ existing_files' = <<>> /\ writing' = <<>> /\ existing_files' = existing_files
  BY DEF DefragmentReturns, Restored
<1>2. IInv
  BY Middle
<1>3. Keeping({})
  BY <1>1, <1>2, StutterKeeping
<1>4. Defragments' /\ DefragmentKeepsFiles'
  BY <1>1 DEF Defragments, DefragmentKeepsFiles
<1> QED
  BY <1>1, <1>3, <1>4, Middle, MiddleStep

\* fsutil_write after fsutil_create: in defragment the file is there, and so is
\* no stale struct inode, so it is not extended.
LEMMA WriteStep == ASSUME ExtIInv, ~Recovered, fsutil_write PROVE ExtIInv'
<1> DEFINE f == writing[1]
           size == writing[2]
<1>1. /\ writing # <<>> /\ writing' = <<>> /\ freed' = freed /\ ran' = ran
      /\ phase' = phase /\ existing_files' = existing_files /\ before' = before
  BY DEF fsutil_write
<1>2. IInv /\ f \in Names /\ size \in Nat
  BY <1>1, Middle
<1> HIDE DEF f, size
<1>3. CASE f \in Files /\ DataOf(dir[f]) # InodeOf(f) /\ inode_write_at(f, size)
  <2>1. Keeping({})
    BY <1>2, <1>3, WriteKeeping
  <2>2. ASSUME MapInodeIntact' PROVE before = <<>>
    <3>1. MapInodeIntact
      BY <2>1, <2>2 DEF Keeping
    <3>2. ASSUME before # <<>> PROVE FALSE
      <4>1. DataAt(f) = InodeOf(f)
        BY <3>1, <3>2, <1>1, Middle DEF Defragments, f
      <4> QED
        BY <4>1, <1>3 DEF DataAt
    <3> QED
      BY <3>2
  <2>3. MapInodeIntact' => Defragments' /\ DefragmentKeepsFiles'
    BY <2>2, <1>1 DEF Defragments, DefragmentKeepsFiles
  <2> QED
    BY <1>1, <2>1, <2>3, Middle, MiddleStep
<1>4. CASE ~(f \in Files /\ DataOf(dir[f]) # InodeOf(f) /\ inode_write_at(f, size))
  <2>1. /\ open_inodes' = Opened(SectorsOf({f} \cap Files))
        /\ file_table' = file_table \cup ({f} \cap Files)
        /\ UNCHANGED <<free_map, map_file, disk, dir, failed>>
    BY <1>4 DEF fsutil_write, f, size
  <2>2. Keeping({})
    <3>1. PICK files : files = {f} \cap Files /\ files \subseteq Files
      OBVIOUS
    <3> QED
      BY <3>1, <2>1, <1>2, OpensKeeping
  <2>3. ASSUME MapInodeIntact' PROVE Defragments' /\ DefragmentKeepsFiles'
    <3>1. MapInodeIntact /\ Defragments /\ DefragmentKeepsFiles
      BY <2>1, <2>3, Middle DEF MapInodeIntact
    <3> QED
      BY <3>1, <2>1, <1>1, SameFiles
  <2> QED
    BY <1>1, <2>2, <2>3, Middle, MiddleStep
<1> QED
  BY <1>3, <1>4

\* A file is created again.
LEMMA RestoreStep ==
    ASSUME ExtIInv, ~Recovered, Restore
    PROVE  ExtIInv' /\ (MapInodeIntact' => MapInodeIntact)
<1>1. PICK old \in Seq(Names \X Nat) : old = existing_files /\ old # <<>>
  BY Middle DEF Restore
<1>2. PICK x \in Names \X Nat : x = Head(old)
  BY <1>1, TotalHead
<1>3. PICK new \in Seq(Names \X Nat) : new = Tail(old) /\ TotalCost(new) \in Nat
  BY <1>1, TotalHead
<1>4. PICK f \in Names : f = x[1]
  OBVIOUS
<1>5. PICK num \in Nat : num = x[2] /\ x = <<f, num>>
  BY <1>4
<1>6. /\ phase = "restore" /\ phase' = phase /\ writing = <<>> /\ writing' = x
      /\ existing_files' = new /\ before' = before /\ freed' = freed /\ ran' = ran
      /\ Created(f, num) /\ open_inodes' = open_inodes /\ file_table' = file_table
  BY <1>1, <1>2, <1>3, <1>4, <1>5 DEF Restore
<1>7. IInv
  BY Middle
<1>8. Keeping({f}) /\ Adds(f, num) /\ (MapInodeIntact' => MapInodeIntact)
  BY <1>6, <1>7, CreateKeeping, CreateIInv
<1>9. PICK k \in Nat : k = Len(new)
  OBVIOUS
<1>10. /\ DOMAIN old = 1..(k + 1) /\ old[1] = x
       /\ DOMAIN new = 1..k /\ \A i \in 1..k : new[i] = old[i + 1]
  <2>1. Len(old) = k + 1
    BY <1>1, <1>3, <1>9
  <2> QED
    BY <2>1, <1>1, <1>2, <1>3, <1>9
<1>11. ASSUME MapInodeIntact', before' # <<>> PROVE Defragments' /\ DefragmentKeepsFiles'
  <2>1. MapInodeIntact /\ before # <<>> /\ DefragmentKeepsFiles /\ Restorable(old)
    BY <1>1, <1>6, <1>8, <1>11, Middle DEF Defragments
  <2>2. 1 \in DOMAIN old /\ \A i \in 1..k : i + 1 \in DOMAIN old /\ i + 1 # 1
    BY <1>10
  <2>3. f \notin Files /\ Reached(num)
    BY <2>1, <2>2, <1>4, <1>5, <1>10 DEF Restorable
  <2>4. f \in Files' /\ TotalCost(new) <= Cardinality(Sectors \ free_map')
    <3>1. PICK n \in Nat : n = TotalCost(new)
      BY <1>3
    <3>2. TotalCost(old) = Cost(num) + n
      BY <1>1, <1>2, <1>3, <1>5, <3>1, TotalHead
    <3>3. Cost(num) + n <= Cardinality(Sectors \ free_map)
      BY <2>1, <3>2 DEF Restorable
    <3>4. System \subseteq free_map
      BY <1>7, <2>1 DEF IInv, Sound
    <3> QED
      BY <3>1, <3>3, <3>4, <2>3, <1>6, <1>7, CreatedFits
  <2>5. /\ Files' = Files \cup {f} /\ InodeOf(f)'.length = num
        /\ \A g \in Files : InodeOf(g)' = InodeOf(g)
    BY <2>3, <2>4, <1>8, <1>11 DEF Adds
  <2>6. \A i \in 1..k : new[i][1] \notin Files' /\ Reached(new[i][2])
    <3>1. \A i \in 1..k : new[i][1] \notin Files /\ Reached(new[i][2])
      BY <2>1, <2>2, <1>10 DEF Restorable
    <3>2. \A i \in 1..k : new[i][1] # f
      BY <2>1, <2>2, <1>4, <1>10 DEF Restorable
    <3> QED
      BY <3>1, <3>2, <2>5
  <2>7. \A i, j \in 1..k : new[i][1] = new[j][1] => i = j
    <3> SUFFICES ASSUME NEW i \in 1..k, NEW j \in 1..k, new[i][1] = new[j][1] PROVE i = j
      OBVIOUS
    <3>1. PICK a : a = i + 1 /\ a \in DOMAIN old /\ old[a] = new[i]
      BY <2>2, <1>10
    <3>2. PICK b : b = j + 1 /\ b \in DOMAIN old /\ old[b] = new[j]
      BY <2>2, <1>10
    <3>3. a = b
      BY <2>1, <3>1, <3>2 DEF Restorable
    <3> QED
      BY <3>1, <3>2, <3>3
  <2>8. Restorable(existing_files)'
    <3>1. TotalCost(existing_files)' = TotalCost(new)
      BY <1>6 DEF TotalCost
    <3> QED
      BY <1>6, <1>10, <2>4, <2>6, <2>7, <3>1 DEF Restorable
  <2>9. Defragments'
    <3>1. writing'[1] = f /\ writing'[2] = num
      BY <1>4, <1>5, <1>6
    <3>2. DataAt(f)' = InodeOf(f)'
      <4>1. f \notin file_table'
        BY <2>3, <1>6, <1>7 DEF IInv, Typed
      <4>2. Sound'
        BY <1>8, <1>11 DEF Keeping, IInv
      <4> QED
        BY <4>1, <4>2, <2>4 DEF Sound
    <3> QED
      BY <3>1, <3>2, <1>6, <2>4, <2>5, <2>8 DEF Defragments
  <2>10. Range(old) = Range(new) \cup {x}
    <3>1. AtHead(k, new, old, x)
      BY <1>10 DEF AtHead
    <3> QED
      BY <3>1, RangeTail
  <2>11. {<<g, InodeOf(g).length>> : g \in Files} \cup Range(old) = {<<g, before[g]>> : g \in DOMAIN before}
    BY <2>1, <1>1 DEF DefragmentKeepsFiles
  <2>12. {<<g, InodeOf(g)'.length>> : g \in Files'}
           = {<<g, InodeOf(g).length>> : g \in Files} \cup {x}
    BY <2>5, <1>5
  <2>13. DefragmentKeepsFiles'
    <3>1. {<<g, InodeOf(g)'.length>> : g \in Files'} \cup Range(new) = {<<g, before[g]>> : g \in DOMAIN before}
      BY <2>10, <2>11, <2>12
    <3> QED
      BY <3>1, <1>6 DEF DefragmentKeepsFiles, Range
  <2> QED
    BY <2>9, <2>13
<1>12. MapInodeIntact' => Defragments' /\ DefragmentKeepsFiles'
  BY <1>11 DEF Defragments, DefragmentKeepsFiles
<1> QED
  BY <1>6, <1>8, <1>12, MiddleStep

-----------------------------------------------------------------------------
(* The inductive invariant of the specification.                           *)

\* do_format.
LEMMA InitExtIInv == ExtInit => ExtIInv
<1> SUFFICES ASSUME ExtInit PROVE ExtIInv
  OBVIOUS
<1>1. IInv
  BY InitIInv DEF ExtInit
<1>2. Files = {} /\ file_table = {}
  BY DEF ExtInit, Init, Files
<1>3. before = <<>> /\ existing_files = <<>> /\ writing = <<>> /\ freed = {} /\ existing_files \in Seq(Names \X Nat)
  BY DEF ExtInit
<1>4. Defragments /\ DefragmentKeepsFiles /\ TableInodesLive
  BY <1>2, <1>3 DEF Defragments, DefragmentKeepsFiles, TableInodesLive, SectorsOf
<1> QED
  BY <1>1, <1>2, <1>3, <1>4 DEF ExtIInv

\* What recover has done to struct inodes and the free map stays done.
LEMMA RecoveredStays == ASSUME [ExtNext]_allvars, Recovered PROVE Recovered'
<1>1. ran \subseteq ran' \/ ran' = ran \cap {"recover_0", "recover_1"}
  <2>1. CASE Call \/ ExtRestart \/ find_file \/ fragmentation_degree \/ fsutil_write \/ defragment
    BY <2>1 DEF Call, ExtRestart, find_file, fragmentation_degree, fsutil_write, defragment
  <2>2. CASE Defragmenting
    BY <2>2 DEF Defragmenting, Collect, UseFreed, Collected, Restore, DefragmentReturns
  <2>3. CASE recover_0 \/ recover_1 \/ recover_2
    BY <2>3 DEF recover_0, recover_1, recover_2
  <2>4. ASSUME NEW f, fsutil_rm(f) \/ fsutil_cat(f) \/ copy_out(f) PROVE ran' = ran
    BY <2>4 DEF fsutil_rm, fsutil_cat, copy_out
  <2>5. ASSUME NEW f, NEW bufsize, copy_in(f, bufsize) PROVE ran' = ran
    BY <2>5 DEF copy_in
  <2>6. CASE UNCHANGED allvars
    BY <2>6 DEF allvars, extra
  <2> QED
    BY <2>1, <2>2, <2>3, <2>4, <2>5, <2>6 DEF ExtNext
<1> QED
  BY <1>1 DEF Recovered

\* A step that changes nothing.
LEMMA StutterStep == ASSUME ExtIInv, ~Recovered, UNCHANGED allvars PROVE ExtIInv'
<1>1. /\ phase' = phase /\ freed' = freed /\ ran' = ran /\ UNCHANGED vars
      /\ existing_files' = existing_files /\ writing' = writing /\ before' = before
  BY DEF allvars, extra
<1>2. IInv
  BY Middle
<1>3. Keeping({})
  BY <1>1, <1>2, StutterKeeping
<1>4. ASSUME MapInodeIntact' PROVE Defragments' /\ DefragmentKeepsFiles'
  <2>1. MapInodeIntact /\ Defragments /\ DefragmentKeepsFiles
    BY <1>1, <1>4, Middle DEF vars, MapInodeIntact
  <2>2. CASE before = <<>>
    BY <2>2, <1>1 DEF Defragments, DefragmentKeepsFiles
  <2>3. CASE before # <<>>
    <3>1. free_map' = free_map /\ dir' = dir /\ disk' = disk /\ open_inodes' = open_inodes
      BY <1>1 DEF vars
    <3>2. phase # "restore" => writing = <<>>
      BY <2>1, <2>3 DEF Defragments
    <3> QED
      BY <2>1, <3>1, <3>2, <1>1, SameFiles
  <2> QED
    BY <2>2, <2>3
<1> QED
  BY <1>1, <1>3, <1>4, Middle, MiddleStep

\* Every step keeps the invariant.
LEMMA NextExtIInv == ExtIInv /\ [ExtNext]_allvars => ExtIInv'
<1> SUFFICES ASSUME ExtIInv, [ExtNext]_allvars, ~Recovered' PROVE ExtIInv'
  BY DEF ExtIInv
<1>1. ~Recovered
  BY RecoveredStays
<1>2. CASE Call \/ ExtRestart
  BY <1>1, <1>2, CallStep, RestartStep
<1>3. ASSUME NEW f, fsutil_rm(f) PROVE ExtIInv'
  BY <1>1, <1>3, RmStep
<1>4. ASSUME NEW f, fsutil_cat(f) \/ copy_out(f) PROVE ExtIInv'
  BY <1>1, <1>4, CatStep, CopyOutStep
<1>5. CASE find_file \/ fragmentation_degree
  BY <1>1, <1>5, FindFileStep, DegreeStep
<1>6. ASSUME NEW f \in Names, NEW bufsize \in CopySizes, copy_in(f, bufsize) PROVE ExtIInv'
  BY <1>1, <1>6, CopyInStep
<1>7. CASE fsutil_write
  BY <1>1, <1>7, WriteStep
<1>8. CASE defragment
  BY <1>1, <1>8, DefragmentStep
<1>9. CASE Defragmenting
  <2>1. ASSUME NEW f \in Files, Collect(f) PROVE ExtIInv'
    BY <1>1, <2>1, CollectStep
  <2> QED
    BY <1>1, <1>9, <2>1, UseFreedStep, CollectedStep, RestoreStep, ReturnsStep DEF Defragmenting
<1>10. CASE recover_0 \/ recover_1
  <2>1. "recover_0" \in ran' \/ "recover_1" \in ran'
    BY <1>10 DEF recover_0, recover_1
  <2> QED
    BY <2>1 DEF Recovered
<1>11. CASE recover_2
  BY <1>1, <1>11, Recover2Step
<1>12. CASE UNCHANGED allvars
  BY <1>1, <1>12, StutterStep
<1> QED
  BY <1>2, <1>3, <1>4, <1>5, <1>6, <1>7, <1>8, <1>9, <1>10, <1>11, <1>12 DEF ExtNext

\* As long as recover has not run, the commands of fsutil2.c keep InodeAlloc's
\* invariant, and defragment always has room for the files it has removed.
THEOREM ExtInvariance == ExtSpec => []ExtIInv
<1> QED
  BY InitExtIInv, NextExtIInv, PTL DEF ExtSpec

\* find_file aside, no command frees the struct inode of an open file.
THEOREM OpenFilesKeepInodes == ExtSpec => []TableInodesLive
<1>1. ExtIInv => TableInodesLive
  BY DEF ExtIInv, TableInodesLive, Recovered
<1> QED
  BY <1>1, ExtInvariance, PTL

\* The struct inodes left open hold what is on the disk.
THEOREM InodesCurrent == ExtSpec => []OpenInodeCurrent
<1>1. ExtIInv => OpenInodeCurrent
  <2> SUFFICES ASSUME ExtIInv, MapInodeIntact, ~Recovered, "write" \notin failed, NEW s \in DOMAIN open_inodes
               PROVE  open_inodes[s] = disk[s].inode
    BY DEF OpenInodeCurrent
  <2>1. Sound
    BY DEF ExtIInv, IInv
  <2>2. PICK f \in Files : s = dir[f]
    BY <2>1 DEF Sound
  <2>3. DataAt(f) = InodeOf(f)
    BY <2>1 DEF Sound
  <2> QED
    BY <2>2, <2>3 DEF DataAt, DataOf, InodeOf
<1> QED
  BY <1>1, ExtInvariance, PTL

\* Files share no sector, own only marked ones, and lose none, under the
\* commands of fsutil2.c too.
THEOREM FilesAlwaysApart == ExtSpec => []FilesStayApart
<1>1. ExtIInv => FilesStayApart
  BY IInvApart, IInvMarked, IInvExact DEF ExtIInv, FilesStayApart
<1> QED
  BY <1>1, ExtInvariance, PTL

\* defragment loses no file and changes no length, however full the disk is.
THEOREM DefragmentKeepsAll == ExtSpec => []DefragmentKeepsFiles
<1>1. ExtIInv => DefragmentKeepsFiles
  BY DEF ExtIInv, DefragmentKeepsFiles
<1> QED
  BY <1>1, ExtInvariance, PTL

-----------------------------------------------------------------------------
(* copy_in creates what it says will fit.                                  *)

\* A file that is not longer than the largest is reached.
LEMMA ReachedUpTo ==
    ASSUME NEW num \in Nat,
           num <= DIRECT_BLOCKS_COUNT + INDIRECT_BLOCKS_PER_SECTOR
                  + INDIRECT_BLOCKS_PER_SECTOR * INDIRECT_BLOCKS_PER_SECTOR
    PROVE  Reached(num)
<1>1. PICK D \in Nat : D = DIRECT_BLOCKS_COUNT
  BY SizesAssumption
<1>2. PICK I \in Nat : I = INDIRECT_BLOCKS_PER_SECTOR
  BY SizesAssumption
<1>3. PICK Q \in Nat : Q = I * I
  BY Times
<1>4. num <= D + I + Q
  BY <1>1, <1>2, <1>3
<1>5. PICK a \in Nat : a = InDirect(num) /\ a = IF num < D THEN num ELSE D
  BY <1>1 DEF InDirect, Smaller
<1>6. PICK r \in Nat : r = num - a
  BY <1>5
<1>7. PICK b \in Nat : b = InIndirect(num) /\ b = IF r < I THEN r ELSE I
  BY <1>2, <1>5, <1>6 DEF InIndirect, Smaller
<1>8. PICK q \in Nat : q = r - b
  <2>1. b <= r
    BY <1>7
  <2>2. r - b \in Nat
    BY <2>1
  <2> QED
    BY <2>2
<1>9. InDoubly(num) = IF q < Q THEN q ELSE Q
  BY <1>2, <1>3, <1>5, <1>6, <1>7, <1>8 DEF InDoubly, Smaller
<1>10. q <= Q
  BY <1>4, <1>5, <1>6, <1>7, <1>8
<1>11. num = a + b + q
  BY <1>5, <1>6, <1>7, <1>8
<1>12. InDoubly(num) = q
  BY <1>9, <1>10
<1> QED
  BY <1>5, <1>7, <1>11, <1>12 DEF Reached

\* The system's sectors are not free.
LEMMA FreeAtMost ==
    ASSUME NEW map, System \subseteq map
    PROVE  Cardinality(Sectors \ map) <= NumSectors - 4
<1>1. PICK N \in Nat : N = NumSectors /\ N >= 4
  BY SizesAssumption
<1>2. Sectors \ map \subseteq 4..(N - 1)
  BY <1>1 DEF Sectors, System
<1>3. IsFiniteSet(4..(N - 1)) /\ Cardinality(4..(N - 1)) = N - 4
  BY <1>1, FS_Interval
<1>4. Cardinality(Sectors \ map) <= Cardinality(4..(N - 1))
  BY <1>2, <1>3, FS_Subset
<1> QED
  BY <1>1, <1>3, <1>4

\* copy_in on a disk that the largest file could fill.
LEMMA CopyInNext ==
    ASSUME NumSectors - 8 <= DIRECT_BLOCKS_COUNT + INDIRECT_BLOCKS_PER_SECTOR
                             + INDIRECT_BLOCKS_PER_SECTOR * INDIRECT_BLOCKS_PER_SECTOR,
           ExtIInv, ~Recovered, NEW f \in Names, NEW bufsize \in CopySizes, copy_in(f, bufsize)
    PROVE  CopyInCreates'
<1>1. PICK c \in Nat :
        /\ c = Cardinality(Sectors \ free_map) /\ c >= 1
        /\ Created(f, WriteBlocks(bufsize, c))
        /\ last' = [cmd |-> "copy_in", bufsize |-> bufsize, free_space |-> c * BLOCK_SECTOR_SIZE,
                    new |-> f \notin Files, success |-> f \in Files' \ Files]
  BY CopyInStep
<1> DEFINE fits == FitsWhole(bufsize, c * BLOCK_SECTOR_SIZE) \/ bufsize >= c * BLOCK_SECTOR_SIZE
<1>2. PICK num \in Nat : num = WriteBlocks(bufsize, c) /\ (fits => num + Overhead(num) <= c)
  <2>1. bufsize \in Nat
    BY CopyAssumption
  <2> QED
    BY <2>1, <1>1, WriteSize
<1> HIDE DEF fits
<1>3. ASSUME MapInodeIntact', f \notin Files, fits PROVE f \in Files'
  <2>1. IInv /\ open_inodes' = open_inodes /\ file_table' = file_table
    BY Middle DEF copy_in
  <2>2. MapInodeIntact
    BY <2>1, <1>1, <1>2, <1>3, CreateIInv
  <2>3. System \subseteq free_map
    BY <2>1, <2>2 DEF IInv, Sound
  <2>4. c <= NumSectors - 4
    BY <2>3, <1>1, FreeAtMost
  <2>5. PICK o \in Nat : o = Overhead(num) /\ num + o <= c
    BY <1>2, <1>3, CostIs
  <2>6. Reached(num)
    <3>1. PICK D \in Nat : D = DIRECT_BLOCKS_COUNT
      BY SizesAssumption
    <3>2. PICK I \in Nat : I = INDIRECT_BLOCKS_PER_SECTOR /\ I > 0
      BY SizesAssumption
    <3>3. PICK Q \in Nat : Q = I * I
      BY Times
    <3>4. PICK N \in Nat : N = NumSectors
      BY SizesAssumption
    <3>5. N - 8 <= D + I + Q /\ c <= N - 4
      BY <2>4, <3>1, <3>2, <3>3, <3>4
    <3>6. num > D + I => o >= 4
      <4>1. ASSUME num > D + I PROVE o >= 4
        <5>1. o = 3 + DivRoundUp(num - (D + I), I)
          <6>1. ~(num <= D) /\ ~(num <= D + I)
            BY <4>1
          <6> QED
            BY <6>1, <2>5, <3>1, <3>2 DEF Overhead
        <5>2. PICK m \in Nat : m = num - (D + I) /\ m > 0
          BY <4>1
        <5>3. DivRoundUp(m, I) \in Nat /\ \A k \in Nat : m <= k * I <=> DivRoundUp(m, I) <= k
          BY <3>2, Within
        <5>4. ~(m <= 0 * I)
          BY <5>2
        <5>5. ~(DivRoundUp(m, I) <= 0)
          BY <5>3, <5>4
        <5> QED
          BY <5>1, <5>2, <5>3, <5>5
      <4> QED
        BY <4>1
    <3>7. num <= D + I + Q
      BY <2>5, <3>5, <3>6
    <3> QED
      BY <3>1, <3>2, <3>3, <3>7, ReachedUpTo
  <2>7. Cost(num) + 0 <= Cardinality(Sectors \ free_map)
    <3>1. Cost(num) = num + o
      BY <2>5, <2>6, CostIs
    <3> QED
      BY <3>1, <2>5, <1>1
  <2> QED
    BY <1>1, <1>2, <1>3, <2>1, <2>3, <2>6, <2>7, CreatedFits
<1>4. /\ last'.bufsize = bufsize /\ last'.free_space = c * BLOCK_SECTOR_SIZE
      /\ last'.new = (f \notin Files) /\ last'.success = (f \in Files' \ Files)
  BY <1>1
<1>5. FitsWhole(last.bufsize, last.free_space)' <=> FitsWhole(bufsize, c * BLOCK_SECTOR_SIZE)
  BY <1>4 DEF FitsWhole
<1> QED
  BY <1>3, <1>4, <1>5, Zenon DEF CopyInCreates, fits

\* A new file that fits with its overhead, or that copy_in cuts to what is
\* left beside it, is created, on every disk that one file could fill.
THEOREM CopyInAlwaysCreates ==
    ASSUME NumSectors - 8 <= DIRECT_BLOCKS_COUNT + INDIRECT_BLOCKS_PER_SECTOR
                             + INDIRECT_BLOCKS_PER_SECTOR * INDIRECT_BLOCKS_PER_SECTOR
    PROVE  ExtSpec => []CopyInCreates
<1>1. ExtInit => CopyInCreates
  BY DEF ExtInit, NoCommand, CopyInCreates
<1>2. ExtIInv /\ CopyInCreates /\ [ExtNext]_allvars => CopyInCreates'
  <2> SUFFICES ASSUME ExtIInv, CopyInCreates, [ExtNext]_allvars, ~Recovered' PROVE CopyInCreates'
    BY DEF CopyInCreates
  <2>1. ~Recovered
    BY RecoveredStays
  <2>2. ASSUME last'.cmd # "copy_in" PROVE CopyInCreates'
    BY <2>2 DEF CopyInCreates
  <2>3. NoCommand.cmd # "copy_in"
    BY DEF NoCommand
  <2>4. ASSUME last' = last, MapInodeIntact' => MapInodeIntact PROVE CopyInCreates'
    BY <2>1, <2>4 DEF CopyInCreates, FitsWhole
  <2>5. CASE Call \/ ExtRestart \/ find_file \/ fragmentation_degree \/ fsutil_write \/ defragment
    <3>1. last' = NoCommand
      BY <2>5 DEF Call, ExtRestart, find_file, fragmentation_degree, ReadOnly, fsutil_write, defragment
    <3> QED
      BY <3>1, <2>2, <2>3
  <2>6. CASE recover_0 \/ recover_1 \/ recover_2
    <3>1. last' = NoCommand
      BY <2>6 DEF recover_0, recover_1, recover_2, ReadOnly
    <3> QED
      BY <3>1, <2>2, <2>3
  <2>7. ASSUME NEW f, fsutil_rm(f) PROVE CopyInCreates'
    <3>1. last' = NoCommand \/ last' = [cmd |-> "rm", sector |-> dir[f]]
      BY <2>7 DEF fsutil_rm
    <3>2. last'.cmd # "copy_in"
      BY <3>1, <2>3
    <3> QED
      BY <3>2, <2>2
  <2>8. ASSUME NEW f, fsutil_cat(f) \/ copy_out(f) PROVE CopyInCreates'
    <3>1. last' = NoCommand
      BY <2>8 DEF fsutil_cat, copy_out, ReadOnly
    <3> QED
      BY <3>1, <2>2, <2>3
  <2>9. ASSUME NEW f \in Names, NEW bufsize \in CopySizes, copy_in(f, bufsize) PROVE CopyInCreates'
    BY <2>1, <2>9, CopyInNext
  <2>10. CASE UseFreed \/ Collected \/ DefragmentReturns \/ UNCHANGED allvars
    <3>1. last' = last /\ disk' = disk
      BY <2>10 DEF UseFreed, Collected, DefragmentReturns, allvars, extra, vars
    <3> QED
      BY <3>1, <2>4 DEF MapInodeIntact
  <2>11. ASSUME NEW f \in Files, Collect(f) PROVE CopyInCreates'
    <3>1. last' = last /\ disk' = disk
      BY <2>11 DEF Collect, filesys_remove
    <3> QED
      BY <3>1, <2>4 DEF MapInodeIntact
  <2>12. CASE Restore
    <3>1. last' = last
      BY <2>12 DEF Restore
    <3> QED
      BY <3>1, <2>1, <2>4, <2>12, RestoreStep
  <2> QED
    BY <2>5, <2>6, <2>7, <2>8, <2>9, <2>10, <2>11, <2>12 DEF ExtNext, Defragmenting
<1> QED
  BY <1>1, <1>2, ExtInvariance, PTL DEF ExtSpec

=============================================================================
