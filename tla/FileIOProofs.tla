---------------------------- MODULE FileIOProofs -----------------------------
(***************************************************************************)
(* Proofs about FileIO, for every size of a sector, every text and every   *)
(* length of a file.                                                       *)
(***************************************************************************)
EXTENDS FileIO, SequenceTheorems, TLAPS

B == BLOCK_SECTOR_SIZE

-----------------------------------------------------------------------------
(* Bytes and sectors.                                                      *)

\* A byte's number is its sector's and its offset in the sector.
LEMMA Split ==
    ASSUME NEW i \in Nat
    PROVE  /\ i \div B \in Nat /\ i % B \in 0..B - 1
           /\ i = B * (i \div B) + (i % B)
  BY FileAssumption DEF B



\* Sectors do not overlap.
LEMMA Apart ==
    ASSUME NEW q \in Int, NEW n \in Int, q < n
    PROVE  B * q + B <= B * n
<1>1. B \in Nat
  BY FileAssumption DEF B
<1>2. PICK k \in Nat : n = q + 1 + k
  <2>1. n - q - 1 \in Nat /\ n = q + 1 + (n - q - 1)
    OBVIOUS
  <2> QED
    BY <2>1
<1>3. B * n = B * q + B + B * k
  BY <1>1, <1>2
<1>4. B * k >= 0
  BY <1>1
<1> QED
  BY <1>1, <1>3, <1>4

\* An offset in a sector is in that sector.
LEMMA Unsplit ==
    ASSUME NEW q \in Nat, NEW r \in 0..B - 1
    PROVE  B * q + r \in Nat /\ (B * q + r) \div B = q /\ (B * q + r) % B = r
<1>1. B \in Nat /\ B > 0
  BY FileAssumption DEF B
<1> DEFINE i == B * q + r
<1>2. i \in Nat
  <2>1. B * q \in Nat
    BY <1>1
  <2> QED
    BY <2>1, <1>1
<1>3. /\ i \div B \in Nat /\ i % B \in 0..B - 1
      /\ i = B * (i \div B) + (i % B)
  BY <1>2, Split
<1> QED
  BY <1>1, <1>2, <1>3, Apart

Sectors == Seq([Block -> Byte])

\* A byte within the sectors is in one of them.
LEMMA InSector ==
    ASSUME NEW m \in Nat, NEW i \in Nat, i < B * m
    PROVE  (i \div B) + 1 \in 1..m /\ (i % B) + 1 \in Block
<1>1. /\ i \div B \in Nat /\ i % B \in 0..B - 1
      /\ i = B * (i \div B) + (i % B)
  BY Split
<1>2. B \in Nat /\ B > 0
  BY FileAssumption DEF B
<1>3. (i % B) + 1 \in Block
  BY <1>1, <1>2 DEF Block, B
<1>4. ASSUME ~(i \div B < m) PROVE FALSE
  <2> DEFINE q == i \div B
  <2>1. B * m <= B * q
    <3>1. q \in Nat
      BY <1>1
    <3> HIDE DEF q
    <3>2. CASE q = m
      BY <3>2, <1>2
    <3>3. CASE m < q
      BY <3>1, <3>3, <1>2, Apart
    <3> QED
      BY <3>1, <3>2, <3>3, <1>4 DEF q
  <2> QED
    BY <2>1, <1>1, <1>2
<1> QED
  BY <1>1, <1>3, <1>4

\* What the sectors hold is bytes.
LEMMA ByteType ==
    ASSUME NEW s \in Sectors, NEW i \in Nat, i < B * Len(s)
    PROVE  At(s, i) \in Byte
<1>1. Len(s) \in Nat /\ \A k \in 1..Len(s) : s[k] \in [Block -> Byte]
  BY LenProperties DEF Sectors
<1>2. (i \div B) + 1 \in 1..Len(s) /\ (i % B) + 1 \in Block
  BY <1>1, InSector
<1> QED
  BY <1>1, <1>2 DEF At, B

\* t is s with the sector of offset o replaced by g, which differs from it in
\* the c bytes from o on only.
ReplacesChunk(s, o, c, g, t) ==
    /\ (o % B) + c <= B /\ o + c <= B * Len(s)
    /\ \A k \in Block : k <= o % B \/ k > (o % B) + c => g[k] = s[(o \div B) + 1][k]
    /\ t = [s EXCEPT ![(o \div B) + 1] = g]

\* The bytes of t are the ones of s outside of the chunk, and those of g in it.
ChunkReplaced(s, o, c, g, t) ==
    /\ t \in Sectors /\ Len(t) = Len(s)
    /\ \A i \in Nat : i < B * Len(s) =>
         At(t, i) = IF o <= i /\ i < o + c THEN g[(o % B) + (i - o) + 1] ELSE At(s, i)

\* A chunk copied into one sector changes the bytes of the chunk and no others.
LEMMA CopyChunk ==
    ASSUME NEW s \in Sectors, NEW o \in Nat, NEW c \in Nat \ {0}, NEW g \in [Block -> Byte], NEW t,
           ReplacesChunk(s, o, c, g, t)
    PROVE  ChunkReplaced(s, o, c, g, t)
<1> DEFINE q == o \div B
           f == o % B
           m == Len(s)
<1>0. /\ f + c <= B /\ o + c <= B * m
      /\ \A k \in Block : k <= f \/ k > f + c => g[k] = s[q + 1][k]
      /\ t = [s EXCEPT ![q + 1] = g]
  BY DEF ReplacesChunk
<1> USE <1>0
<1>1. m \in Nat /\ DOMAIN s = 1..m /\ B \in Nat /\ B > 0
  BY LenProperties, FileAssumption DEF Sectors, B
<1>2. q \in Nat /\ f \in 0..B - 1 /\ o = B * q + f
  BY Split
<1>3. q + 1 \in 1..m
  <2>1. o < B * m
    BY <1>1
  <2> QED
    BY <2>1, <1>1, InSector
<1>4. t \in Sectors /\ Len(t) = Len(s)
  BY <1>3, ExceptSeq DEF Sectors
<1>6. t[q + 1] = g /\ \A j \in 1..m : j # q + 1 => t[j] = s[j]
  BY <1>1, <1>3
<1>7. f + c <= B /\ \A k \in Block : k <= f \/ k > f + c => g[k] = s[q + 1][k]
  OBVIOUS
<1> HIDE <1>0
<1>5. ASSUME NEW i \in Nat, i < B * m
      PROVE  At(t, i) = IF o <= i /\ i < o + c THEN g[f + (i - o) + 1] ELSE At(s, i)
  <2> DEFINE p == i \div B
             e == i % B
  <2>1. p \in Nat /\ e \in 0..B - 1 /\ i = B * p + e
    BY Split
  <2>2. p + 1 \in 1..m /\ e + 1 \in Block
    BY <1>1, <1>5, InSector
  <2>3. At(t, i) = t[p + 1][e + 1] /\ At(s, i) = s[p + 1][e + 1]
    BY DEF At, B
  <2> HIDE DEF p, e, f, q, m
  <2>4. CASE p = q
    <3>1. t[p + 1] = g
      BY <2>4, <1>6
    <3>2. i - o = e - f
      <4>1. PICK x \in Int : x = B * p
        BY <2>1, <1>1
      <4>2. i = x + e /\ o = x + f
        BY <4>1, <2>1, <2>4, <1>2
      <4> QED
        BY <4>2, <2>1, <1>2
    <3>3. CASE o <= i /\ i < o + c
      <4>1. f + (i - o) + 1 = e + 1
        BY <3>2, <2>1, <1>2
      <4> QED
        BY <4>1, <3>1, <3>3, <2>3
    <3>4. CASE ~(o <= i /\ i < o + c)
      <4>1. e + 1 <= f \/ e + 1 > f + c
        BY <3>2, <3>4, <2>1, <1>2
      <4>2. g[e + 1] = s[q + 1][e + 1]
        BY <4>1, <2>2, <1>7
      <4> QED
        BY <4>2, <3>1, <3>4, <2>3, <2>4
    <3> QED
      BY <3>3, <3>4
  <2>5. CASE p # q
    <3>0. p + 1 # q + 1
      BY <2>1, <2>5, <1>2
    <3>1. t[p + 1] = s[p + 1]
      BY <3>0, <2>2, <1>6
    <3>2. ~(o <= i /\ i < o + c)
      <4>3. PICK x \in Int, y \in Int : x = B * p /\ y = B * q
        BY <2>1, <1>1, <1>2
      <4>4. i = x + e /\ o = y + f /\ e \in 0..B - 1 /\ f \in 0..B - 1 /\ f + c <= B
        BY <4>3, <2>1, <1>2, <1>7
      <4>1. CASE p < q
        <5>1. x + B <= y
          BY <4>1, <4>3, <2>1, <1>2, Apart
        <5> QED
          BY <5>1, <4>4, <1>1
      <4>2. CASE q < p
        <5>1. y + B <= x
          BY <4>2, <4>3, <2>1, <1>2, Apart
        <5> QED
          BY <5>1, <4>4, <1>1
      <4> QED
        BY <4>1, <4>2, <2>5, <2>1, <1>2
    <3> QED
      BY <3>1, <3>2, <2>3
  <2> QED
    BY <2>4, <2>5
<1> QED
  BY <1>4, <1>5 DEF ChunkReplaced

\* inode_reserve makes room, keeps what is there and adds zeros.
LEMMA ReserveBytes ==
    ASSUME NEW s \in Sectors, NEW n \in Nat
    PROVE  LET t == inode_reserve(s, n)
           IN /\ t \in Sectors
              /\ Len(s) <= Len(t) /\ n <= B * Len(t) /\ B * Len(s) <= B * Len(t)
              /\ \A i \in Nat : i < B * Len(t) =>
                   At(t, i) = IF i < B * Len(s) THEN At(s, i) ELSE NUL
<1> DEFINE b == bytes_to_sectors(n)
           m == Len(s)
           l == IF b > m THEN b ELSE m
           t == inode_reserve(s, n)
<1>1. m \in Nat /\ (\A k \in 1..m : s[k] \in [Block -> Byte]) /\ B \in Nat /\ B > 0
  BY LenProperties, FileAssumption DEF Sectors, B
<1>2. b \in Nat /\ n <= B * b
  <2>1. n + B - 1 \in Nat
    BY <1>1
  <2>2. b = (n + B - 1) \div B
    BY DEF bytes_to_sectors, B
  <2>3. /\ (n + B - 1) \div B \in Nat /\ (n + B - 1) % B \in 0..B - 1
        /\ n + B - 1 = B * ((n + B - 1) \div B) + ((n + B - 1) % B)
    BY <2>1, Split
  <2> HIDE DEF b
  <2>4. n + B - 1 = B * b + ((n + B - 1) % B)
    BY <2>2, <2>3
  <2>5. B * b \in Int
    BY <1>1, <2>2, <2>3
  <2> QED
    BY <1>1, <2>2, <2>3, <2>4, <2>5
<1>3. t = [i \in 1..l |-> IF i <= m THEN s[i] ELSE ZeroBlock]
  BY DEF inode_reserve
<1>4. ZeroBlock \in [Block -> Byte]
  BY DEF ZeroBlock, Byte
<1>5. l \in Nat /\ m <= l /\ b <= l
  <2> HIDE DEF b, m
  <2> QED
    BY <1>1, <1>2
<1>6. n <= B * l /\ B * m <= B * l /\ B * l \in Int /\ B * m \in Int
  <2> HIDE DEF b, m, l
  <2>1. B * b \in Int /\ B * l \in Int /\ B * m \in Int
    BY <1>1, <1>2, <1>5
  <2>2. B * b <= B * l
    BY <1>1, <1>2, <1>5, <2>1, Apart
  <2>3. B * m <= B * l
    BY <1>1, <1>5, <2>1, Apart
  <2> QED
    BY <1>2, <2>1, <2>2, <2>3
<1>7. t \in Sectors /\ Len(t) = l
  <2> HIDE DEF b, m, l, t
  <2>1. \A i \in 1..l : (IF i <= m THEN s[i] ELSE ZeroBlock) \in [Block -> Byte]
    BY <1>1, <1>4, <1>5
  <2>2. t \in [1..l -> [Block -> Byte]]
    BY <1>3, <2>1
  <2> QED
    BY <2>2, <1>5 DEF Sectors
<1>8. ASSUME NEW i \in Nat, i < B * l PROVE At(t, i) = IF i < B * m THEN At(s, i) ELSE NUL
  <2> HIDE DEF b, m, l, t
  <2> DEFINE p == i \div B
             e == i % B
  <2>1. p \in Nat /\ e \in 0..B - 1 /\ i = B * p + e
    BY Split
  <2>2. p + 1 \in 1..l /\ e + 1 \in Block
    BY <1>5, <1>8, InSector
  <2>3. At(t, i) = t[p + 1][e + 1] /\ At(s, i) = s[p + 1][e + 1]
    BY DEF At, B
  <2>4. t[p + 1] = IF p + 1 <= m THEN s[p + 1] ELSE ZeroBlock
    BY <1>3, <2>2
  <2>5. CASE i < B * m
    <3>1. p + 1 \in 1..m
      BY <1>1, <2>5, InSector
    <3>2. p + 1 <= m
      BY <3>1, <1>1
    <3> QED
      BY <2>3, <2>4, <2>5, <3>2
  <2>6. CASE ~(i < B * m)
    <3> HIDE DEF p, e
    <3>1. ~(p + 1 <= m)
      <4>1. ASSUME p < m PROVE FALSE
        <5>1. B * p + B <= B * m
          BY <4>1, <2>1, <1>1, Apart
        <5> QED
          BY <5>1, <2>1, <2>6, <1>1, <1>6
      <4> QED
        BY <4>1, <2>1, <1>1
    <3>2. ZeroBlock[e + 1] = NUL
      BY <2>2 DEF ZeroBlock
    <3> QED
      BY <2>3, <2>4, <2>6, <3>1, <3>2
  <2> QED
    BY <2>5, <2>6
<1> HIDE DEF b, m, l, t
<1>9. /\ Len(s) <= Len(t) /\ n <= B * Len(t) /\ B * Len(s) <= B * Len(t)
  BY <1>5, <1>6, <1>7 DEF m
<1>10. \A i \in Nat : i < B * Len(t) => At(t, i) = IF i < B * Len(s) THEN At(s, i) ELSE NUL
  BY <1>7, <1>8 DEF m
<1> QED
  BY <1>7, <1>9, <1>10 DEF t

\* A chunk read from one sector is the bytes of the file at that place.
LEMMA ChunkBytes ==
    ASSUME NEW s \in Sectors, NEW o \in Nat, NEW c \in Nat \ {0},
           (o % B) + c <= B, o + c <= B * Len(s)
    PROVE  LET u == SubSeq(s[(o \div B) + 1], (o % B) + 1, (o % B) + c)
           IN /\ u \in Seq(Byte) /\ Len(u) = c
              /\ \A j \in 1..c : u[j] = At(s, o + j - 1)
<1> DEFINE q == o \div B
           f == o % B
           m == Len(s)
           u == SubSeq(s[q + 1], f + 1, f + c)
<1>1. m \in Nat /\ (\A k \in 1..m : s[k] \in [Block -> Byte]) /\ B \in Nat /\ B > 0
  BY LenProperties, FileAssumption DEF Sectors, B
<1>2. q \in Nat /\ f \in 0..B - 1 /\ o = B * q + f
  BY Split
<1>3. q + 1 \in 1..m
  <2>1. o < B * m
    BY <1>1
  <2> QED
    BY <2>1, <1>1, InSector
<1>4. s[q + 1] \in [Block -> Byte]
  BY <1>1, <1>3
<1> HIDE DEF q, f, m
<1>5. f + 1 \in Int /\ f + c \in Int /\ \A i \in f + 1..f + c : s[q + 1][i] \in Byte
  <2>1. f + c <= B
    BY DEF f
  <2>2. \A i \in f + 1..f + c : i \in Block
    BY <2>1, <1>1, <1>2 DEF Block, B
  <2> QED
    BY <2>2, <1>2, <1>4
<1>6. /\ u \in Seq(Byte)
      /\ Len(u) = IF f + 1 <= f + c THEN (f + c) - (f + 1) + 1 ELSE 0
      /\ \A i \in 1..(f + c) - (f + 1) + 1 : u[i] = s[q + 1][f + 1 + i - 1]
  <2> DEFINE blk == s[q + 1]
             lo == f + 1
             hi == f + c
  <2>1. lo \in Int /\ hi \in Int /\ \A i \in lo..hi : blk[i] \in Byte
    BY <1>5
  <2> HIDE DEF blk, lo, hi
  <2>2. /\ SubSeq(blk, lo, hi) \in Seq(Byte)
        /\ Len(SubSeq(blk, lo, hi)) = IF lo <= hi THEN hi - lo + 1 ELSE 0
        /\ \A i \in 1..hi - lo + 1 : SubSeq(blk, lo, hi)[i] = blk[lo + i - 1]
    BY <2>1, SubSeqProperties
  <2> QED
    BY <2>2 DEF blk, lo, hi
<1>7. (IF f + 1 <= f + c THEN (f + c) - (f + 1) + 1 ELSE 0) = c /\ (f + c) - (f + 1) + 1 = c
  BY <1>2
<1>8. ASSUME NEW j \in 1..c PROVE u[j] = At(s, o + j - 1)
  <2>1. u[j] = s[q + 1][f + 1 + j - 1]
    BY <1>6, <1>7
  <2>2. f + j - 1 \in 0..B - 1
    <3>1. f + c <= B
      BY DEF f
    <3> QED
      BY <3>1, <1>1, <1>2
  <2>3. (B * q + (f + j - 1)) \div B = q /\ (B * q + (f + j - 1)) % B = f + j - 1
    BY <2>2, <1>2, Unsplit
  <2>4. B * q + (f + j - 1) = o + j - 1
    BY <1>1, <1>2
  <2>5. f + 1 + j - 1 = (f + j - 1) + 1
    BY <1>2
  <2> QED
    BY <2>1, <2>3, <2>4, <2>5 DEF At, B
<1>9. Len(u) = c
  BY <1>6, <1>7, Zenon
<1> QED
  BY <1>6, <1>8, <1>9 DEF q, f

\* The bytes of the file, as a sequence.
LEMMA FileBytes ==
    ASSUME NEW s \in Sectors, NEW n \in Nat, n <= B * Len(s)
    PROVE  LET c == [i \in 1..n |-> At(s, i - 1)]
           IN c \in Seq(Byte) /\ Len(c) = n /\ \A i \in 1..n : c[i] = At(s, i - 1)
<1> DEFINE c == [i \in 1..n |-> At(s, i - 1)]
<1>1. Len(s) \in Nat /\ B \in Nat
  BY LenProperties, FileAssumption DEF Sectors, B
<1>2. \A i \in 1..n : At(s, i - 1) \in Byte
  <2> SUFFICES ASSUME NEW i \in 1..n PROVE At(s, i - 1) \in Byte
    OBVIOUS
  <2>1. i - 1 \in Nat /\ i - 1 < B * Len(s)
    BY <1>1
  <2> QED
    BY <2>1, ByteType
<1>3. c \in [1..n -> Byte]
  BY <1>2
<1> QED
  BY <1>3

-----------------------------------------------------------------------------
(* The inductive invariant, action by action.                              *)

\* An empty file is given to no one.
LEMMA InitIInv == Init => IInv
<1> SUFFICES ASSUME Init PROVE IInv
  OBVIOUS
<1>1. <<>> \in Seq([Block -> Byte]) /\ Len(<<>>) = 0 /\ <<>> \in Seq(Byte) /\ <<>> \in Seq(Char)
  BY EmptySeq
<1>2. TypeOK
  <2>1. length <= BLOCK_SECTOR_SIZE * Len(sectors)
    BY <1>1, FileAssumption DEF Init
  <2>2. sectors \in Seq([Block -> Byte]) /\ buffer \in Seq(Byte) /\ old \in Seq(Byte) /\ typed \in Seq(Char)
    BY <1>1 DEF Init
  <2>3. exists \in BOOLEAN /\ status \in {"ok", "ub"}
    BY DEF Init
  <2>4. length \in 0..MaxLength /\ pos \in MinPosition..MaxLength /\ done \in Int /\ start \in 0..MaxLength
    BY FileAssumption DEF Init
  <2>5. call \in {NoCall}
    BY DEF Init
  <2> QED
    BY <2>1, <2>2, <2>3, <2>4, <2>5 DEF TypeOK
<1>3. SlackIsZero
  BY <1>1, FileAssumption DEF Init, SlackIsZero
<1>4. NothingLeft /\ ReadSoFar /\ WriteGiven /\ FailedSoFar /\ WrittenSoFar /\ TypedSoFar /\ EndNull /\ PositionValid
  BY DEF Init, NothingLeft, ReadSoFar, WriteGiven, FailedSoFar, WrittenSoFar, TypedSoFar, EndNull,
         PositionValid, NoCall
<1> QED
  BY <1>2, <1>3, <1>4 DEF IInv

\* seek, and an access in front of the file, leave the bytes alone.
LEMMA SeekIInv == ASSUME IInv, NEW n \in SeekOffsets, seek(n) PROVE IInv'
<1>1. n \in MinPosition..MaxLength /\ MaxLength \in Nat
  BY FileAssumption
<1>2. <<>> \in Seq(Char)
  BY EmptySeq
<1>3. TypeOK'
  <2>1. pos' \in MinPosition..MaxLength /\ start' \in 0..MaxLength /\ typed' = <<>>
    <3>1. pos' = n /\ start' = 0 /\ typed' = <<>>
      BY DEF seek, NotTyped
    <3>2. 0 \in 0..MaxLength
      BY <1>1
    <3> QED
      BY <1>1, <3>1, <3>2
  <2>2. /\ call' \in {NoCall}
        /\ UNCHANGED <<exists, sectors, length, done, buffer, status, old>>
    BY DEF seek, Prompt
  <2> QED
    BY <2>1, <2>2, <1>2 DEF IInv, TypeOK
<1> QED
  BY <1>1, <1>3 DEF IInv, TypeOK, NothingLeft, ReadSoFar, WriteGiven, FailedSoFar, WrittenSoFar,
    TypedSoFar, EndNull, SlackIsZero, PositionValid, seek, Prompt, NoCall, NotTyped, ByteAt, Contents

\* An access in front of the file ends the program; the bytes stay.
LEMMA NegativeIInv == ASSUME IInv, NegativeOffset PROVE IInv'
BY DEF IInv, TypeOK, NothingLeft, ReadSoFar, WriteGiven, FailedSoFar, WrittenSoFar,
    TypedSoFar, EndNull, SlackIsZero, PositionValid, NegativeOffset, Prompt, NoCall, NotTyped, ByteAt, Contents

\* The command read: nothing is read yet.
LEMMA ReadIInv == ASSUME IInv, NEW n \in Sizes, read(n) PROVE IInv'
<1>1. n \in 0..MaxLength /\ MaxLength \in Nat
  BY FileAssumption
<1>2. <<>> \in Seq(Char) /\ Len(<<>>) = 0
  BY EmptySeq
<1>3. TypeOK'
  BY <1>1, <1>2 DEF IInv, TypeOK, read, Prompt, NoCall, NotTyped
<1> QED
  BY <1>1, <1>2, <1>3 DEF IInv, TypeOK, NothingLeft, ReadSoFar, WriteGiven, FailedSoFar, WrittenSoFar,
    TypedSoFar, EndNull, SlackIsZero, PositionValid, read, Prompt, NoCall, NotTyped, ByteAt, Contents

\* The sectors of a new file are zero.
LEMMA ZeroSectors ==
    ASSUME NEW n \in Nat
    PROVE  LET t == inode_reserve(<<>>, n)
           IN /\ t \in Sectors /\ n <= B * Len(t) /\ B * Len(t) \in Nat
              /\ \A i \in Nat : i < B * Len(t) => At(t, i) = NUL
<1> DEFINE t == inode_reserve(<<>>, n)
<1>1. <<>> \in Sectors /\ Len(<<>>) = 0 /\ B \in Nat
  BY EmptySeq, FileAssumption DEF Sectors, B
<1>2. /\ t \in Sectors /\ n <= B * Len(t)
      /\ \A i \in Nat : i < B * Len(t) => At(t, i) = IF i < B * Len(<<>>) THEN At(<<>>, i) ELSE NUL
  BY <1>1, ReserveBytes
<1>3. B * Len(<<>>) = 0
  BY <1>1
<1>4. B * Len(t) \in Nat
  BY <1>1, <1>2, LenProperties DEF Sectors
<1> HIDE DEF t
<1>5. \A i \in Nat : i < B * Len(t) => At(t, i) = NUL
  BY <1>2, <1>3
<1> QED
  BY <1>2, <1>4, <1>5 DEF t

\* create: a file of zeros.
LEMMA CreateIInv == ASSUME IInv, NEW n \in Sizes, create(n) PROVE IInv'
<1>1. n \in 0..MaxLength /\ n \in Nat /\ MaxLength \in Nat
  BY FileAssumption
<1>2. sectors' \in Sectors /\ n <= B * Len(sectors') /\ B * Len(sectors') \in Nat
      /\ \A i \in Nat : i < B * Len(sectors') => At(sectors', i) = NUL
  BY <1>1, ZeroSectors DEF create
<1>3. call = NoCall /\ pos = 0 /\ typed = <<>> /\ done = 0 /\ buffer = <<>> /\ status = "ok"
  BY DEF create, Prompt, IInv, NothingLeft
<1>4. exists' = TRUE /\ length' = n /\ UNCHANGED <<pos, call, done, buffer, result, status, old, typed, start, cause>>
  BY DEF create
<1>5. TypeOK'
  BY <1>1, <1>2, <1>4 DEF IInv, TypeOK, Sectors, B
<1>6. SlackIsZero'
  BY <1>1, <1>2, <1>4 DEF SlackIsZero, ByteAt, B
<1>7. EndNull'
  BY <1>1, <1>2, <1>4 DEF EndNull, ByteAt
<1>8. NothingLeft' /\ ReadSoFar' /\ WriteGiven' /\ FailedSoFar' /\ WrittenSoFar' /\ TypedSoFar' /\ PositionValid'
  BY <1>3, <1>4 DEF NothingLeft, ReadSoFar, WriteGiven, FailedSoFar, WrittenSoFar, TypedSoFar,
                    PositionValid, NoCall
<1> QED
  BY <1>5, <1>6, <1>7, <1>8 DEF IInv

\* rm: nothing is left.
LEMMA RmIInv == ASSUME IInv, rm PROVE IInv'
<1>1. <<>> \in Seq([Block -> Byte]) /\ Len(<<>>) = 0 /\ <<>> \in Seq(Char)
  BY EmptySeq
<1>2. MaxLength \in Nat /\ BLOCK_SECTOR_SIZE * Len(<<>>) = 0
  BY <1>1, FileAssumption
<1>3. call = NoCall /\ done = 0 /\ buffer = <<>> /\ status = "ok"
  BY DEF rm, Prompt, IInv, NothingLeft
<1>4. /\ exists' = FALSE /\ length' = 0 /\ sectors' = <<>> /\ pos' = 0 /\ typed' = <<>> /\ start' = 0
      /\ cause' = "none" /\ UNCHANGED <<call, done, buffer, result, status, old>>
  BY DEF rm, NotTyped
<1>5. TypeOK'
  <2>1. sectors' \in Seq([Block -> Byte]) /\ length' <= BLOCK_SECTOR_SIZE * Len(sectors')
    BY <1>1, <1>2, <1>4
  <2>2. exists' \in BOOLEAN
    BY <1>4
  <2>3. pos' \in MinPosition..MaxLength
    BY <1>2, <1>4, FileAssumption
  <2> QED
    BY <1>1, <1>2, <1>3, <1>4, <2>1, <2>2, <2>3 DEF IInv, TypeOK
<1>6. SlackIsZero'
  BY <1>2, <1>4 DEF SlackIsZero
<1>7. NothingLeft' /\ ReadSoFar' /\ WriteGiven' /\ FailedSoFar' /\ WrittenSoFar' /\ TypedSoFar' /\ EndNull' /\ PositionValid'
  BY <1>3, <1>4 DEF NothingLeft, ReadSoFar, WriteGiven, FailedSoFar, WrittenSoFar, TypedSoFar, EndNull,
                    PositionValid, NoCall
<1> QED
  BY <1>5, <1>6, <1>7 DEF IInv

\* What a call holds.
LEMMA CallFields ==
    ASSUME TypeOK
    PROVE  /\ NoCall.op = "none"
           /\ call.op \in {"none", "read", "write"}
           /\ call.op = "none" => call = NoCall
           /\ call.op = "read" => call.offset = pos /\ call.size \in 0..MaxLength
           /\ call.op = "write" => call.offset = pos /\ call.buf \in Seq(Byte)
BY DEF TypeOK, NoCall

\* What is copied in one turn of a loop fits in the call, the file and the sector.
LEMMA ChunkFits ==
    ASSUME TypeOK, pos >= 0, done >= 0, call.op \in {"read", "write"},
           size \in Int, size > 0, chunk_size > 0
    PROVE  /\ offset = pos + done /\ offset \in Nat
           /\ chunk_size \in Nat \ {0} /\ chunk_size <= size
           /\ offset + chunk_size <= length
           /\ (offset % B) + chunk_size <= B /\ sector_ofs = offset % B
           /\ offset + chunk_size <= B * Len(sectors)
           /\ sector = (offset \div B) + 1
<1>1. offset = pos + done /\ offset \in Nat
  BY CallFields, FileAssumption DEF TypeOK, offset
<1>2. B \in Nat /\ offset % B \in 0..B - 1 /\ sector_ofs = offset % B /\ sector = (offset \div B) + 1
  BY <1>1, Split, FileAssumption DEF B, sector_ofs, sector
<1>3. length \in Nat /\ length <= B * Len(sectors) /\ B * Len(sectors) \in Nat
  <2>1. Len(sectors) \in Nat
    BY LenProperties DEF TypeOK
  <2> QED
    BY <2>1, <1>2, FileAssumption DEF TypeOK, B
<1>4. chunk_size \in Int /\ chunk_size <= size /\ chunk_size <= length - offset /\ chunk_size <= B - sector_ofs
  <2>0. sector_ofs \in Nat
    BY <1>2
  <2>1. PICK o \in Nat, l \in Nat, f \in Nat, s \in Int :
            o = offset /\ l = length /\ f = sector_ofs /\ s = size
    BY <2>0, <1>1, <1>3, Zenon
  <2>2. chunk_size = Lesser(s, Lesser(l - o, B - f))
    BY <2>1 DEF chunk_size, B
  <2>3. \A x, y \in Int : Lesser(x, y) \in Int /\ Lesser(x, y) <= x /\ Lesser(x, y) <= y
    BY DEF Lesser
  <2>4. l - o \in Int /\ B - f \in Int
    BY <1>2
  <2>5. PICK w \in Int : w = Lesser(l - o, B - f) /\ w <= l - o /\ w <= B - f
    BY <2>3, <2>4
  <2>6. chunk_size \in Int /\ chunk_size <= s /\ chunk_size <= w
    BY <2>2, <2>3, <2>5
  <2> HIDE DEF B
  <2> QED
    BY <2>1, <2>5, <2>6, <1>2
<1> HIDE DEF B
<1>5. PICK o \in Nat, l \in Nat, m \in Nat, c \in Int :
          o = offset /\ l = length /\ m = B * Len(sectors) /\ c = chunk_size
  BY <1>1, <1>3, <1>4
<1>6. c <= l - o /\ l <= m /\ c > 0 /\ c <= B - (o % B)
  BY <1>2, <1>3, <1>4, <1>5
<1>7. c \in Nat \ {0} /\ o + c <= l /\ o + c <= m /\ (o % B) + c <= B
  BY <1>6, <1>2, <1>5
<1> QED
  BY <1>1, <1>2, <1>4, <1>5, <1>7

\* A turn of inode_read_at's loop appends the bytes of the file that follow.
LEMMA ReadChunkIInv == ASSUME IInv, ReadChunk PROVE IInv'
<1> DEFINE c == chunk_size
           o == offset
           u == SubSeq(sectors[sector], sector_ofs + 1, sector_ofs + c)
<1>1. TypeOK /\ call.op = "read" /\ status = "ok" /\ pos >= 0 /\ done \in 0..call.size /\ typed = <<>>
      /\ Len(buffer) = done /\ \A i \in 1..done : buffer[i] = At(sectors, pos + i - 1)
  <2>1. TypeOK /\ call.op = "read" /\ status = "ok" /\ done \in 0..call.size /\ typed = <<>>
        /\ Len(buffer) = done /\ \A i \in 1..done : buffer[i] = At(sectors, pos + i - 1)
    BY DEF IInv, ReadSoFar, ReadChunk, Calling, ByteAt
  <2>2. call.size # 0
    BY <2>1, CallFields DEF ReadChunk, size
  <2> QED
    BY <2>1, <2>2 DEF IInv, ReadSoFar
<1>2. call.size \in 0..MaxLength /\ size = call.size - done /\ size > 0 /\ c > 0 /\ MaxLength \in Nat /\ done \in Nat
  BY <1>1, CallFields, FileAssumption DEF ReadChunk, size
<1>3. /\ o = pos + done /\ o \in Nat
      /\ c \in Nat \ {0} /\ c <= size
      /\ o + c <= length
      /\ (o % B) + c <= B /\ sector_ofs = o % B
      /\ o + c <= B * Len(sectors)
      /\ sector = (o \div B) + 1
  BY <1>1, <1>2, ChunkFits
<1>4. u \in Seq(Byte) /\ Len(u) = c /\ \A j \in 1..c : u[j] = At(sectors, o + j - 1)
  <2>1. sectors \in Sectors
    BY <1>1 DEF TypeOK, Sectors
  <2> HIDE DEF c, o
  <2>2. u = SubSeq(sectors[(o \div B) + 1], (o % B) + 1, (o % B) + c)
    BY <1>3
  <2> HIDE DEF u
  <2> QED
    BY <2>1, <2>2, <1>3, ChunkBytes
<1>5. buffer' = buffer \o u /\ done' = done + c
      /\ UNCHANGED <<exists, sectors, length, pos, call, result, status, old, typed, start, cause>>
  BY DEF ReadChunk
<1> HIDE DEF u, c, o
<1>6. buffer \in Seq(Byte)
  BY <1>1 DEF TypeOK
<1>7. /\ buffer' \in Seq(Byte) /\ Len(buffer') = done + c
      /\ \A i \in 1..done + c : buffer'[i] = IF i <= done THEN buffer[i] ELSE u[i - done]
  BY <1>1, <1>4, <1>5, <1>6, ConcatProperties
<1>8. \A i \in 1..done + c : buffer'[i] = At(sectors, pos + i - 1)
  <2> SUFFICES ASSUME NEW i \in 1..done + c PROVE buffer'[i] = At(sectors, pos + i - 1)
    OBVIOUS
  <2>1. CASE i <= done
    <3>1. i \in 1..done
      BY <2>1, <1>2, <1>3
    <3> QED
      BY <3>1, <2>1, <1>1, <1>7
  <2>2. CASE i > done
    <3>1. i - done \in 1..c /\ o + (i - done) - 1 = pos + i - 1
      BY <2>2, <1>1, <1>2, <1>3 DEF TypeOK
    <3>2. buffer'[i] = u[i - done]
      BY <2>2, <1>2, <1>7
    <3> QED
      BY <3>1, <3>2, <1>4
  <2> QED
    BY <2>1, <2>2, <1>2
<1>9. TypeOK'
  <2>1. done' \in Int
    BY <1>2, <1>3, <1>5
  <2> QED
    BY <2>1, <1>1, <1>5, <1>7 DEF TypeOK
<1>10. ReadSoFar'
  <2>1. done + c \in 0..call.size /\ pos + (done + c) <= length
    BY <1>1, <1>2, <1>3, SMTT(30) DEF TypeOK
  <2> QED
    BY <2>1, <1>1, <1>5, <1>7, <1>8 DEF ReadSoFar, ByteAt
<1>11. NothingLeft'
  BY <1>1, <1>5, CallFields DEF IInv, NothingLeft
<1> QED
  BY <1>1, <1>5, <1>9, <1>10, <1>11 DEF IInv, WriteGiven, FailedSoFar, WrittenSoFar, TypedSoFar, EndNull,
    SlackIsZero, PositionValid, ByteAt

\* inode_read_at returns and the position moves by what was read.
LEMMA ReadReturnsIInv == ASSUME IInv, ReadReturns PROVE IInv'
<1>1. TypeOK /\ call.op = "read" /\ status = "ok" /\ (pos >= 0 \/ call.size = 0)
      /\ done \in 0..call.size /\ typed = <<>>
      /\ (done > 0 => pos + done <= length) /\ call.size \in 0..MaxLength
  BY CallFields DEF IInv, ReadSoFar, ReadReturns, Calling
<1>2. /\ pos' = pos + done /\ call' = NoCall /\ done' = 0 /\ buffer' = <<>> /\ old' = <<>>
      /\ UNCHANGED <<exists, sectors, length, status, typed, start, cause>>
  BY DEF ReadReturns, Return
<1>3. <<>> \in Seq(Byte)
  BY EmptySeq
<1>4. /\ MaxLength \in Nat /\ pos + done \in MinPosition..MaxLength
      /\ pos + done >= 0 \/ pos + done = pos
  BY <1>1, FileAssumption DEF TypeOK
<1>5. TypeOK'
  BY <1>1, <1>2, <1>3, <1>4 DEF TypeOK
<1>6. NothingLeft'
  BY <1>1, <1>2, CallFields DEF IInv, NothingLeft
<1> QED
  BY <1>1, <1>2, <1>4, <1>5, <1>6, CallFields DEF IInv, ReadSoFar, WriteGiven, FailedSoFar, WrittenSoFar,
    TypedSoFar, EndNull, SlackIsZero, PositionValid, ByteAt

-----------------------------------------------------------------------------
(* Writing.                                                                *)

\* The text of the command write with its two terminators: the one that
\* file_write sets is there already.
LEMMA TwoTerminators ==
    ASSUME NEW text \in Seq(Char)
    PROVE  LET buf == text \o <<NUL, NUL>>
           IN /\ buf \in Seq(Byte) /\ Len(buf) = Len(text) + 2 /\ Len(text) \in Nat
              /\ buf[Len(text) + 2] = NUL /\ buf[Len(text) + 1] = NUL
              /\ \A i \in 1..Len(text) : buf[i] = text[i]
              /\ NullTerminated(buf) = buf
<1> DEFINE buf == text \o <<NUL, NUL>>
           n == Len(text)
           two == <<NUL, NUL>>
<1>1. text \in Seq(Byte) /\ two \in Seq(Byte) /\ n \in Nat
  BY LenProperties, SeqMonotonic DEF Byte
<1>2. Len(two) = 2 /\ two[1] = NUL /\ two[2] = NUL
  OBVIOUS
<1> HIDE DEF two
<1>3. /\ text \o two \in Seq(Byte) /\ Len(text \o two) = n + Len(two)
      /\ \A i \in 1..n + Len(two) : (text \o two)[i] = IF i <= n THEN text[i] ELSE two[i - n]
  BY <1>1, ConcatProperties
<1>4. /\ buf \in Seq(Byte) /\ Len(buf) = n + 2
      /\ \A i \in 1..n + 2 : buf[i] = IF i <= n THEN text[i] ELSE two[i - n]
  BY <1>2, <1>3 DEF two
<1> HIDE DEF buf, n
<1>5. buf[n + 2] = NUL /\ buf[n + 1] = NUL /\ \A i \in 1..n : buf[i] = text[i]
  <2>1. n + 2 \in 1..n + 2 /\ n + 1 \in 1..n + 2 /\ ~(n + 2 <= n) /\ ~(n + 1 <= n) /\ (n + 2) - n = 2 /\ (n + 1) - n = 1
    BY <1>1
  <2>2. \A i \in 1..n : i \in 1..n + 2 /\ i <= n
    BY <1>1
  <2> QED
    BY <2>1, <2>2, <1>2, <1>4
<1>6. NullTerminated(buf) = buf
  <2>0. buf # <<>>
    BY <1>1, <1>4, EmptySeq
  <2>1. NullTerminated(buf) = [buf EXCEPT ![n + 2] = NUL]
    BY <2>0, <1>4 DEF NullTerminated
  <2>2. DOMAIN buf = 1..n + 2 /\ buf = [i \in 1..n + 2 |-> buf[i]]
    BY <1>4, LenProperties
  <2> QED
    BY <2>1, <2>2, <1>5
<1> QED
  BY <1>1, <1>4, <1>5, <1>6 DEF buf, n

\* The file when it is extended: what was in it, and zeros.
LEMMA Extended ==
    ASSUME IInv, NEW n \in Nat, length <= n
    PROVE  LET t == inode_reserve(sectors, n)
           IN /\ t \in Sectors /\ n <= B * Len(t) /\ B * Len(t) \in Nat
              /\ \A i \in Nat : i < B * Len(t) =>
                   At(t, i) = IF i < length THEN At(sectors, i) ELSE NUL
<1> DEFINE t == inode_reserve(sectors, n)
<1>1. sectors \in Sectors /\ length \in Nat /\ length <= B * Len(sectors) /\ B \in Nat
  BY FileAssumption DEF IInv, TypeOK, Sectors, B
<1>2. /\ t \in Sectors
      /\ n <= B * Len(t) /\ B * Len(sectors) <= B * Len(t)
      /\ \A i \in Nat : i < B * Len(t) =>
           At(t, i) = IF i < B * Len(sectors) THEN At(sectors, i) ELSE NUL
  BY <1>1, ReserveBytes
<1> HIDE DEF t
<1>3. B * Len(t) \in Nat /\ B * Len(sectors) \in Nat
  <2>1. Len(t) \in Nat /\ Len(sectors) \in Nat
    BY <1>1, <1>2, LenProperties DEF Sectors
  <2> QED
    BY <2>1, <1>1
<1>4. \A i \in Nat : length <= i /\ i < B * Len(sectors) => At(sectors, i) = NUL
  BY <1>1, <1>3 DEF IInv, SlackIsZero, ByteAt, B
<1>5. ASSUME NEW i \in Nat, i < B * Len(t)
      PROVE  At(t, i) = IF i < length THEN At(sectors, i) ELSE NUL
  BY <1>1, <1>2, <1>3, <1>4, <1>5
<1> QED
  BY <1>2, <1>3, <1>5 DEF t

\* The file's bytes between calls.
LEMMA ContentsBytes ==
    ASSUME IInv
    PROVE  /\ Contents \in Seq(Byte) /\ Len(Contents) = length /\ length \in 0..MaxLength
           /\ \A i \in 1..length : Contents[i] = At(sectors, i - 1)
<1>1. sectors \in Sectors /\ length \in Nat /\ length <= B * Len(sectors) /\ length \in 0..MaxLength
  BY FileAssumption DEF IInv, TypeOK, Sectors, B
<1>2. Contents = [i \in 1..length |-> At(sectors, i - 1)]
  BY DEF Contents, ByteAt
<1> QED
  BY <1>1, <1>2, FileBytes

\* What a command has to establish when it calls inode_write_at.
LEMMA WriteStarts ==
    ASSUME IInv, Prompt, exists' = TRUE, UNCHANGED <<done, buffer, status>>,
           NEW buf \in Seq(Byte), buf # <<>> => buf[Len(buf)] = NUL,
           Len(buf) >= 2 \/ cause' # "none",
           call' = [op |-> "write", offset |-> pos', buf |-> buf],
           pos' \in 0..MaxLength, length' \in 0..MaxLength, start' \in 0..MaxLength,
           typed' \in Seq(Char), TypedSoFar',
           old' \in Seq(Byte), old' # <<>> => old'[Len(old')] = NUL,
           Len(old') <= length', pos' + Len(buf) <= length',
           length' \in {Len(old'), pos' + Len(buf)},
           sectors' \in Sectors, length' <= B * Len(sectors'),
           \A i \in Nat : length' <= i /\ i < B * Len(sectors') => At(sectors', i) = NUL,
           \A i \in 1..length' : (i <= pos' \/ i > pos' + Len(buf)) =>
               At(sectors', i - 1) = IF i <= Len(old') THEN old'[i] ELSE NUL
    PROVE  IInv'
<1>1. MaxLength \in Nat /\ B \in Nat
  BY FileAssumption DEF B
<1>2. call = NoCall /\ done = 0 /\ buffer = <<>> /\ status = "ok"
  BY DEF Prompt, IInv, NothingLeft
<1>3. call'.op = "write" /\ call'.offset = pos' /\ call'.buf = buf /\ call' # NoCall
  BY DEF NoCall
<1>4. Len(buf) \in Nat
  BY LenProperties
<1>5. TypeOK'
  <2>1. exists' \in BOOLEAN
    OBVIOUS
  <2>2. pos' \in MinPosition..MaxLength
    BY <1>1, FileAssumption
  <2>3. call' \in [op : {"write"}, offset : {pos'}, buf : Seq(Byte)]
    OBVIOUS
  <2>4. done' \in Int /\ buffer' \in Seq(Byte) /\ status' \in {"ok", "ub"}
    BY DEF IInv, TypeOK
  <2> QED
    BY <2>1, <2>2, <2>3, <2>4 DEF TypeOK, Sectors, B
<1>6. SlackIsZero'
  <2>1. B * Len(sectors') \in Int
    BY <1>1, LenProperties DEF Sectors
  <2> QED
    BY <1>1, <2>1 DEF SlackIsZero, ByteAt, B
<1>7. WriteGiven'
  BY <1>1, <1>2, <1>3 DEF WriteGiven
<1>8. WrittenSoFar'
  BY <1>2, <1>3, <1>4 DEF WrittenSoFar, ByteAt
<1>9. NothingLeft' /\ ReadSoFar' /\ FailedSoFar' /\ EndNull' /\ PositionValid'
  BY <1>1, <1>2, <1>3 DEF NothingLeft, ReadSoFar, FailedSoFar, EndNull, PositionValid
<1> QED
  BY <1>5, <1>6, <1>7, <1>8, <1>9 DEF IInv

\* The command write.
LEMMA WriteIInv == ASSUME IInv, NEW text \in Texts, write(text) PROVE IInv'
<1> DEFINE buf == text \o <<NUL, NUL>>
           n == Len(text)
           k == Len(typed)
<1>1. text \in Seq(Char) /\ text # <<>> /\ MaxLength \in Nat
  BY FileAssumption DEF write
<1>2. /\ buf \in Seq(Byte) /\ Len(buf) = n + 2 /\ n \in Nat
      /\ buf[n + 2] = NUL /\ buf[n + 1] = NUL
      /\ (\A i \in 1..n : buf[i] = text[i])
      /\ NullTerminated(buf) = buf
  BY <1>1, TwoTerminators
<1>3. Prompt /\ exists /\ pos >= 0 /\ pos + n + 2 <= MaxLength /\ file_write(buf)
      /\ typed' = typed \o text /\ start' = IF typed = <<>> THEN pos ELSE start
  BY DEF write
<1>4. /\ Contents \in Seq(Byte) /\ Len(Contents) = length /\ length \in 0..MaxLength
      /\ \A i \in 1..length : Contents[i] = At(sectors, i - 1)
  BY ContentsBytes
<1>5. pos \in 0..MaxLength /\ length \in Nat /\ typed \in Seq(Char) /\ start \in 0..MaxLength /\ k \in Nat
  BY <1>1, <1>3, LenProperties DEF IInv, TypeOK
<1> HIDE DEF n, k, buf
<1>n. n \in Nat /\ k \in Nat /\ pos \in Nat /\ length \in Nat /\ Len(buf) = n + 2
  BY <1>1, <1>2, <1>5
<1>6. length' = IF pos + n + 2 > length THEN pos + n + 2 ELSE length
  <2>1. length' = IF MustExtend(pos, buf) THEN pos + Len(buf) ELSE length
    BY <1>3 DEF file_write
  <2>2. MustExtend(pos, buf) <=> pos + n + 2 > length
    BY <1>n DEF MustExtend
  <2> QED
    BY <2>1, <2>2, <1>n
<1>7. length' \in 0..MaxLength /\ length' \in Nat /\ length <= length' /\ pos + n + 2 <= length'
      /\ length' \in {length, pos + n + 2}
  BY <1>1, <1>2, <1>3, <1>4, <1>5, <1>6
<1>8. sectors' = inode_reserve(sectors, length') /\ old' = Contents
      /\ call' = [op |-> "write", offset |-> pos, buf |-> buf]
      /\ UNCHANGED <<exists, pos, done, buffer, status, cause>>
  BY <1>2, <1>3 DEF file_write, StartWrite
<1>9. /\ sectors' \in Sectors /\ length' <= B * Len(sectors') /\ B * Len(sectors') \in Nat
      /\ \A i \in Nat : i < B * Len(sectors') =>
           At(sectors', i) = IF i < length THEN At(sectors, i) ELSE NUL
  BY <1>7, <1>8, Extended
<1>10. call = NoCall /\ call.op = "none"
  BY <1>3 DEF Prompt, NoCall
<1>11. old' # <<>> => old'[Len(old')] = NUL
  <2> SUFFICES ASSUME Contents # <<>> PROVE Contents[length] = NUL
    BY <1>4, <1>8
  <2>1. length > 0
    <3>1. Len(Contents) \in Nat \ {0}
      BY <1>4, EmptySeq
    <3> QED
      BY <3>1, <1>4
  <2>2. At(sectors, length - 1) = NUL
    BY <2>1, <1>10 DEF IInv, EndNull, ByteAt
  <2> QED
    BY <2>1, <2>2, <1>4, <1>5
<1>12. \A i \in Nat : length' <= i /\ i < B * Len(sectors') => At(sectors', i) = NUL
  BY <1>7, <1>5, <1>9
<1>13. \A i \in 1..length' : At(sectors', i - 1) = IF i <= Len(old') THEN old'[i] ELSE NUL
  <2> SUFFICES ASSUME NEW i \in 1..length'
               PROVE  At(sectors', i - 1) = IF i <= length THEN Contents[i] ELSE NUL
    BY <1>4, <1>8
  <2>1. i - 1 \in Nat /\ i - 1 < B * Len(sectors') /\ (i - 1 < length <=> i <= length)
    BY <1>5, <1>7, <1>9
  <2>2. At(sectors', i - 1) = IF i - 1 < length THEN At(sectors, i - 1) ELSE NUL
    BY <2>1, <1>9
  <2>3. CASE i <= length
    <3>1. i \in 1..length
      BY <2>3, <1>5, <1>7
    <3> QED
      BY <2>1, <2>2, <2>3, <3>1, <1>4
  <2>4. CASE ~(i <= length)
    BY <2>1, <2>2, <2>4
  <2> QED
    BY <2>3, <2>4
<1>14. typed' \in Seq(Char) /\ Len(typed') = k + n
       /\ \A i \in 1..k + n : typed'[i] = IF i <= k THEN typed[i] ELSE text[i - k]
  BY <1>1, <1>3, <1>5, ConcatProperties DEF k, n
<1>15. start' \in 0..MaxLength
  BY <1>3, <1>5
<1>m. PICK s \in Nat : s = start'
  BY <1>15, <1>1
<1>p. PICK p \in Nat : p = pos
  BY <1>n
<1>l. PICK l \in Nat : l = length
  BY <1>n
<1>16. TypedSoFar'
  <2>0. ASSUME typed # <<>> PROVE s = start /\ p = s + k /\ p + 2 <= l
    <3>1. pos = start + k /\ pos + 2 <= length /\ start' = start
      BY <2>0, <1>3, <1>10 DEF IInv, TypedSoFar, k
    <3> QED
      BY <3>1, <1>m, <1>p, <1>l, Zenon
  <2>1. s + k = p /\ s <= p /\ (p > s => p <= l)
    <3>1. CASE typed = <<>>
      <4>1. k = 0 /\ s = p
        BY <3>1, <1>3, <1>m, <1>p DEF k
      <4> QED
        BY <4>1
    <3>2. CASE typed # <<>>
      BY <3>2, <2>0, <1>n
    <3> QED
      BY <3>1, <3>2
  <2>2. ASSUME NEW i \in 1..k, NEW j, j = s + i PROVE typed[i] = Contents[j] /\ j <= p
    <3>1. k # 0 /\ typed # <<>>
      BY <1>5 DEF k
    <3>2. s = start /\ p = s + k /\ p + 2 <= l
      BY <3>1, <2>0
    <3>3. At(sectors, s + i - 1) = typed[i]
      BY <3>1, <3>2, <1>10 DEF IInv, TypedSoFar, ByteAt, k
    <3>4. j \in 1..l /\ j - 1 = s + i - 1 /\ j <= p
      BY <3>2, <2>2, <1>n
    <3>5. j \in 1..length
      BY <3>4, <1>l
    <3> QED
      BY <3>3, <3>4, <3>5, <1>4
  <2>3. ASSUME NEW i \in 1..k + n
        PROVE  typed'[i] = IF s + i <= p THEN Contents[s + i] ELSE buf[s + i - p]
    <3>1. (s + i <= p <=> i <= k) /\ s + i - p = i - k
      BY <2>1, <1>n
    <3>2. CASE i <= k
      <4>1. i \in 1..k
        BY <3>2, <1>n
      <4> QED
        BY <4>1, <3>1, <3>2, <2>2, <1>14
    <3>3. CASE ~(i <= k)
      <4>1. i - k \in 1..n
        BY <3>3, <1>n
      <4> QED
        BY <4>1, <3>1, <3>3, <1>2, <1>14
    <3> QED
      BY <3>2, <3>3
  <2>4. call'.op = "write" /\ call'.buf = buf /\ pos' = p /\ old' = Contents /\ Len(old') = l /\ start' = s
    BY <1>4, <1>8, <1>m, <1>p, <1>l
  <2>5. Len(buf) = s + Len(typed') - p + 2 /\ Len(buf) >= 2 /\ Len(buf) - 1 = n + 1
    <3>1. n + 2 = s + (k + n) - p + 2 /\ n + 2 >= 2 /\ (n + 2) - 1 = n + 1
      BY <2>1, <1>n
    <3>2. Len(typed') = k + n
      BY <1>14
    <3>3. Len(buf) = n + 2
      BY <1>n
    <3> QED
      BY <3>1, <3>2, <3>3, Zenon
  <2>6. /\ start' <= pos' /\ Len(call'.buf) = start' + Len(typed') - pos' + 2
        /\ Len(call'.buf) >= 2 /\ call'.buf[Len(call'.buf) - 1] = NUL
        /\ pos' > start' => pos' <= Len(old')
    <3>1. buf[n + 1] = NUL
      BY <1>2
    <3> QED
      BY <2>1, <2>4, <2>5, <3>1, Zenon
  <2>7. \A i \in 1..Len(typed') :
          typed'[i] = IF start' + i <= pos' THEN old'[start' + i] ELSE call'.buf[start' + i - pos']
    <3>1. \A i \in 1..k + n : typed'[i] = IF s + i <= p THEN Contents[s + i] ELSE buf[s + i - p]
      BY <2>3
    <3>2. Len(typed') = k + n
      BY <1>14
    <3> QED
      BY <3>1, <3>2, <2>4, Zenon
  <2> QED
    BY <2>4, <2>6, <2>7 DEF TypedSoFar
<1>17. buf # <<>> /\ Len(buf) >= 2
  <2>1. n + 2 >= 2 /\ n + 2 # 0
    BY <1>2
  <2>2. Len(<<>>) = 0
    BY EmptySeq
  <2> QED
    BY <2>1, <2>2, <1>2, Zenon
<1>18. exists' = TRUE
  BY <1>3, <1>8
<1>19. pos' \in 0..MaxLength /\ pos' = pos /\ Len(old') = length /\ old' \in Seq(Byte)
  BY <1>4, <1>5, <1>8
<1>20. pos' + Len(buf) = pos + n + 2
  BY <1>19, <1>n
<1> QED
  BY <1>2, <1>3, <1>4, <1>5, <1>7, <1>19, <1>20, <1>8, <1>9, <1>11, <1>12, <1>13, <1>14, <1>15, <1>16, <1>17, <1>18, WriteStarts

\* A sequence that ends with the terminator already is not changed by file_write.
LEMMA TerminatedAlready ==
    ASSUME NEW u \in Seq(Byte), u # <<>> => u[Len(u)] = NUL
    PROVE  NullTerminated(u) = u
<1>1. DOMAIN u = 1..Len(u) /\ Len(u) \in Nat /\ u = [i \in 1..Len(u) |-> u[i]]
  BY LenProperties
<1> QED
  BY <1>1 DEF NullTerminated

\* Between calls the file that a write starts from ends with the terminator.
LEMMA OldEndsNull ==
    ASSUME IInv, call = NoCall, Contents # <<>>
    PROVE  length > 0 /\ Contents[Len(Contents)] = NUL
<1>1. /\ Contents \in Seq(Byte) /\ Len(Contents) = length /\ length \in 0..MaxLength
      /\ \A i \in 1..length : Contents[i] = At(sectors, i - 1)
  BY ContentsBytes
<1>2. length \in Nat
  BY <1>1, FileAssumption
<1>3. length > 0
  <2>1. Len(Contents) \in Nat \ {0}
    BY <1>1, EmptySeq
  <2> QED
    BY <2>1, <1>1
<1>4. At(sectors, length - 1) = NUL
  BY <1>3 DEF IInv, EndNull, ByteAt, NoCall
<1>5. Contents[length] = NUL
  BY <1>1, <1>2, <1>3, <1>4
<1> QED
  BY <1>1, <1>3, <1>5, Zenon

\* A write on a full disk: nothing but the call is changed.
LEMMA WriteFailsIInv == ASSUME IInv, NEW text \in Texts, WriteFails(text) PROVE IInv'
<1> DEFINE buf == text \o <<NUL, NUL>>
           n == Len(text)
<1>1. text \in Seq(Char) /\ MaxLength \in Nat
  BY FileAssumption
<1>2. buf \in Seq(Byte) /\ Len(buf) = n + 2 /\ n \in Nat /\ buf[n + 2] = NUL
  BY <1>1, TwoTerminators
<1>3. /\ Prompt /\ exists /\ pos - 2 >= MinPosition /\ MustExtend(pos, buf)
      /\ call' = [op |-> "write", offset |-> pos, buf |-> buf] /\ done' = -1
      /\ old' = Contents /\ typed' = <<>> /\ start' = 0 /\ cause' = "failed write"
      /\ UNCHANGED <<exists, sectors, length, pos, buffer, status>>
  BY DEF WriteFails, NotTyped
<1> HIDE DEF buf, n
<1>d. done' = -1 /\ start' = 0 /\ pos \in Int /\ length \in Nat
  <2>1. pos \in MinPosition..MaxLength /\ length \in 0..MaxLength
    BY <1>3 DEF IInv, TypeOK
  <2>2. done' = -1 /\ start' = 0
    BY <1>3
  <2> QED
    BY <2>1, <2>2, <1>1, FileAssumption
<1>4. call = NoCall /\ buffer = <<>>
  BY <1>3 DEF Prompt, IInv, NothingLeft
<1>5. call'.op = "write" /\ call'.offset = pos' /\ call'.buf = buf /\ call' # NoCall
  BY <1>3 DEF NoCall
<1>6. Contents \in Seq(Byte) /\ Contents' = Contents
  <2>1. Contents' = Contents
    BY <1>3 DEF Contents, ByteAt
  <2> QED
    BY <2>1, ContentsBytes
<1>7. TypeOK'
  <2>1. <<>> \in Seq(Char)
    BY EmptySeq
  <2>2. call' \in [op : {"write"}, offset : {pos'}, buf : Seq(Byte)]
    BY <1>2, <1>3
  <2>3. done' \in Int /\ start' \in 0..MaxLength
    BY <1>1, <1>d
  <2> QED
    BY <2>1, <2>2, <2>3, <1>3, <1>6 DEF IInv, TypeOK
<1>8. WriteGiven'
  <2>1. buf # <<>> /\ buf[Len(buf)] = NUL
    <3>1. n + 2 # 0
      BY <1>2
    <3>2. Len(<<>>) = 0
      BY EmptySeq
    <3> QED
      BY <3>1, <3>2, <1>2, Zenon
  <2>2. old' # <<>> => old'[Len(old')] = NUL
    BY <1>3, <1>4, OldEndsNull
  <2>4. ~(done' >= 0)
    BY <1>d
  <2>3. cause' # "none" /\ ~(done' >= 0) /\ buffer' = <<>>
    BY <1>3, <1>4, <2>4, Zenon
  <2> QED
    BY <2>1, <2>2, <2>3, <1>5 DEF WriteGiven
<1>9. FailedSoFar'
  <2>1. pos' < 0 \/ pos' + Len(call'.buf) > length'
    <3>1. PICK p \in Int, l \in Nat : p = pos /\ l = length
      BY <1>d
    <3>2. ~(0 <= p + Len(buf) - 1 /\ p + Len(buf) - 1 < l)
      BY <3>1, <1>3 DEF MustExtend
    <3>3. PICK b \in Nat : b = Len(buf) /\ b >= 2
      BY <1>2
    <3>4. ~(0 <= p + b - 1 /\ p + b - 1 < l)
      BY <3>2, <3>3, Zenon
    <3>5. p < 0 \/ p + b > l
      BY <3>4, <3>3
    <3> QED
      BY <3>1, <3>3, <3>5, <1>3, <1>5
  <2> QED
    BY <2>1, <1>3, <1>6 DEF FailedSoFar
<1>10. NothingLeft' /\ ReadSoFar' /\ TypedSoFar' /\ EndNull' /\ PositionValid'
  BY <1>3, <1>5 DEF NothingLeft, ReadSoFar, TypedSoFar, EndNull, PositionValid
<1>w. WrittenSoFar'
  <2>1. ~(done' >= 0)
    BY <1>d
  <2> QED
    BY <2>1 DEF WrittenSoFar
<1>11. SlackIsZero'
  BY <1>3 DEF IInv, SlackIsZero, ByteAt
<1> QED
  BY <1>7, <1>8, <1>9, <1>10, <1>11, <1>w DEF IInv

\* A host file's text with its terminator.
LEMMA OneTerminator ==
    ASSUME NEW text \in Seq(Char)
    PROVE  LET buf == text \o <<NUL>>
           IN /\ buf \in Seq(Byte) /\ Len(buf) = Len(text) + 1 /\ Len(text) \in Nat
              /\ buf # <<>> /\ buf[Len(buf)] = NUL
<1> DEFINE buf == text \o <<NUL>>
           n == Len(text)
           one == <<NUL>>
<1>1. text \in Seq(Byte) /\ one \in Seq(Byte) /\ n \in Nat
  BY LenProperties, SeqMonotonic DEF Byte
<1>2. Len(one) = 1 /\ one[1] = NUL
  OBVIOUS
<1> HIDE DEF one
<1>3. /\ text \o one \in Seq(Byte) /\ Len(text \o one) = n + Len(one)
      /\ \A i \in 1..n + Len(one) : (text \o one)[i] = IF i <= n THEN text[i] ELSE one[i - n]
  BY <1>1, ConcatProperties
<1>4. /\ buf \in Seq(Byte) /\ Len(buf) = n + 1
      /\ \A i \in 1..n + 1 : buf[i] = IF i <= n THEN text[i] ELSE one[i - n]
  BY <1>2, <1>3 DEF one
<1> HIDE DEF buf, n
<1>5. n + 1 \in 1..n + 1 /\ ~(n + 1 <= n) /\ (n + 1) - n = 1 /\ n + 1 # 0
  BY <1>1
<1>6. buf[n + 1] = NUL
  BY <1>2, <1>4, <1>5
<1>7. buf # <<>>
  <2>1. Len(<<>>) = 0
    BY EmptySeq
  <2> QED
    BY <2>1, <1>4, <1>5
<1>8. buf[Len(buf)] = NUL
  BY <1>4, <1>6, Zenon
<1> QED
  BY <1>1, <1>4, <1>7, <1>8 DEF buf, n

\* What file_write makes of a buffer has its length and ends in the terminator.
LEMMA Terminate ==
    ASSUME NEW u \in Seq(Byte)
    PROVE  /\ NullTerminated(u) \in Seq(Byte) /\ Len(NullTerminated(u)) = Len(u)
           /\ NullTerminated(u) # <<>> => NullTerminated(u)[Len(u)] = NUL
<1> DEFINE n == Len(u)
<1>1. n \in Nat /\ DOMAIN u = 1..n /\ u \in [1..n -> Byte] /\ NUL \in Byte
  BY LenProperties DEF Byte
<1>2. CASE u = <<>>
  BY <1>2 DEF NullTerminated
<1>3. CASE u # <<>>
  <2>1. n \in 1..n
    BY <1>1, <1>3, EmptySeq
  <2> DEFINE v == [u EXCEPT ![n] = NUL]
  <2>2. v \in [1..n -> Byte] /\ v[n] = NUL
    BY <1>1, <2>1
  <2>3. NullTerminated(u) = v
    BY <1>3 DEF NullTerminated
  <2> HIDE DEF v
  <2>4. v \in Seq(Byte) /\ Len(v) = n
    BY <1>1, <2>2
  <2> QED
    BY <2>2, <2>3, <2>4
<1> QED
  BY <1>2, <1>3

\* What copy_in writes: the number of bytes that get_write_size says.
LEMMA CopiedBytes ==
    ASSUME NEW text \in Seq(Char), NEW n \in get_write_size(text)
    PROVE  LET buf == NullTerminated(SubSeq(text \o <<NUL>>, 1, n))
           IN /\ n \in Nat /\ buf \in Seq(Byte) /\ Len(buf) = n
              /\ buf # <<>> => buf[Len(buf)] = NUL
<1> DEFINE whole == text \o <<NUL>>
           k == Len(text)
           u == SubSeq(whole, 1, n)
<1>1. whole \in Seq(Byte) /\ Len(whole) = k + 1 /\ k \in Nat
  BY OneTerminator
<1>2. n \in 0..k + 1
  BY <1>1 DEF get_write_size
<1> HIDE DEF whole
<1>3. \A i \in 1..n : whole[i] \in Byte
  <2>1. \A i \in 1..n : i \in 1..Len(whole)
    BY <1>1, <1>2
  <2> QED
    BY <1>1, <2>1, ElementOfSeq
<1>4. u \in Seq(Byte) /\ Len(u) = n
  <2>1. 1 \in Int /\ n \in Int
    BY <1>1, <1>2
  <2>2. u \in Seq(Byte) /\ Len(u) = IF 1 <= n THEN n - 1 + 1 ELSE 0
    BY <1>3, <2>1, SubSeqProperties
  <2>3. (IF 1 <= n THEN n - 1 + 1 ELSE 0) = n
    BY <1>1, <1>2
  <2> HIDE DEF u
  <2> QED
    BY <2>2, <2>3
<1>5. n \in Nat
  BY <1>1, <1>2
<1> HIDE DEF u
<1> QED
  BY <1>4, <1>5, Terminate DEF u, whole

\* copy_in writes to a file of zeros.
LEMMA CopyInIInv ==
    ASSUME IInv, NEW text \in Texts, NEW m \in get_write_size(text), copy_in(text, m)
    PROVE  IInv'
<1> DEFINE buf == NullTerminated(SubSeq(text \o <<NUL>>, 1, m))
<1>1. text \in Seq(Char) /\ MaxLength \in Nat
  BY FileAssumption
<1>2. m \in Nat /\ buf \in Seq(Byte) /\ Len(buf) = m /\ (buf # <<>> => buf[Len(buf)] = NUL)
  BY <1>1, CopiedBytes
<1>4. /\ Prompt /\ ~exists /\ m <= MaxLength
      /\ exists' = TRUE /\ length' = m /\ sectors' = inode_reserve(<<>>, m)
      /\ old' = [i \in 1..m |-> NUL] /\ call' = [op |-> "write", offset |-> 0, buf |-> buf]
      /\ cause' = WritesFew(m)
      /\ UNCHANGED <<pos, done, buffer, status, typed, start>>
  BY DEF copy_in, StartWrite
<1> HIDE DEF buf
<1>5. pos = 0 /\ typed = <<>> /\ start \in 0..MaxLength /\ typed \in Seq(Char)
  BY <1>4 DEF IInv, NothingLeft, TypeOK
<1>6. m \in Nat
  BY <1>2
<1>7. /\ sectors' \in Sectors /\ m <= B * Len(sectors') /\ B * Len(sectors') \in Nat
      /\ \A i \in Nat : i < B * Len(sectors') => At(sectors', i) = NUL
  BY <1>4, <1>6, ZeroSectors
<1>8. /\ old' \in Seq(Byte) /\ Len(old') = m /\ \A i \in 1..m : old'[i] = NUL
  <2> DEFINE z == [i \in 1..m |-> NUL]
  <2>1. z \in [1..m -> Byte] /\ \A i \in 1..m : z[i] = NUL
    BY DEF Byte
  <2>2. old' = z
    BY <1>4
  <2> HIDE DEF z
  <2> QED
    BY <2>1, <2>2, <1>6
<1>10. Len(buf) >= 2 \/ cause' # "none"
  <2>1. CASE m < 2
    BY <2>1, <1>4 DEF WritesFew
  <2>2. CASE ~(m < 2)
    BY <2>2, <1>2
  <2> QED
    BY <2>1, <2>2
<1>11. pos' = 0 /\ pos' \in 0..MaxLength /\ length' \in 0..MaxLength /\ start' \in 0..MaxLength /\ typed' = <<>>
       /\ typed' \in Seq(Char)
  <2>1. pos' = 0 /\ length' = m /\ start' = start /\ typed' = <<>> /\ m <= MaxLength
    BY <1>4, <1>5
  <2> QED
    BY <2>1, <1>1, <1>5, <1>6
<1>12. TypedSoFar'
  BY <1>11 DEF TypedSoFar
<1>13. old' # <<>> => old'[Len(old')] = NUL
  <2>1. m # 0 => m \in 1..m
    BY <1>6
  <2>2. m = 0 => old' = <<>>
    BY <1>8, EmptySeq
  <2> QED
    BY <2>1, <2>2, <1>8
<1>14. pos' + Len(buf) = m /\ length' = m /\ m <= m
  <2>1. Len(buf) = m /\ length' = m /\ pos' = 0
    BY <1>2, <1>4, <1>11
  <2> QED
    BY <2>1, <1>6
<1>15. \A i \in Nat : m <= i /\ i < B * Len(sectors') => At(sectors', i) = NUL
  BY <1>7
<1>16. \A i \in 1..length' : (i <= pos' \/ i > pos' + Len(buf)) =>
               At(sectors', i - 1) = IF i <= Len(old') THEN old'[i] ELSE NUL
  <2> SUFFICES ASSUME NEW i \in 1..m PROVE At(sectors', i - 1) = old'[i] /\ i <= m
    BY <1>8, <1>14
  <2>1. i - 1 \in Nat /\ i - 1 < B * Len(sectors') /\ i <= m
    BY <1>6, <1>7
  <2> QED
    BY <2>1, <1>7, <1>8
<1> QED
  BY <1>2, <1>4, <1>7, <1>8, <1>10, <1>11, <1>12, <1>13, <1>14, <1>15, <1>16, WriteStarts

\* defragment writes the file back to sectors of zeros.
LEMMA DefragmentIInv == ASSUME IInv, defragment PROVE IInv'
<1>1. /\ Prompt /\ exists /\ sectors' = inode_reserve(<<>>, length)
      /\ pos' = 0 /\ old' = Contents
      /\ call' = [op |-> "write", offset |-> 0, buf |-> NullTerminated(Contents)]
      /\ typed' = <<>> /\ start' = 0
      /\ cause' = WritesFew(length)
      /\ UNCHANGED <<exists, length, done, buffer, status>>
  BY DEF defragment, StartWrite, NotTyped
<1>2. /\ Contents \in Seq(Byte) /\ Len(Contents) = length /\ length \in 0..MaxLength
  BY ContentsBytes
<1>3. MaxLength \in Nat /\ length \in Nat
  BY <1>2, FileAssumption
<1>4. call = NoCall
  BY <1>1 DEF Prompt
<1>6. Contents # <<>> => Contents[Len(Contents)] = NUL
  BY <1>4, OldEndsNull
<1> DEFINE buf == Contents
<1> HIDE DEF buf
<1>7. /\ buf = Contents /\ buf \in Seq(Byte) /\ (buf # <<>> => buf[Len(buf)] = NUL) /\ Len(buf) = length
  BY <1>2, <1>6 DEF buf
<1>8. NullTerminated(buf) = buf
  BY <1>7, TerminatedAlready
<1>9. call' = [op |-> "write", offset |-> pos', buf |-> buf] /\ old' = buf
  BY <1>1, <1>7, <1>8
<1>10. /\ sectors' \in Sectors /\ length <= B * Len(sectors') /\ B * Len(sectors') \in Nat
       /\ \A i \in Nat : i < B * Len(sectors') => At(sectors', i) = NUL
  BY <1>1, <1>3, ZeroSectors
<1>11. Len(buf) >= 2 \/ cause' # "none"
  <2>1. CASE length < 2
    BY <2>1, <1>1 DEF WritesFew
  <2>2. CASE ~(length < 2)
    BY <2>2, <1>3, <1>7
  <2> QED
    BY <2>1, <2>2
<1>12. typed' \in Seq(Char) /\ TypedSoFar'
  BY <1>1, EmptySeq DEF TypedSoFar
<1>13. /\ pos' \in 0..MaxLength /\ length' \in 0..MaxLength /\ start' \in 0..MaxLength
       /\ length' = length /\ Len(old') = length /\ pos' = 0 /\ exists' = TRUE
  <2>1. pos' = 0 /\ length' = length /\ start' = 0 /\ exists' = TRUE
    BY <1>1
  <2>2. Len(old') = length
    BY <1>7, <1>9
  <2> QED
    BY <2>1, <2>2, <1>2, <1>3
<1>14. pos' + Len(buf) = length /\ Len(old') <= length' /\ pos' + Len(buf) <= length'
  BY <1>3, <1>7, <1>13
<1>15. \A i \in 1..length' : ~(i <= pos' \/ i > pos' + Len(buf))
  BY <1>3, <1>13, <1>14
<1>16. \A i \in Nat : length' <= i /\ i < B * Len(sectors') => At(sectors', i) = NUL
  BY <1>10
<1>17. old' # <<>> => old'[Len(old')] = NUL
  BY <1>7, <1>9
<1>18. length' \in {Len(old'), pos' + Len(buf)} /\ length' <= B * Len(sectors')
  BY <1>10, <1>13
<1>19. old' \in Seq(Byte)
  BY <1>7, <1>9
<1>20. UNCHANGED <<done, buffer, status>> /\ Prompt
  BY <1>1
<1> QED
  BY <1>7, <1>9, <1>10, <1>11, <1>12, <1>13, <1>14, <1>15, <1>16, <1>17, <1>18, <1>19, <1>20, WriteStarts

\* A turn of inode_write_at's loop writes the bytes of the call that follow,
\* and no others, through the bounce buffer or not.
LEMMA ChunkWritten ==
    ASSUME IInv, WriteChunk,
           NEW p \in Nat, p = pos, NEW d \in Nat, d = done, NEW l \in Nat, l = length,
           NEW n \in Nat, n = Len(call.buf), NEW c \in Nat, c = chunk_size
    PROVE  /\ c > 0 /\ d + c <= n /\ p + d + c <= l
           /\ sectors' \in Sectors /\ Len(sectors') = Len(sectors)
           /\ \A i \in Nat : i < B * Len(sectors) =>
                At(sectors', i) = IF p + d <= i /\ i < p + d + c THEN call.buf[(i - p) + 1]
                                  ELSE At(sectors, i)
<1> DEFINE o == offset
           f == o % B
           blk == sectors[sector]
           g == [i \in Block |-> IF sector_ofs < i /\ i <= sector_ofs + chunk_size
                                 THEN call.buf[done + i - sector_ofs] ELSE Bounce(blk)[i]]
<1>1. TypeOK /\ call.op = "write" /\ done >= 0 /\ pos >= 0 /\ size > 0 /\ chunk_size > 0
      /\ sectors' = [sectors EXCEPT ![sector] = g]
  BY DEF WriteChunk, IInv, WriteGiven
<1>2. sectors \in Sectors /\ B \in Nat /\ B > 0 /\ call.buf \in Seq(Byte)
  BY <1>1, CallFields, FileAssumption DEF TypeOK, Sectors, B
<1>3. size = n - d
  BY <1>1 DEF size
<1>4. /\ o = p + d /\ o \in Nat
      /\ c > 0 /\ c <= n - d
      /\ o + c <= l
      /\ f + c <= B /\ sector_ofs = f
      /\ o + c <= B * Len(sectors)
      /\ sector = (o \div B) + 1
  <2>1. size \in Int
    BY <1>3
  <2>2. /\ o = pos + done /\ o \in Nat
        /\ chunk_size \in Nat \ {0} /\ chunk_size <= size
        /\ o + chunk_size <= length
        /\ f + chunk_size <= B /\ sector_ofs = f
        /\ o + chunk_size <= B * Len(sectors)
        /\ sector = (o \div B) + 1
    BY <1>1, <2>1, ChunkFits
  <2> HIDE DEF o, f
  <2>3. c > 0 /\ c <= n - d
    BY <2>2, <1>1, <1>3
  <2> QED
    BY <2>2, <2>3
<1>5. f \in 0..B - 1 /\ o \div B \in Nat /\ f \in Nat
  BY <1>2, <1>4, Split
<1>6. sector \in 1..Len(sectors) /\ blk \in [Block -> Byte]
  <2>1. Len(sectors) \in Nat
    BY <1>2, LenProperties DEF Sectors
  <2>2. o < B * Len(sectors)
    <3>1. B * Len(sectors) \in Int
      BY <2>1, <1>2
    <3> HIDE DEF o
    <3> QED
      BY <3>1, <1>4
  <2>3. sector \in 1..Len(sectors)
    BY <2>1, <2>2, <1>4, InSector
  <2> QED
    BY <2>3, <1>2 DEF Sectors
<1> HIDE DEF blk
<1>7. g = [i \in Block |-> IF f < i /\ i <= f + c THEN call.buf[d + i - f] ELSE Bounce(blk)[i]]
  BY <1>4
<1> HIDE DEF o, f, g
<1>8. /\ Bounce(blk) \in [Block -> Byte]
      /\ \A k \in Block : k <= f \/ k > f + c => Bounce(blk)[k] = blk[k]
  <2>1. CASE Bounce(blk) = blk
    BY <2>1, <1>6
  <2>2. CASE Bounce(blk) = ZeroBlock /\ ~(f > 0) /\ ~(c < B - f)
    <3>1. \A k \in Block : ~(k <= f \/ k > f + c)
      BY <2>2, <1>2, <1>4, <1>5 DEF Block, B
    <3>2. ZeroBlock \in [Block -> Byte]
      BY DEF ZeroBlock, Byte
    <3> QED
      BY <2>2, <3>1, <3>2
  <2>3. \/ Bounce(blk) = blk
        \/ Bounce(blk) = ZeroBlock /\ ~(f > 0) /\ ~(c < B - f)
    BY <1>4 DEF Bounce, B
  <2> QED
    BY <2>1, <2>2, <2>3
<1>9. \A k \in Block : f < k /\ k <= f + c => call.buf[d + k - f] \in Byte
  <2> SUFFICES ASSUME NEW k \in Block, f < k, k <= f + c PROVE call.buf[d + k - f] \in Byte
    OBVIOUS
  <2>1. k \in Nat
    BY <1>2 DEF Block, B
  <2>2. d + k - f \in 1..n
    BY <2>1, <1>4, <1>5
  <2>3. \A i \in 1..n : call.buf[i] \in Byte
    BY <1>2
  <2> QED
    BY <2>2, <2>3
<1>10. g \in [Block -> Byte]
  BY <1>7, <1>8, <1>9
<1>11. \A k \in Block : k <= f \/ k > f + c => g[k] = sectors[(o \div B) + 1][k]
  <2> SUFFICES ASSUME NEW k \in Block, k <= f \/ k > f + c PROVE g[k] = blk[k]
    BY <1>4 DEF blk
  <2>1. ~(f < k /\ k <= f + c)
    BY <1>2, <1>4, <1>5 DEF Block, B
  <2> QED
    BY <2>1, <1>7, <1>8
<1>12. /\ sectors' \in Sectors /\ Len(sectors') = Len(sectors)
       /\ \A i \in Nat : i < B * Len(sectors) =>
            At(sectors', i) = IF o <= i /\ i < o + c THEN g[f + (i - o) + 1] ELSE At(sectors, i)
  <2>1. sectors' = [sectors EXCEPT ![(o \div B) + 1] = g]
    BY <1>1, <1>4 DEF g, blk
  <2>2. c \in Nat \ {0} /\ o \in Nat /\ (o % B) + c <= B /\ o + c <= B * Len(sectors)
    BY <1>4 DEF f
  <2>3. \A k \in Block : k <= o % B \/ k > (o % B) + c => g[k] = sectors[(o \div B) + 1][k]
    BY <1>11 DEF f
  <2>4. sectors \in Sectors /\ g \in [Block -> Byte]
    BY <1>2, <1>10
  <2>5. ReplacesChunk(sectors, o, c, g, sectors')
    BY <2>1, <2>2, <2>3, <2>4 DEF ReplacesChunk
  <2>6. ChunkReplaced(sectors, o, c, g, sectors')
    BY <2>2, <2>4, <2>5, CopyChunk
  <2> QED
    BY <2>6 DEF ChunkReplaced, f
<1>13. ASSUME NEW i \in Nat, o <= i, i < o + c PROVE g[f + (i - o) + 1] = call.buf[(i - p) + 1]
  <2> DEFINE k == f + (i - o) + 1
  <2>1. k \in Block /\ f < k /\ k <= f + c /\ d + k - f = (i - p) + 1
    BY <1>2, <1>4, <1>5, <1>13 DEF Block, B
  <2> HIDE DEF k
  <2>2. g[k] = call.buf[d + k - f]
    BY <2>1, <1>7
  <2> QED
    BY <2>1, <2>2 DEF k
<1>14. d + c <= n /\ p + d + c <= l
  BY <1>4
<1> QED
  BY <1>4, <1>12, <1>13, <1>14

\* Such a turn keeps what was written before it, and the zeros behind the end.
LEMMA WriteChunkIInv == ASSUME IInv, WriteChunk PROVE IInv'
<1>1. TypeOK /\ call.op = "write" /\ done >= 0 /\ pos >= 0 /\ chunk_size > 0
      /\ done' = done + chunk_size
      /\ UNCHANGED <<exists, length, pos, call, buffer, result, status, old, typed, start, cause>>
  BY DEF WriteChunk, IInv, WriteGiven
<1>2. call.buf \in Seq(Byte) /\ MaxLength \in Nat /\ B \in Nat /\ sectors \in Sectors
  BY <1>1, CallFields, FileAssumption DEF TypeOK, Sectors, B
<1>3. PICK p \in Nat, d \in Nat, l \in Nat, n \in Nat :
        p = pos /\ d = done /\ l = length /\ n = Len(call.buf)
  <2>1. pos \in Nat /\ done \in Nat /\ length \in Nat
    BY <1>1, <1>2 DEF TypeOK
  <2>2. Len(call.buf) \in Nat
    BY <1>2
  <2> QED
    BY <2>1, <2>2
<1>4. PICK c \in Nat : c = chunk_size
  <2>1. size = n - d
    BY <1>1, <1>3 DEF size
  <2>2. chunk_size \in Nat
    BY <2>1, <1>1, ChunkFits DEF WriteChunk
  <2> QED
    BY <2>2
<1>5. /\ c > 0 /\ d + c <= n /\ p + d + c <= l
      /\ sectors' \in Sectors /\ Len(sectors') = Len(sectors)
      /\ \A i \in Nat : i < B * Len(sectors) =>
           At(sectors', i) = IF p + d <= i /\ i < p + d + c THEN call.buf[(i - p) + 1]
                             ELSE At(sectors, i)
  BY <1>3, <1>4, ChunkWritten
<1>6. PICK m \in Nat : m = B * Len(sectors) /\ l <= m
  <2>1. Len(sectors) \in Nat
    BY <1>2, LenProperties DEF Sectors
  <2>2. B * Len(sectors) \in Nat
    BY <2>1, <1>2
  <2> QED
    BY <2>2, <1>1, <1>3 DEF TypeOK, B
<1>7. ASSUME NEW i \in Nat, i < m
      PROVE  At(sectors', i) = IF p + d <= i /\ i < p + d + c THEN call.buf[(i - p) + 1]
                               ELSE At(sectors, i)
  BY <1>5, <1>6, <1>7
<1>8. done' = d + c
  BY <1>1, <1>3, <1>4
<1>9. TypeOK'
  <2>1. done' \in Int
    BY <1>8
  <2>2. length' <= BLOCK_SECTOR_SIZE * Len(sectors') /\ sectors' \in Seq([Block -> Byte])
    BY <1>1, <1>5 DEF TypeOK, Sectors
  <2> QED
    BY <2>1, <2>2, <1>1 DEF TypeOK
<1>10. NothingLeft' /\ ReadSoFar' /\ WriteGiven' /\ TypedSoFar' /\ EndNull' /\ PositionValid'
  <2>1. call' # NoCall /\ call'.op = "write" /\ exists
    BY <1>1, CallFields DEF IInv, NothingLeft
  <2> QED
    BY <2>1, <1>1 DEF IInv, NothingLeft, ReadSoFar, WriteGiven, TypedSoFar, EndNull, PositionValid
<1>11. FailedSoFar'
  <2>1. ~(done' < 0)
    BY <1>8
  <2> QED
    BY <2>1 DEF FailedSoFar
<1>12. SlackIsZero'
  <2> SUFFICES ASSUME NEW i \in l..m - 1 PROVE At(sectors', i) = NUL
    BY <1>1, <1>3, <1>5, <1>6 DEF SlackIsZero, ByteAt, B
  <2>1. i \in Nat /\ i < m /\ ~(i < p + d + c)
    BY <1>5
  <2>2. At(sectors, i) = NUL
    BY <1>3, <1>6 DEF IInv, SlackIsZero, ByteAt, B
  <2> QED
    BY <2>1, <2>2, <1>7
<1>13. /\ p + n <= l /\ Len(old) <= length /\ length \in {Len(old), pos + Len(call.buf)}
       /\ \A i \in 1..d : At(sectors, p + i - 1) = call.buf[i]
       /\ \A i \in 1..l : (i <= p \/ i > p + n) =>
                At(sectors, i - 1) = IF i <= Len(old) THEN old[i] ELSE NUL
  BY <1>1, <1>3 DEF IInv, WrittenSoFar, ByteAt
<1>14. ASSUME NEW i \in 1..d + c PROVE At(sectors', p + i - 1) = call.buf[i]
  <2>1. p + i - 1 \in Nat /\ p + i - 1 < m /\ ((p + i - 1) - p) + 1 = i /\ p + i - 1 < p + d + c
    BY <1>5, <1>6
  <2>2. CASE i <= d
    <3>1. i \in 1..d /\ ~(p + d <= p + i - 1)
      BY <2>2
    <3> QED
      BY <3>1, <2>1, <1>7, <1>13
  <2>3. CASE i > d
    <3>1. p + d <= p + i - 1
      BY <2>3
    <3> QED
      BY <3>1, <2>1, <1>7
  <2> QED
    BY <2>2, <2>3
<1>15. ASSUME NEW i \in 1..l, i <= p \/ i > p + n
       PROVE  At(sectors', i - 1) = IF i <= Len(old) THEN old[i] ELSE NUL
  <2>1. i - 1 \in Nat /\ i - 1 < m /\ ~(p + d <= i - 1 /\ i - 1 < p + d + c)
    BY <1>5, <1>6, <1>15
  <2> QED
    BY <2>1, <1>7, <1>13, <1>15
<1>16. WrittenSoFar'
  <2>1. done' <= Len(call'.buf) /\ pos' + Len(call'.buf) <= length'
    BY <1>1, <1>3, <1>5, <1>8, <1>13
  <2>2. Len(old') <= length' /\ length' \in {Len(old'), pos' + Len(call'.buf)}
    BY <1>1, <1>13
  <2>3. \A i \in 1..done' : At(sectors', pos' + i - 1) = call'.buf[i]
    BY <1>1, <1>3, <1>8, <1>14
  <2>4. \A i \in 1..length' : (i <= pos' \/ i > pos' + Len(call'.buf)) =>
                At(sectors', i - 1) = IF i <= Len(old') THEN old'[i] ELSE NUL
    BY <1>1, <1>3, <1>15
  <2> QED
    BY <2>1, <2>2, <2>3, <2>4 DEF WrittenSoFar, ByteAt
<1> QED
  BY <1>9, <1>10, <1>11, <1>12, <1>16 DEF IInv

\* inode_write_at's loop ends when all is written, not before: a chunk is
\* empty only if nothing is left of the call.
LEMMA AllWritten ==
    ASSUME IInv, WriteReturns
    PROVE  done = Len(call.buf)
<1>1. TypeOK /\ call.op = "write" /\ done >= 0 /\ pos >= 0 /\ call.offset = pos /\ call.buf \in Seq(Byte)
  BY CallFields DEF WriteReturns, IInv, WriteGiven
<1>2. PICK p \in Nat, d \in Nat, l \in Nat, n \in Nat :
        p = pos /\ d = done /\ l = length /\ n = Len(call.buf)
  <2>1. pos \in Nat /\ done \in Nat /\ length \in Nat
    BY <1>1, FileAssumption DEF TypeOK
  <2>2. Len(call.buf) \in Nat
    BY <1>1
  <2> QED
    BY <2>1, <2>2
<1>3. d <= n /\ p + n <= l
  BY <1>1, <1>2 DEF IInv, WrittenSoFar
<1>4. size = n - d /\ offset = p + d
  BY <1>1, <1>2 DEF size, offset
<1>5. PICK f \in Nat : f = sector_ofs /\ f < B
  <2>1. (p + d) % B \in 0..B - 1
    BY Split
  <2> QED
    BY <2>1, <1>4, FileAssumption DEF sector_ofs, B
<1>6. B \in Nat
  BY FileAssumption DEF B
<1>7. chunk_size = Lesser(n - d, Lesser(l - (p + d), B - f))
  BY <1>2, <1>4, <1>5 DEF chunk_size, B
<1>8. n - d <= 0 \/ Lesser(n - d, Lesser(l - (p + d), B - f)) <= 0
  BY <1>4, <1>7 DEF WriteReturns
<1>9. d = n
  BY <1>3, <1>5, <1>6, <1>8 DEF Lesser
<1> QED
  BY <1>2, <1>9

\* inode_write_at returns: the terminators of the texts are where the next
\* text will be written.
LEMMA WriteReturnsIInv == ASSUME IInv, WriteReturns PROVE IInv'
<1>1. /\ TypeOK /\ call.op = "write" /\ done >= 0 /\ pos >= 0 /\ status = "ok"
      /\ call.buf \in Seq(Byte) /\ (call.buf # <<>> => call.buf[Len(call.buf)] = NUL)
      /\ Len(call.buf) >= 2 \/ cause # "none"
      /\ old # <<>> => old[Len(old)] = NUL
      /\ exists
  BY CallFields DEF WriteReturns, IInv, WriteGiven, Calling, NothingLeft
<1>2. /\ pos' = pos + done - 2
      /\ call' = NoCall /\ done' = 0 /\ buffer' = <<>> /\ old' = <<>>
      /\ UNCHANGED <<exists, sectors, length, status, typed, start, cause>>
  BY DEF WriteReturns, PositionAfter, Return
<1>3. PICK p \in Nat, l \in Nat, n \in Nat, o \in Nat :
        p = pos /\ l = length /\ n = Len(call.buf) /\ o = Len(old)
  <2>1. pos \in Nat /\ length \in Nat /\ old \in Seq(Byte)
    BY <1>1, FileAssumption DEF TypeOK
  <2>2. Len(call.buf) \in Nat
    BY <1>1
  <2>3. Len(old) \in Nat
    BY <2>1
  <2> QED
    BY <2>1, <2>2, <2>3
<1>4. done = n
  BY <1>3, AllWritten
<1>5. /\ p + n <= l /\ o <= l /\ l \in {o, p + n}
      /\ \A i \in 1..n : At(sectors, p + i - 1) = call.buf[i]
      /\ \A i \in 1..l : (i <= p \/ i > p + n) => At(sectors, i - 1) = IF i <= o THEN old[i] ELSE NUL
  BY <1>1, <1>3, <1>4 DEF IInv, WrittenSoFar, ByteAt
<1>6. pos' = p + n - 2 /\ call'.op = "none" /\ call'.op # "read" /\ call'.op # "write"
  BY <1>2, <1>3, <1>4 DEF NoCall
<1>7. MaxLength \in Nat /\ l <= MaxLength
  BY <1>1, <1>3, FileAssumption DEF TypeOK
<1>8. TypeOK'
  <2>1. p + n - 2 \in MinPosition..MaxLength
    BY <1>5, <1>7, FileAssumption
  <2>2. <<>> \in Seq(Byte)
    BY EmptySeq
  <2>3. done' \in Int
    BY <1>2
  <2>4. pos' \in MinPosition..MaxLength
    BY <2>1, <1>6
  <2>5. call' \in {NoCall} /\ buffer' \in Seq(Byte) /\ old' \in Seq(Byte)
    BY <2>2, <1>2
  <2>6. UNCHANGED <<exists, sectors, length, status, typed, start>>
    BY <1>2
  <2> QED
    BY <2>3, <2>4, <2>5, <2>6, <1>1 DEF TypeOK
<1>9. n # 0 => At(sectors, p + n - 1) = NUL
  <2> SUFFICES ASSUME n # 0 PROVE At(sectors, p + n - 1) = NUL
    OBVIOUS
  <2>1. n \in 1..n
    OBVIOUS
  <2>2. call.buf[n] = NUL
    BY <1>1, <1>3, EmptySeq
  <2> QED
    BY <2>1, <2>2, <1>5
<1>10. At(sectors, l - 1) = NUL \/ l = 0
  <2>1. CASE l = p + n /\ n # 0
    BY <2>1, <1>9
  <2>3. CASE n = 0 /\ l # 0
    <3>1. l \in 1..l /\ (l <= p \/ l > p + n) /\ (l <= o => l = o)
      BY <2>3, <1>5
    <3>2. At(sectors, l - 1) = IF l <= o THEN old[l] ELSE NUL
      BY <3>1, <1>5
    <3>3. l = o => old # <<>>
      BY <2>3, <1>3, EmptySeq
    <3> QED
      BY <3>1, <3>2, <3>3, <1>1, <1>3
  <2>2. CASE l # p + n
    <3>1. l = o /\ l > p + n /\ l \in 1..l /\ l # 0
      BY <2>2, <1>5
    <3>2. At(sectors, l - 1) = old[o]
      BY <3>1, <1>5
    <3>3. old # <<>>
      BY <3>1, <1>3, EmptySeq
    <3> QED
      BY <3>2, <3>3, <1>1, <1>3
  <2> QED
    BY <2>1, <2>2, <2>3
<1>11. EndNull'
  <2>1. length' = l /\ sectors' = sectors
    BY <1>2, <1>3
  <2>2. l > 0 => l # 0
    OBVIOUS
  <2> QED
    BY <2>1, <2>2, <1>10 DEF EndNull, ByteAt
<1>12. NothingLeft' /\ ReadSoFar' /\ WriteGiven' /\ FailedSoFar' /\ WrittenSoFar'
  <2>1. exists' /\ done' = 0 /\ buffer' = <<>>
    BY <1>1, <1>2
  <2> QED
    BY <2>1, <1>6 DEF NothingLeft, ReadSoFar, WriteGiven, FailedSoFar, WrittenSoFar
<1>13. SlackIsZero'
  <2>1. UNCHANGED <<sectors, length>>
    BY <1>2
  <2> QED
    BY <2>1 DEF IInv, SlackIsZero, ByteAt
<1>14. PositionValid'
  <2>1. p + n - 2 >= 0 \/ ~(n >= 2)
    OBVIOUS
  <2>2. status' = "ok" /\ cause' = cause
    BY <1>1, <1>2
  <2>3. n >= 2 \/ cause # "none"
    BY <1>1, <1>3
  <2>4. ~(pos' < 0) \/ cause' # "none"
    BY <2>1, <2>2, <2>3, <1>6
  <2> QED
    BY <2>2, <2>4 DEF PositionValid
<1>15. TypedSoFar'
  <2> SUFFICES ASSUME typed # <<>>
               PROVE  /\ pos' = start + Len(typed) /\ pos' + 2 <= length
                      /\ \A i \in 1..Len(typed) : At(sectors, start + i - 1) = typed[i]
                      /\ At(sectors, pos') = NUL /\ At(sectors, pos' + 1) = NUL
    BY <1>2, <1>6 DEF TypedSoFar, ByteAt
  <2>1. PICK s \in Nat, k \in Nat : s = start /\ k = Len(typed)
    <3>1. start \in Nat /\ typed \in Seq(Char)
      BY <1>1, FileAssumption DEF TypeOK
    <3>2. Len(typed) \in Nat
      BY <3>1
    <3> QED
      BY <3>1, <3>2
  <2>2. /\ s <= p /\ n = s + k - p + 2
        /\ n >= 2 /\ call.buf[n - 1] = NUL
        /\ p > s => p <= o
        /\ \A i \in 1..k : typed[i] = IF s + i <= p THEN old[s + i] ELSE call.buf[s + i - p]
    BY <2>1, <1>1, <1>3 DEF IInv, TypedSoFar
  <2>3. pos' = s + k /\ pos' + 2 <= l
    <3>1. p + n - 2 = s + k /\ (s + k) + 2 <= l
      BY <2>2, <1>5
    <3> QED
      BY <3>1, <1>6
  <2>4. At(sectors, p + n - 2) = NUL
    <3>1. n - 1 \in 1..n /\ p + (n - 1) - 1 = p + n - 2
      BY <2>2
    <3> QED
      BY <3>1, <2>2, <1>5
  <2>5. At(sectors, pos') = NUL /\ At(sectors, pos' + 1) = NUL
    <3>1. (p + n - 2) + 1 = p + n - 1
      OBVIOUS
    <3> QED
      BY <3>1, <2>2, <2>4, <1>6, <1>9
  <2>6. ASSUME NEW i \in 1..k PROVE At(sectors, s + i - 1) = typed[i]
    <3>1. CASE s + i <= p
      <4>1. s + i \in 1..l /\ p > s /\ (s + i) - 1 = s + i - 1
        BY <3>1, <2>2, <1>5
      <4>2. s + i <= o
        BY <3>1, <4>1, <2>2
      <4> QED
        BY <3>1, <4>1, <4>2, <2>2, <1>5
    <3>2. CASE ~(s + i <= p)
      <4>1. s + i - p \in 1..n /\ p + (s + i - p) - 1 = s + i - 1
        <5>1. n = s + k - p + 2 /\ ~(s + i <= p)
          BY <3>2, <2>2
        <5> QED
          BY <5>1
      <4> QED
        BY <3>2, <4>1, <2>2, <1>5
    <3> QED
      BY <3>1, <3>2
  <2> QED
    BY <2>1, <2>3, <2>5, <2>6, <1>3
<1> QED
  BY <1>8, <1>11, <1>12, <1>13, <1>14, <1>15 DEF IInv

\* The write that failed returns: the file is what it was.
LEMMA FailedReturnsIInv == ASSUME IInv, FailedReturns PROVE IInv'
<1>1. /\ TypeOK /\ call # NoCall /\ done = -1 /\ status = "ok"
      /\ pos' = pos - 2
      /\ call' = NoCall /\ done' = 0 /\ buffer' = <<>> /\ old' = <<>>
      /\ UNCHANGED <<exists, sectors, length, status, typed, start, cause>>
  BY DEF FailedReturns, IInv, Calling, Return
<1>2. call.op = "write"
  <2>1. call.op # "read"
    <3>1. ~(done >= 0)
      BY <1>1
    <3>2. call.op = "read" => done >= 0
      BY <1>1, CallFields, FileAssumption DEF IInv, ReadSoFar
    <3> QED
      BY <3>1, <3>2
  <2> QED
    BY <2>1, <1>1, CallFields
<1>3. /\ pos - 2 >= MinPosition /\ exists /\ cause # "none" /\ typed = <<>> /\ old = Contents
      /\ old # <<>> => old[Len(old)] = NUL
  <2>1. done < 0
    BY <1>1
  <2> QED
    BY <2>1, <1>1, <1>2 DEF IInv, WriteGiven, FailedSoFar, NothingLeft
<1>4. call'.op = "none"
  BY <1>1 DEF NoCall
<1>5. TypeOK'
  <2>1. MaxLength \in Nat /\ pos \in Int /\ pos <= MaxLength
    BY <1>1, FileAssumption DEF TypeOK
  <2>2. pos' \in MinPosition..MaxLength
    <3>1. pos' = pos - 2 /\ pos - 2 >= MinPosition
      BY <1>1, <1>3
    <3> QED
      BY <3>1, <2>1, FileAssumption
  <2>3. <<>> \in Seq(Byte)
    BY EmptySeq
  <2>4. done' \in Int
    BY <1>1
  <2>5. call' \in {NoCall} /\ buffer' \in Seq(Byte) /\ old' \in Seq(Byte)
    BY <2>3, <1>1
  <2>6. UNCHANGED <<exists, sectors, length, status, typed, start>>
    BY <1>1
  <2> QED
    BY <2>2, <2>4, <2>5, <2>6, <1>1 DEF TypeOK
<1>6. EndNull'
  <2>1. /\ Contents \in Seq(Byte) /\ Len(Contents) = length /\ length \in 0..MaxLength
        /\ \A i \in 1..length : Contents[i] = At(sectors, i - 1)
    BY ContentsBytes
  <2> SUFFICES ASSUME length > 0 PROVE At(sectors, length - 1) = NUL
    BY <1>1 DEF EndNull, ByteAt
  <2>2. length \in 1..length
    BY <2>1
  <2>3. Contents # <<>>
    BY <2>1, EmptySeq
  <2>4. Contents[length] = NUL
    BY <2>1, <2>3, <1>3
  <2> QED
    BY <2>1, <2>2, <2>4
<1>7. NothingLeft' /\ ReadSoFar' /\ WriteGiven' /\ FailedSoFar' /\ WrittenSoFar' /\ TypedSoFar' /\ PositionValid'
  <2>1. exists' /\ done' = 0 /\ buffer' = <<>> /\ cause' # "none" /\ typed' = <<>>
    BY <1>1, <1>3
  <2> QED
    BY <2>1, <1>4 DEF NothingLeft, ReadSoFar, WriteGiven, FailedSoFar, WrittenSoFar, TypedSoFar, PositionValid
<1>8. SlackIsZero'
  <2>1. UNCHANGED <<sectors, length>>
    BY <1>1
  <2> QED
    BY <2>1 DEF IInv, SlackIsZero, ByteAt
<1> QED
  BY <1>5, <1>6, <1>7, <1>8 DEF IInv

\* Every step preserves the invariant.
LEMMA NextIInv == IInv /\ [Next]_vars => IInv'
<1> SUFFICES ASSUME IInv, [Next]_vars PROVE IInv'
  OBVIOUS
<1>1. ASSUME NEW n \in Sizes, create(n) \/ read(n) PROVE IInv'
  BY <1>1, CreateIInv, ReadIInv
<1>6. ASSUME NEW n \in SeekOffsets, seek(n) PROVE IInv'
  BY <1>6, SeekIInv
<1>2. ASSUME NEW text \in Texts, write(text) \/ WriteFails(text) PROVE IInv'
  BY <1>2, WriteIInv, WriteFailsIInv
<1>7. ASSUME NEW text \in Texts, NEW n \in get_write_size(text), copy_in(text, n) PROVE IInv'
  BY <1>7, CopyInIInv
<1>3. CASE rm \/ defragment \/ NegativeOffset
  BY <1>3, RmIInv, DefragmentIInv, NegativeIInv
<1>4. CASE Step
  BY <1>4, ReadChunkIInv, ReadReturnsIInv, WriteChunkIInv, WriteReturnsIInv, FailedReturnsIInv DEF Step
<1>5. CASE UNCHANGED vars
  BY <1>5 DEF vars, IInv, TypeOK, NothingLeft, ReadSoFar, WriteGiven, FailedSoFar, WrittenSoFar,
    TypedSoFar, EndNull, SlackIsZero, PositionValid, ByteAt, Contents
<1> QED
  BY <1>1, <1>2, <1>3, <1>4, <1>5, <1>6, <1>7 DEF Next

\* The invariant that the theorems below rest on: where a loop of
\* inode_read_at or inode_write_at stands, the bytes in front of done are the
\* ones of the call and all the others are those of the file it began with.
THEOREM Invariance == Spec => []IInv
<1>1. QED
  BY InitIInv, NextIInv, PTL DEF Spec

\* What lies behind the end of a file in its last sector, and in a sector that
\* inode_reserve has added, is zero whatever was written, read or defragmented.
THEOREM SlackZero == Spec => []SlackIsZero
<1>1. IInv => SlackIsZero
  BY DEF IInv
<1> QED
  BY <1>1, Invariance, PTL

\* For every file, text, offset and seek, negative ones too: the position is
\* negative, and a sector in front of the file accessed, only after a seek to
\* a negative offset, or where the two bytes that file_write takes off are more
\* than it has written: a write that failed, and copy_in or defragment of a
\* file of less than two bytes.
THEOREM PositionsValid == Spec => []PositionValid
<1>1. IInv => PositionValid
  BY DEF IInv
<1> QED
  BY <1>1, Invariance, PTL

\* The last byte of a file is null whenever no call is under way.
THEOREM Terminated == Spec => []LastByteNull
<1>1. IInv => LastByteNull
  <2> SUFFICES ASSUME IInv, Prompt, length > 0 PROVE Contents[length] = NUL
    BY DEF LastByteNull
  <2>1. Len(Contents) = length /\ length \in 0..MaxLength
    BY ContentsBytes
  <2>2. Contents # <<>>
    BY <2>1, EmptySeq
  <2> QED
    BY <2>1, <2>2, OldEndsNull DEF Prompt
<1> QED
  BY <1>1, Invariance, PTL

\* Texts of consecutive write commands follow each other in the file: the two
\* bytes that a write steps back are the terminators of the one before it.
THEOREM Concatenation == Spec => []WritesConcatenate
<1>1. IInv => WritesConcatenate
  <2> SUFFICES ASSUME IInv, Prompt, typed # <<>>
               PROVE  /\ pos = start + Len(typed)
                      /\ SubSeq(Contents, start + 1, pos + 2) = typed \o <<NUL, NUL>>
    BY DEF WritesConcatenate
  <2> DEFINE u == SubSeq(Contents, start + 1, pos + 2)
             v == typed \o <<NUL, NUL>>
  <2>1. call.op = "none"
    BY DEF Prompt, NoCall
  <2>2. typed \in Seq(Char) /\ start \in Nat /\ length \in Nat
    BY FileAssumption DEF IInv, TypeOK
  <2>3. PICK s \in Nat, k \in Nat, l \in Nat : s = start /\ k = Len(typed) /\ l = length
    <3>1. Len(typed) \in Nat
      BY <2>2
    <3> QED
      BY <3>1, <2>2
  <2>4. /\ pos = s + k /\ s + k + 2 <= l
        /\ \A i \in 1..k : At(sectors, s + i - 1) = typed[i]
        /\ At(sectors, s + k) = NUL /\ At(sectors, s + k + 1) = NUL
    <3>1. /\ pos = start + Len(typed) /\ pos + 2 <= length
          /\ \A i \in 1..Len(typed) : ByteAt(start + i - 1) = typed[i]
          /\ ByteAt(pos) = NUL /\ ByteAt(pos + 1) = NUL
      BY <2>1 DEF IInv, TypedSoFar
    <3>2. pos = s + k
      BY <3>1, <2>3
    <3> QED
      BY <3>1, <3>2, <2>3 DEF ByteAt
  <2>5. /\ v \in Seq(Byte) /\ Len(v) = k + 2
        /\ v[k + 2] = NUL /\ v[k + 1] = NUL
        /\ \A i \in 1..k : v[i] = typed[i]
    BY <2>2, <2>3, TwoTerminators
  <2>6. /\ Contents \in Seq(Byte) /\ Len(Contents) = l
        /\ \A i \in 1..l : Contents[i] = At(sectors, i - 1)
    BY <2>3, ContentsBytes
  <2>7. u = SubSeq(Contents, s + 1, s + k + 2)
    BY <2>3, <2>4
  <2> HIDE DEF u, v
  <2>8. u \in Seq(Byte) /\ Len(u) = k + 2 /\ \A i \in 1..k + 2 : u[i] = Contents[s + i]
    <3> DEFINE lo == s + 1
               hi == s + k + 2
    <3>1. lo \in Int /\ hi \in Int /\ \A i \in lo..hi : i \in 1..l
      BY <2>4
    <3>2. \A i \in lo..hi : Contents[i] \in Byte
      BY <3>1, <2>6
    <3>3. hi - lo + 1 = k + 2 /\ lo <= hi /\ \A i \in 1..k + 2 : lo + i - 1 = s + i
      OBVIOUS
    <3> HIDE DEF lo, hi
    <3>4. /\ SubSeq(Contents, lo, hi) \in Seq(Byte)
          /\ Len(SubSeq(Contents, lo, hi)) = IF lo <= hi THEN hi - lo + 1 ELSE 0
          /\ \A i \in 1..hi - lo + 1 : SubSeq(Contents, lo, hi)[i] = Contents[lo + i - 1]
      BY <3>1, <3>2, SubSeqProperties
    <3> QED
      BY <3>3, <3>4, <2>7 DEF lo, hi
  <2>9. \A i \in 1..k + 2 : u[i] = v[i]
    <3> SUFFICES ASSUME NEW i \in 1..k + 2 PROVE u[i] = v[i]
      OBVIOUS
    <3>1. s + i \in 1..l /\ (s + i) - 1 = s + i - 1
      BY <2>4
    <3>2. u[i] = At(sectors, s + i - 1)
      BY <3>1, <2>6, <2>8
    <3>3. CASE i \in 1..k
      BY <3>2, <3>3, <2>4, <2>5
    <3>4. CASE i = k + 1
      <4>1. s + i - 1 = s + k
        BY <3>4
      <4> QED
        BY <3>2, <3>4, <4>1, <2>4, <2>5
    <3>5. CASE i = k + 2
      <4>1. s + i - 1 = s + k + 1
        BY <3>5
      <4> QED
        BY <3>2, <3>5, <4>1, <2>4, <2>5
    <3> QED
      BY <3>3, <3>4, <3>5
  <2>10. u = v
    BY <2>5, <2>8, <2>9, SeqEqual
  <2> QED
    BY <2>3, <2>4, <2>10 DEF u, v
<1> QED
  BY <1>1, Invariance, PTL

-----------------------------------------------------------------------------
(* The refinement of ByteFile, action by action.                           *)

\* What the names of ByteFile stand for.
LEMMA FileNames ==
    /\ BF!NoCall = NoCall /\ BF!Byte = Byte /\ BF!Offsets = 0..MaxLength
    /\ \A n, bytes : BF!Returned(n, bytes) = Returned(n, bytes)
    /\ \A n : BF!Zeros(n) = [i \in 1..n |-> NUL]
    /\ \A a, b : BF!Shorter(a, b) = Lesser(a, b)
BY DEF BF!NoCall, NoCall, BF!Byte, Byte, BF!Offsets, BF!Returned, Returned, BF!Zeros, BF!Shorter, Lesser

\* A new file is zero.
LEMMA CreateRefines == ASSUME IInv, NEW n \in Sizes, create(n) PROVE BF!BFNext
<1>1. n \in 0..MaxLength /\ n \in Nat
  BY FileAssumption
<1>2. sectors' \in Sectors /\ n <= B * Len(sectors') /\ B * Len(sectors') \in Nat
      /\ \A i \in Nat : i < B * Len(sectors') => At(sectors', i) = NUL
  BY <1>1, ZeroSectors DEF create
<1>3. call = NoCall /\ call' = NoCall /\ result' = result /\ length' = n
  BY DEF create, Prompt
<1>4. File' = [i \in 1..n |-> NUL]
  <2>1. File' = [i \in 1..n |-> At(sectors', i - 1)]
    BY <1>3 DEF File, Contents, ByteAt, NoCall
  <2>2. \A i \in 1..n : i - 1 \in Nat /\ i - 1 < B * Len(sectors')
    BY <1>1, <1>2
  <2>3. \A i \in 1..n : At(sectors', i - 1) = NUL
    BY <2>2, <1>2
  <2> QED
    BY <2>1, <2>3
<1> QED
  BY <1>1, <1>3, <1>4, FileNames DEF BF!BFNext, BF!BFReplace

\* A file that is removed is empty.
LEMMA RmRefines == ASSUME IInv, rm PROVE BF!BFNext
<1>1. call = NoCall /\ call' = NoCall /\ result' = result /\ length' = 0
  BY DEF rm, Prompt
<1>2. File' = [i \in 1..0 |-> NUL]
  <2>1. File' = [i \in 1..0 |-> At(sectors', i - 1)]
    BY <1>1 DEF File, Contents, ByteAt, NoCall
  <2> QED
    BY <2>1
<1>3. 0 \in 0..MaxLength
  BY FileAssumption
<1> QED
  BY <1>1, <1>2, <1>3, FileNames DEF BF!BFNext, BF!BFReplace

\* The commands that call inode_read_at and inode_write_at.
LEMMA CallRefines ==
    ASSUME IInv, call = NoCall, result' = Returned(0, <<>>),
           \/ call' \in [op : {"read"}, offset : Int, size : 0..MaxLength] /\ Contents' = Contents
           \/ call' \in [op : {"write"}, offset : Int, buf : Seq(Byte)] /\ old' = Contents
    PROVE  BF!BFNext
<1>1. File' = File
  BY DEF File, NoCall
<1> QED
  BY <1>1, FileNames DEF BF!BFNext, BF!BFCall

\* read calls inode_read_at.
LEMMA ReadRefines == ASSUME IInv, NEW n \in Sizes, read(n) PROVE BF!BFNext
<1>1. n \in 0..MaxLength
  BY FileAssumption
<1>2. pos \in Int
  BY FileAssumption DEF IInv, TypeOK
<1>3. call = NoCall /\ result' = Returned(0, <<>>) /\ call' = [op |-> "read", offset |-> pos, size |-> n]
  BY DEF read, Prompt
<1>4. Contents' = Contents
  BY DEF read, Contents, ByteAt
<1> QED
  BY <1>1, <1>2, <1>3, <1>4, CallRefines

\* write calls inode_write_at, which may fail later.
LEMMA WriteRefines ==
    ASSUME IInv, NEW text \in Texts, write(text) \/ WriteFails(text)
    PROVE  BF!BFNext
<1> DEFINE buf == text \o <<NUL, NUL>>
<1>1. text \in Seq(Char)
  BY FileAssumption
<1>2. buf \in Seq(Byte) /\ NullTerminated(buf) = buf
  BY <1>1, TwoTerminators
<1>3. pos \in Int
  BY FileAssumption DEF IInv, TypeOK
<1>4. call = NoCall /\ result' = Returned(0, <<>>) /\ old' = Contents
      /\ call' = [op |-> "write", offset |-> pos, buf |-> buf]
  BY <1>2 DEF write, WriteFails, Prompt, file_write, StartWrite
<1> QED
  BY <1>2, <1>3, <1>4, CallRefines

\* defragment writes the file over itself.
LEMMA DefragmentRefines == ASSUME IInv, defragment PROVE BF!BFNext
<1>1. Contents \in Seq(Byte)
  BY ContentsBytes
<1>2. call = NoCall /\ result' = Returned(0, <<>>) /\ old' = Contents
      /\ call' = [op |-> "write", offset |-> 0, buf |-> NullTerminated(Contents)]
  BY DEF defragment, Prompt, StartWrite
<1>4. NullTerminated(Contents) = Contents
  BY <1>1, <1>2, OldEndsNull, TerminatedAlready
<1> QED
  BY <1>1, <1>2, <1>4, CallRefines

\* copy_in writes to a file of as many zeros as it has bytes.
LEMMA CopyInRefines ==
    ASSUME IInv, NEW text \in Texts, NEW n \in get_write_size(text), copy_in(text, n)
    PROVE  BF!BFNext
<1> DEFINE buf == NullTerminated(SubSeq(text \o <<NUL>>, 1, n))
<1>1. text \in Seq(Char)
  BY FileAssumption
<1>2. buf \in Seq(Byte) /\ Len(buf) = n
  BY <1>1, CopiedBytes
<1>4. /\ call = NoCall /\ result' = Returned(0, <<>>)
      /\ old' = [i \in 1..n |-> NUL] /\ call' = [op |-> "write", offset |-> 0, buf |-> buf]
  BY DEF copy_in, StartWrite, Prompt
<1> HIDE DEF buf
<1>5. File' = [i \in 1..n |-> NUL]
  BY <1>4 DEF File
<1>6. call' \in [op : {"write"}, offset : {0}, buf : Seq(Byte)] /\ Len(call'.buf) = n
  BY <1>2, <1>4
<1> QED
  BY <1>4, <1>5, <1>6, FileNames DEF BF!BFNext, BF!BFCopyIn

\* A read of nothing in front of the file returns nothing.
LEMMA NothingReadRefines == ASSUME IInv, ReadReturns, ~(pos >= 0) PROVE BF!BFNext
<1>1. /\ TypeOK /\ call.op = "read" /\ call.offset = pos /\ call.size = 0
      /\ done = 0 /\ Len(buffer) = 0 /\ buffer \in Seq(Byte)
  <2>1. /\ TypeOK /\ call.op = "read" /\ call.offset = pos /\ call.size = 0
        /\ done \in 0..call.size /\ Len(buffer) = done /\ buffer \in Seq(Byte)
    BY CallFields DEF IInv, ReadSoFar, ReadReturns, TypeOK
  <2> QED
    BY <2>1
<1>2. buffer = <<>>
  BY <1>1, EmptySeq
<1>3. /\ result' = Returned(0, <<>>) /\ call' = NoCall /\ UNCHANGED <<sectors, length>>
  BY <1>1, <1>2 DEF ReadReturns, Return
<1>4. File = Contents /\ File' = Contents
  <2>1. Contents' = Contents
    BY <1>3 DEF Contents, ByteAt
  <2> QED
    BY <2>1, <1>1, <1>3 DEF File, NoCall
<1>5. Contents \in Seq(Byte) /\ Len(Contents) \in Nat
  BY ContentsBytes, FileAssumption
<1>6. PICK p \in Int : p = pos /\ p < 0
  BY <1>1, FileAssumption DEF TypeOK
<1>7. Lesser(p + 0, Len(Contents)) = p
  BY <1>5, <1>6 DEF Lesser
<1>8. SubSeq(Contents, p + 1, p) = <<>>
  <2>1. p + 1 \in Int /\ \A i \in p + 1..p : Contents[i] \in Byte
    BY <1>6
  <2>2. ~(p + 1 <= p)
    BY <1>6
  <2>3. /\ SubSeq(Contents, p + 1, p) \in Seq(Byte)
        /\ Len(SubSeq(Contents, p + 1, p)) = IF p + 1 <= p THEN p - (p + 1) + 1 ELSE 0
    BY <2>1, <1>6, SubSeqProperties
  <2>4. Len(SubSeq(Contents, p + 1, p)) = 0
    BY <2>2, <2>3
  <2> QED
    BY <2>3, <2>4, EmptySeq
<1>9. SubSeq(File, call.offset + 1, BF!Shorter(call.offset + call.size, Len(File))) = <<>>
  <2>1. BF!Shorter(p + 0, Len(Contents)) = p
    BY <1>7, FileNames
  <2> QED
    BY <2>1, <1>1, <1>4, <1>6, <1>8
<1>10. result' = BF!Returned(Len(<<>>), <<>>)
  BY <1>3, EmptySeq, FileNames
<1> QED
  BY <1>1, <1>3, <1>4, <1>9, <1>10, FileNames DEF BF!BFNext, BF!BFRead

\* The loop of inode_read_at ends at the end of the call or of the file: what
\* it has read is what there is.
LEMMA ReadReturnsRefines == ASSUME IInv, ReadReturns PROVE BF!BFNext
<1> SUFFICES ASSUME pos >= 0 PROVE BF!BFNext
  BY NothingReadRefines
<1>1. /\ TypeOK /\ call.op = "read" /\ call.offset = pos /\ call.size \in 0..MaxLength
      /\ pos >= 0 /\ done \in 0..call.size /\ (done > 0 => pos + done <= length)
      /\ Len(buffer) = done /\ buffer \in Seq(Byte)
      /\ \A i \in 1..done : buffer[i] = At(sectors, pos + i - 1)
  BY CallFields DEF IInv, ReadSoFar, ReadReturns, ByteAt, TypeOK
<1>2. PICK p \in Nat, d \in Nat, l \in Nat, n \in Nat :
        p = pos /\ d = done /\ l = length /\ n = call.size
  <2>1. pos \in Nat /\ done \in Nat /\ length \in Nat /\ call.size \in Nat
    BY <1>1, FileAssumption DEF TypeOK
  <2> QED
    BY <2>1
<1>3. d <= n /\ (d > 0 => p + d <= l)
  BY <1>1, <1>2
<1>4. size = n - d /\ offset = p + d
  BY <1>1, <1>2 DEF size, offset
<1>5. PICK f \in Nat : f = sector_ofs /\ f < B
  <2>1. (p + d) % B \in 0..B - 1
    BY Split
  <2> QED
    BY <2>1, <1>4, FileAssumption DEF sector_ofs, B
<1>6. B \in Nat
  BY FileAssumption DEF B
<1>7. chunk_size = Lesser(n - d, Lesser(l - (p + d), B - f))
  BY <1>2, <1>4, <1>5 DEF chunk_size, B
<1>8. n - d <= 0 \/ Lesser(n - d, Lesser(l - (p + d), B - f)) <= 0
  BY <1>4, <1>7 DEF ReadReturns
<1>9. n = d \/ l <= p + d
  BY <1>3, <1>5, <1>6, <1>8 DEF Lesser
<1> DEFINE e == Lesser(p + n, l)
<1>10. e \in Int /\ (d > 0 => e = p + d) /\ (d = 0 => e <= p) /\ e <= l
  BY <1>3, <1>9 DEF Lesser
<1> HIDE DEF e
<1> DEFINE u == SubSeq(Contents, p + 1, e)
<1>11. /\ Contents \in Seq(Byte) /\ Len(Contents) = l
       /\ \A i \in 1..l : Contents[i] = At(sectors, i - 1)
  BY <1>2, ContentsBytes
<1>12. u \in Seq(Byte) /\ Len(u) = d /\ \A i \in 1..d : u[i] = Contents[p + i]
  <2> DEFINE lo == p + 1
  <2>1. lo \in Int /\ e \in Int /\ \A i \in lo..e : i \in 1..l
    BY <1>10
  <2>2. \A i \in lo..e : Contents[i] \in Byte
    BY <2>1, <1>11
  <2>3. (IF lo <= e THEN e - lo + 1 ELSE 0) = d /\ \A i \in 1..d : i \in 1..e - lo + 1 /\ lo + i - 1 = p + i
    BY <1>10
  <2> HIDE DEF lo
  <2>4. /\ SubSeq(Contents, lo, e) \in Seq(Byte)
        /\ Len(SubSeq(Contents, lo, e)) = IF lo <= e THEN e - lo + 1 ELSE 0
        /\ \A i \in 1..e - lo + 1 : SubSeq(Contents, lo, e)[i] = Contents[lo + i - 1]
    BY <2>1, <2>2, SubSeqProperties
  <2>5. u = SubSeq(Contents, lo, e)
    BY DEF lo
  <2> HIDE DEF u
  <2>6. Len(u) = d
    BY <2>3, <2>4, <2>5, Zenon
  <2> QED
    BY <2>3, <2>4, <2>5, <2>6
<1> HIDE DEF u
<1>13. u = buffer
  <2>1. \A i \in 1..d : u[i] = buffer[i]
    <3> SUFFICES ASSUME NEW i \in 1..d PROVE u[i] = buffer[i]
      OBVIOUS
    <3>1. p + i \in 1..l /\ (p + i) - 1 = p + i - 1
      BY <1>3
    <3>2. u[i] = At(sectors, p + i - 1)
      BY <3>1, <1>11, <1>12
    <3> QED
      BY <3>2, <1>1, <1>2
  <2>2. Len(buffer) = d
    BY <1>1, <1>2
  <2> QED
    BY <2>1, <2>2, <1>1, <1>12, SeqEqual
<1>14. /\ result' = Returned(done, buffer) /\ call' = NoCall /\ UNCHANGED <<sectors, length>>
  BY DEF ReadReturns, Return
<1>15. File = Contents /\ File' = Contents
  <2>1. Contents' = Contents
    BY <1>14 DEF Contents, ByteAt
  <2> QED
    BY <2>1, <1>1, <1>14 DEF File, NoCall
<1>16. SubSeq(File, call.offset + 1, BF!Shorter(call.offset + call.size, Len(File))) = buffer
  <2>1. Len(File) = l /\ call.offset = p /\ call.size = n
    BY <1>1, <1>2, <1>11, <1>15
  <2>2. BF!Shorter(call.offset + call.size, Len(File)) = e
    BY <2>1, FileNames DEF e
  <2> QED
    BY <2>1, <2>2, <1>13, <1>15 DEF u
<1>17. result' = BF!Returned(Len(buffer), buffer)
  BY <1>1, <1>14, FileNames
<1> QED
  BY <1>1, <1>14, <1>15, <1>16, <1>17, FileNames DEF BF!BFNext, BF!BFRead

\* When inode_write_at returns, the file is the one it began with, overlaid by
\* the call's bytes.
LEMMA WriteReturnsRefines == ASSUME IInv, WriteReturns PROVE BF!BFNext
<1>1. /\ TypeOK /\ call.op = "write" /\ done >= 0 /\ pos >= 0 /\ call.offset = pos
      /\ call.buf \in Seq(Byte) /\ old \in Seq(Byte)
  BY CallFields DEF WriteReturns, IInv, WriteGiven, TypeOK
<1>2. /\ call' = NoCall /\ result' = Returned(done, <<>>) /\ UNCHANGED <<sectors, length>>
  BY DEF WriteReturns, Return
<1>3. PICK p \in Nat, l \in Nat, n \in Nat, o \in Nat :
        p = pos /\ l = length /\ n = Len(call.buf) /\ o = Len(old)
  <2>1. pos \in Nat /\ length \in Nat
    BY <1>1, FileAssumption DEF TypeOK
  <2>2. Len(call.buf) \in Nat
    BY <1>1
  <2>3. Len(old) \in Nat
    BY <1>1
  <2> QED
    BY <2>1, <2>2, <2>3
<1>4. done = n
  BY <1>3, AllWritten
<1>5. /\ p + n <= l /\ o <= l /\ l \in {o, p + n}
      /\ \A i \in 1..n : At(sectors, p + i - 1) = call.buf[i]
      /\ \A i \in 1..l : (i <= p \/ i > p + n) => At(sectors, i - 1) = IF i <= o THEN old[i] ELSE NUL
  BY <1>1, <1>3, <1>4 DEF IInv, WrittenSoFar, ByteAt
<1>6. File = old /\ File' = [i \in 1..l |-> At(sectors, i - 1)]
  BY <1>1, <1>2, <1>3 DEF File, Contents, ByteAt, NoCall
<1> DEFINE Over(i) == CASE p < i /\ i <= p + n -> call.buf[i - p]
                        [] (i <= p \/ i > p + n) /\ i <= o -> old[i]
                        [] OTHER -> NUL
<1>7. BF!Overlay(File, call.offset, call.buf) = [i \in 1..l |-> Over(i)]
  <2>1. l = IF p + n > o THEN p + n ELSE o
    BY <1>5
  <2> QED
    BY <2>1, <1>1, <1>3, <1>6 DEF BF!Overlay
<1>8. ASSUME NEW i \in 1..l PROVE At(sectors, i - 1) = Over(i)
  <2>1. CASE p < i /\ i <= p + n
    <3>1. i - p \in 1..n /\ p + (i - p) - 1 = i - 1
      BY <2>1
    <3>2. At(sectors, i - 1) = call.buf[i - p]
      BY <3>1, <1>5
    <3> QED
      BY <2>1, <3>2
  <2>2. CASE i <= p \/ i > p + n
    <3>1. ~(p < i /\ i <= p + n)
      BY <2>2
    <3>2. At(sectors, i - 1) = IF i <= o THEN old[i] ELSE NUL
      BY <2>2, <1>5
    <3> QED
      BY <2>2, <3>1, <3>2
  <2> QED
    BY <2>1, <2>2
<1>9. File' = BF!Overlay(File, call.offset, call.buf)
  BY <1>6, <1>7, <1>8
<1>10. result' = BF!Returned(Len(call.buf), <<>>)
  BY <1>2, <1>3, <1>4, FileNames
<1> QED
  BY <1>1, <1>2, <1>9, <1>10, FileNames DEF BF!BFNext, BF!BFWrite

\* A write that failed returns 0 and has changed nothing.
LEMMA FailedReturnsRefines == ASSUME IInv, FailedReturns PROVE BF!BFNext
<1>1. /\ TypeOK /\ call # NoCall /\ done = -1
      /\ call' = NoCall /\ result' = Returned(0, <<>>) /\ UNCHANGED <<sectors, length>>
  BY DEF FailedReturns, IInv, Calling, Return
<1>2. call.op = "write"
  <2>1. call.op # "read"
    <3>1. ~(done >= 0)
      BY <1>1
    <3>2. call.op = "read" => done >= 0
      BY <1>1, CallFields, FileAssumption DEF IInv, ReadSoFar
    <3> QED
      BY <3>1, <3>2
  <2> QED
    BY <2>1, <1>1, CallFields
<1>3. old = Contents /\ (pos < 0 \/ pos + Len(call.buf) > length) /\ call.offset = pos
  <2>1. done < 0
    BY <1>1
  <2> QED
    BY <2>1, <1>1, <1>2, CallFields DEF IInv, FailedSoFar
<1>4. File = Contents /\ File' = Contents
  <2>1. Contents' = Contents
    BY <1>1 DEF Contents, ByteAt
  <2> QED
    BY <2>1, <1>1, <1>2, <1>3 DEF File, NoCall
<1>5. call.offset < 0 \/ call.offset + Len(call.buf) > Len(File)
  BY <1>3, <1>4, ContentsBytes
<1> QED
  BY <1>1, <1>2, <1>4, <1>5, FileNames DEF BF!BFNext, BF!BFWrite

\* A turn of a loop, seek and an access in front of the file are not seen.
LEMMA Unseen ==
    ASSUME IInv, (\E n \in SeekOffsets : seek(n)) \/ NegativeOffset \/ ReadChunk \/ WriteChunk \/ UNCHANGED vars
    PROVE  UNCHANGED <<File, call, result>>
<1>1. CASE UNCHANGED <<sectors, length, call, result, old>>
  BY <1>1 DEF File, Contents, ByteAt
<1>2. CASE WriteChunk
  BY <1>2 DEF WriteChunk, File
<1> QED
  BY <1>1, <1>2 DEF seek, NegativeOffset, ReadChunk, vars

\* The file as its callers see it, a sequence of bytes read and written in one
\* step, is what the loops over sectors implement.
THEOREM Refinement == Spec => RefinesByteFile
<1>1. Init => BF!BFInit
  <2> SUFFICES ASSUME Init PROVE BF!BFInit
    OBVIOUS
  <2>1. call = NoCall /\ result = Returned(0, <<>>) /\ length = 0
    BY DEF Init
  <2>2. File = [i \in 1..0 |-> At(sectors, i - 1)]
    BY <2>1 DEF File, Contents, ByteAt, NoCall
  <2>3. File = <<>>
    BY <2>2
  <2> QED
    BY <2>1, <2>3, FileNames DEF BF!BFInit
<1>2. IInv /\ [Next]_vars => [BF!BFNext]_(BF!bfvars)
  <2> SUFFICES ASSUME IInv, [Next]_vars PROVE BF!BFNext \/ UNCHANGED <<File, call, result>>
    BY DEF BF!bfvars
  <2>1. ASSUME NEW n \in Sizes, create(n) \/ read(n)
        PROVE  BF!BFNext
    BY <2>1, CreateRefines, ReadRefines
  <2>6. ASSUME NEW n \in SeekOffsets, seek(n)
        PROVE  UNCHANGED <<File, call, result>>
    BY <2>6, Unseen
  <2>2. ASSUME NEW text \in Texts, write(text) \/ WriteFails(text)
        PROVE  BF!BFNext
    BY <2>2, WriteRefines
  <2>7. ASSUME NEW text \in Texts, NEW n \in get_write_size(text), copy_in(text, n)
        PROVE  BF!BFNext
    BY <2>7, CopyInRefines
  <2>3. CASE rm \/ defragment
    BY <2>3, RmRefines, DefragmentRefines
  <2>4. CASE NegativeOffset \/ ReadChunk \/ WriteChunk \/ UNCHANGED vars
    BY <2>4, Unseen
  <2>5. CASE ReadReturns \/ WriteReturns \/ FailedReturns
    BY <2>5, ReadReturnsRefines, WriteReturnsRefines, FailedReturnsRefines
  <2> QED
    BY <2>1, <2>2, <2>3, <2>4, <2>5, <2>6, <2>7 DEF Next, Step
<1> QED
  BY <1>1, <1>2, Invariance, PTL DEF Spec, RefinesByteFile, BF!BFSpec
=============================================================================
