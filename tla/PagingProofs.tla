---------------------------- MODULE PagingProofs -----------------------------
(***************************************************************************)
(* Proofs about Paging, for every number of frames and every sequence of   *)
(* commands.  The first part, with Invariance, QueueSound and TablesSound, *)
(* is about every set of scripts, nested or not.  The second assumes       *)
(* AllFlat, and ends in FlatInvariance and the properties of flat scripts. *)
(***************************************************************************)
EXTENDS Paging, CountingLemmas, SequenceTheorems

-----------------------------------------------------------------------------
(* Frames and files taken in turn.                                         *)

\* A number of a set has a place, and no other number has it.
LEMMA Places ==
    ASSUME NEW b \in Nat, NEW S \in SUBSET (0..b)
    PROVE  /\ IsFiniteSet(S) /\ Cardinality(S) \in Nat
           /\ \A i \in S : Place(S, i) \in 1..Cardinality(S)
           /\ \A i, k \in S : i < k => Place(S, i) < Place(S, k)
<1>t. \A t \in S : t \in Nat
  OBVIOUS
<1>1. IsFiniteSet(S) /\ Cardinality(S) \in Nat
  <2>1. IsFiniteSet(0..b)
    BY FS_Interval
  <2> QED
    BY <2>1, FS_Subset, FS_CardinalityType
<1> DEFINE L(i) == {j \in S : j <= i}
<1>2. ASSUME NEW i \in S PROVE IsFiniteSet(L(i)) /\ Cardinality(L(i)) \in Nat /\ Cardinality(L(i)) <= Cardinality(S)
  <2>1. L(i) \in SUBSET S
    OBVIOUS
  <2> QED
    BY <2>1, <1>1, FS_Subset, FS_CardinalityType
<1>3. ASSUME NEW i \in S PROVE Cardinality(L(i)) # 0
  <2>1. i \in L(i)
    BY <1>t
  <2> QED
    BY <2>1, <1>2, FS_EmptySet
<1>4. ASSUME NEW i \in S, NEW k \in S, i < k PROVE Cardinality(L(i)) < Cardinality(L(k))
  <2>1. L(i) \in SUBSET L(k) /\ k \in L(k) /\ k \notin L(i)
    <3>1. \A j \in S : j <= i => j <= k
      BY <1>4, <1>t
    <3>2. k <= k /\ ~(k <= i)
      BY <1>4, <1>t
    <3> QED
      BY <3>1, <3>2
  <2>2. L(i) # L(k)
    BY <2>1
  <2> HIDE DEF L
  <2>3. Cardinality(L(i)) <= Cardinality(L(k)) /\ (Cardinality(L(k)) = Cardinality(L(i)) => L(k) = L(i))
    BY <2>1, <1>2, FS_Subset
  <2> QED
    BY <2>2, <2>3, <1>2
<1>5. \A i : Place(S, i) = Cardinality(L(i))
  BY DEF Place
<1> HIDE DEF L
<1>6. ASSUME NEW i \in S PROVE Place(S, i) \in 1..Cardinality(S)
  BY <1>1, <1>2, <1>3, <1>5
<1> QED
  BY <1>1, <1>4, <1>5, <1>6

\* Every place up to the size of the set is taken.
LEMMA PlaceTaken ==
    ASSUME NEW b \in Nat, NEW S \in SUBSET (0..b), NEW c \in 1..Cardinality(S)
    PROVE  \E i \in S : Place(S, i) = c
<1> DEFINE P(i) == Place(S, i)
           n == Cardinality(S)
           G == {i \in S : P(i) >= c}
<1>t. \A t \in S : t \in Nat
  OBVIOUS
<1>1. /\ IsFiniteSet(S) /\ n \in Nat
      /\ \A i \in S : P(i) \in 1..n
      /\ \A i, k \in S : i < k => P(i) < P(k)
  BY Places
<1>2. S # {}
  BY <1>1, FS_EmptySet
<1>3. PICK t \in S : \A k \in S : k <= t
  BY <1>2, GreatestNat
<1>4. P(t) = n
  <2>1. {j \in S : j <= t} = S
    BY <1>3
  <2> QED
    BY <2>1 DEF Place
<1> HIDE DEF n
<1>5. G \in SUBSET Nat /\ t \in G
  <2>1. c \in Nat /\ n >= c
    BY <1>1 DEF n
  <2>2. t \in G
    BY <2>1, <1>4
  <2> QED
    BY <2>2, <1>t
<1>6. PICK i \in G : \A k \in G : i <= k
  <2> HIDE DEF G
  <2> QED
    BY <1>5, LeastNat
<1> DEFINE U == {j \in S : j < i}
           L == {j \in S : j <= i}
<1>7. IsFiniteSet(U) /\ L = U \cup {i} /\ i \notin U /\ U \in SUBSET (0..b)
  <2>1. U \in SUBSET S
    OBVIOUS
  <2>2. IsFiniteSet(U)
    BY <2>1, <1>1, FS_Subset
  <2>3. L = U \cup {i}
    <3>1. \A j \in S : j <= i <=> j < i \/ j = i
      OBVIOUS
    <3> QED
      BY <3>1
  <2>4. i \notin U
    OBVIOUS
  <2> QED
    BY <2>1, <2>2, <2>3, <2>4
<1>8. P(i) = Cardinality(U) + 1 /\ Cardinality(U) \in Nat
  <2>1. P(i) = Cardinality(L)
    BY DEF Place
  <2> HIDE DEF U, L, P
  <2>2. Cardinality(U \cup {i}) = Cardinality(U) + 1
    BY <1>7, FS_AddElement
  <2> QED
    BY <2>1, <2>2, <1>7, FS_CardinalityType
<1>9. i \in S /\ P(i) >= c /\ P(i) \in Nat
  BY <1>1
<1>10. CASE U = {}
  <2>1. Cardinality(U) = 0
    BY <1>10, FS_EmptySet
  <2> HIDE DEF U, P
  <2>2. P(i) = c
    BY <2>1, <1>8, <1>9
  <2> QED
    BY <2>2, <1>9 DEF P
<1>11. CASE U # {}
  <2>1. PICK m \in U : \A k \in U : k <= m
    BY <1>11, <1>7, GreatestNat
  <2>2. {j \in S : j <= m} = U
    <3>1. \A j \in S : j <= m <=> j < i
      BY <2>1
    <3> QED
      BY <3>1
  <2>3. P(m) = Cardinality(U)
    BY <2>2 DEF Place
  <2>4. m \in S /\ m < i
    BY <2>1
  <2>5. ~(P(m) >= c)
    <3>1. m \notin G
      BY <2>4, <1>6
    <3> QED
      BY <3>1, <2>4
  <2>6. P(m) \in Nat
    BY <2>4, <1>1
  <2> HIDE DEF U, P, G
  <2>7. P(i) = c
    BY <2>3, <2>5, <2>6, <1>8, <1>9
  <2> QED
    BY <2>7, <1>9 DEF P
<1> QED
  BY <1>10, <1>11

\* Nth is the inverse of Place.
LEMMA NthPlace ==
    ASSUME NEW b \in Nat, NEW S \in SUBSET (0..b)
    PROVE  /\ \A c \in 1..Cardinality(S) : Nth(S, c) \in S /\ Place(S, Nth(S, c)) = c
           /\ \A i \in S : Nth(S, Place(S, i)) = i
<1>1. ASSUME NEW c \in 1..Cardinality(S) PROVE Nth(S, c) \in S /\ Place(S, Nth(S, c)) = c
  <2>1. \E i \in S : Place(S, i) = c
    BY PlaceTaken
  <2> QED
    BY <2>1 DEF Nth
<1>2. ASSUME NEW i \in S PROVE Nth(S, Place(S, i)) = i
  <2> DEFINE k == Nth(S, Place(S, i))
  <2>1. Place(S, i) \in 1..Cardinality(S)
    BY Places
  <2>2. k \in S /\ Place(S, k) = Place(S, i)
    BY <2>1, <1>1
  <2>3. Place(S, i) \in Nat
    BY <2>1
  <2> HIDE DEF k
  <2>4. (i < k => Place(S, i) < Place(S, k)) /\ (k < i => Place(S, k) < Place(S, i))
    BY <2>2, Places
  <2>5. i \in Nat /\ k \in Nat
    BY <2>2
  <2>6. k = i
    BY <2>2, <2>3, <2>4, <2>5
  <2> QED
    BY <2>6 DEF k
<1> QED
  BY <1>1, <1>2

-----------------------------------------------------------------------------
(* Lines and pages.                                                        *)

\* Part of a sequence is a sequence of the same elements.
LEMMA PartType ==
    ASSUME NEW T, NEW s \in Seq(T), NEW m \in Nat \ {0}, NEW n \in Nat, n <= Len(s)
    PROVE  SubSeq(s, m, n) \in Seq(T)
<1>1. PICK l \in Nat : l = Len(s)
  BY LenProperties
<1>2. \A i \in m..n : i \in 1..l
  BY <1>1
<1>3. \A i \in m..n : s[i] \in T
  BY <1>1, <1>2, ElementOfSeq
<1>4. m \in Int /\ n \in Int
  OBVIOUS
<1> QED
  BY <1>3, <1>4, SubSeqProperties

\* A file is read as a sequence of its lines.
LEMMA LinesType ==
    ASSUME NEW f \in DOMAIN Script
    PROVE  LinesOf(f) \in Seq(Line)
<1> DEFINE s == Script[f]
<1>1. s \in Seq({s[i] : i \in DOMAIN s})
  BY ScriptAssumption DEF IsSequence
<1>2. PICK l \in Nat : DOMAIN s = 1..l
  <2> HIDE DEF s
  <2> QED
    BY <1>1, LenProperties
<1>3. \A n \in 1..l : <<f, n>> \in Line
  BY <1>2 DEF Line
<1>4. LinesOf(f) = [n \in 1..l |-> <<f, n>>]
  BY <1>2 DEF LinesOf
<1> QED
  BY <1>3, <1>4

\* fgets reads lines, and leaves lines.
LEMMA ChunkType ==
    ASSUME NEW ls \in Seq(Line), NEW k \in Nat
    PROVE  Chunk(ls, k) \in Seq(Line) /\ After(ls, k) \in Seq(Line)
<1>1. PICK l \in Nat : l = Len(ls)
  BY LenProperties
<1> DEFINE e == IF l < 3 * k + 3 THEN l ELSE 3 * k + 3
<1>2. 3 * k + 1 \in Nat \ {0} /\ k + 1 \in Nat \ {0} /\ e \in Nat /\ e <= l /\ l <= l
  OBVIOUS
<1>3. Chunk(ls, k) = SubSeq(ls, 3 * k + 1, e) /\ After(ls, k) = SubSeq(ls, k + 1, l)
  BY <1>1, Zenon DEF Chunk, After
<1> HIDE DEF e
<1> QED
  BY <1>1, <1>2, <1>3, PartType

\* The page set_page builds.
LEMMA PageType ==
    ASSUME NEW n, NEW p, NEW ls \in Seq(Line), NEW t
    PROVE  set_page(n, p, ls, t) \in [pid : {p}, page_number : {n},
               lines : [1..3 -> Line \cup {None}], available : {FALSE}, last_used : {t}]
<1>1. PICK l \in Nat : l = Len(ls)
  BY LenProperties
<1>2. \A k \in 1..3 : k <= l => ls[k] \in Line
  <2>1. \A k \in 1..3 : k <= l => k \in 1..l
    OBVIOUS
  <2> QED
    BY <2>1, <1>1, ElementOfSeq
<1> DEFINE lines == [k \in 1..3 |-> IF k <= l THEN ls[k] ELSE None]
<1>3. lines \in [1..3 -> Line \cup {None}]
  BY <1>2
<1>4. set_page(n, p, ls, t) = [pid |-> p, page_number |-> n, available |-> FALSE,
                               last_used |-> t, lines |-> lines]
  BY <1>1, Zenon DEF set_page
<1> HIDE DEF lines
<1> QED
  BY <1>3, <1>4

-----------------------------------------------------------------------------
(* Loading.                                                                *)

\* The k-th page of the i-th file, and whether the file is long enough for it.
Has(texts, i, k) == Len(texts[i]) > 3 * k
PageFor(texts, i, k, t) == set_page(k, pid_counter + i - 1, Chunk(texts[i], k), t)

\* A round loads one page of each file that is long enough, and nothing else.
LEMMA RoundPages ==
    ASSUME NEW texts \in Seq(Seq(Line)), NEW k, NEW t
    PROVE  LET R == Round(k, texts, t)
           IN  /\ DOMAIN R = 1..Len(R) /\ Len(R) \in Nat /\ R \in Seq({R[c] : c \in DOMAIN R})
               /\ \A c \in 1..Len(R) : \E i \in DOMAIN texts :
                      Has(texts, i, k) /\ R[c] = PageFor(texts, i, k, t)
               /\ \A i \in DOMAIN texts : Has(texts, i, k) =>
                      \E c \in 1..Len(R) : R[c] = PageFor(texts, i, k, t)
<1> DEFINE R == Round(k, texts, t)
           some == {i \in DOMAIN texts : Has(texts, i, k)}
           n == Cardinality(some)
<1>1. PICK l \in Nat : DOMAIN texts = 1..l
  BY LenProperties
<1>2. some \in SUBSET (0..l)
  BY <1>1
<1>3. R = [c \in 1..n |-> PageFor(texts, Nth(some, c), k, t)]
  BY Zenon DEF Round, PageFor, Has
<1>4. \A i \in some : i \in DOMAIN texts /\ Has(texts, i, k)
  OBVIOUS
<1>5. \A i \in DOMAIN texts : Has(texts, i, k) => i \in some
  OBVIOUS
<1> HIDE DEF some
<1>6. n \in Nat /\ \A i \in some : Place(some, i) \in 1..n
  BY <1>2, Places
<1>7. /\ \A c \in 1..n : Nth(some, c) \in some
      /\ \A i \in some : Nth(some, Place(some, i)) = i
  BY <1>2, NthPlace
<1> HIDE DEF n, R
<1>8. DOMAIN R = 1..n /\ \A c \in 1..n : R[c] = PageFor(texts, Nth(some, c), k, t)
  BY <1>3
<1>9. R \in Seq({R[c] : c \in DOMAIN R}) /\ Len(R) = n
  <2>0. R = [c \in 1..n |-> R[c]] /\ \A c \in 1..n : R[c] \in {R[d] : d \in DOMAIN R}
    BY <1>3, <1>8, Zenon
  <2>1. R \in [1..n -> {R[c] : c \in DOMAIN R}]
    BY <2>0, Zenon
  <2> QED
    BY <2>1, <1>6, SMTT(30)
<1>10. \A c \in 1..n : \E i \in DOMAIN texts : Has(texts, i, k) /\ R[c] = PageFor(texts, i, k, t)
  BY <1>4, <1>7, <1>8
<1>11. \A i \in DOMAIN texts : Has(texts, i, k) => \E c \in 1..n : R[c] = PageFor(texts, i, k, t)
  BY <1>5, <1>6, <1>7, <1>8
<1> QED
  BY <1>6, <1>8, <1>9, <1>10, <1>11 DEF R

\* What the two rounds load: the first pages of every file, then the second.
LEMMA LoadsPages ==
    ASSUME NEW texts \in Seq(Seq(Line)), timer \in Nat
    PROVE  LET L == Loads(texts)
           IN  /\ DOMAIN L = 1..Len(L) /\ Len(L) \in Nat
               /\ \A c \in 1..Len(L) : \E i \in DOMAIN texts, k \in {0, 1} :
                      /\ Has(texts, i, k) /\ L[c] = PageFor(texts, i, k, timer + k)
                      /\ k <= Len(L)
               /\ \A i \in DOMAIN texts, k \in {0, 1} : Has(texts, i, k) =>
                      \E c \in 1..Len(L) : L[c] = PageFor(texts, i, k, timer + k)
<1> DEFINE Q == Round(0, texts, timer)
           R == Round(1, texts, timer + 1)
           L == Loads(texts)
           T == {Q[c] : c \in DOMAIN Q} \cup {R[c] : c \in DOMAIN R}
<1>1. /\ DOMAIN Q = 1..Len(Q) /\ Len(Q) \in Nat /\ Q \in Seq({Q[c] : c \in DOMAIN Q})
      /\ \A c \in 1..Len(Q) : \E i \in DOMAIN texts : Has(texts, i, 0) /\ Q[c] = PageFor(texts, i, 0, timer)
      /\ \A i \in DOMAIN texts : Has(texts, i, 0) => \E c \in 1..Len(Q) : Q[c] = PageFor(texts, i, 0, timer)
  BY RoundPages
<1>2. /\ DOMAIN R = 1..Len(R) /\ Len(R) \in Nat /\ R \in Seq({R[c] : c \in DOMAIN R})
      /\ \A c \in 1..Len(R) : \E i \in DOMAIN texts : Has(texts, i, 1) /\ R[c] = PageFor(texts, i, 1, timer + 1)
      /\ \A i \in DOMAIN texts : Has(texts, i, 1) => \E c \in 1..Len(R) : R[c] = PageFor(texts, i, 1, timer + 1)
  BY RoundPages, ZenonT(60)
<1>3. L = Q \o R
  BY DEF Loads
<1> HIDE DEF Q, R, L
<1>4. Q \in Seq(T) /\ R \in Seq(T)
  BY <1>1, <1>2, SeqMonotonic
<1> HIDE DEF T
<1>5. /\ L \in Seq(T) /\ Len(L) = Len(Q) + Len(R)
      /\ \A c \in 1..Len(Q) + Len(R) : L[c] = IF c <= Len(Q) THEN Q[c] ELSE R[c - Len(Q)]
  BY <1>3, <1>4, ConcatProperties
<1>6. PICK q \in Nat, r \in Nat : q = Len(Q) /\ r = Len(R)
  BY <1>1, <1>2
<1>7. Len(L) = q + r /\ DOMAIN L = 1..q + r /\ q + r \in Nat
  BY <1>5, <1>6, LenProperties
<1>8. \A c \in 1..q + r : L[c] = IF c <= q THEN Q[c] ELSE R[c - q]
  BY <1>5, <1>6
<1>9. timer + 0 = timer
  OBVIOUS
<1>10. ASSUME NEW c \in 1..q + r
       PROVE  \E i \in DOMAIN texts, k \in {0, 1} :
                 Has(texts, i, k) /\ L[c] = PageFor(texts, i, k, timer + k) /\ k <= q + r
  <2>1. CASE c <= q
    <3>1. c \in 1..q /\ L[c] = Q[c] /\ 0 <= q + r
      BY <2>1, <1>8
    <3>2. PICK i \in DOMAIN texts : Has(texts, i, 0) /\ Q[c] = PageFor(texts, i, 0, timer)
      BY <3>1, <1>1, <1>6
    <3> QED
      BY <3>1, <3>2, <1>9
  <2>2. CASE ~(c <= q)
    <3>1. c - q \in 1..r /\ L[c] = R[c - q] /\ 1 <= q + r
      BY <2>2, <1>8
    <3>2. PICK i \in DOMAIN texts : Has(texts, i, 1) /\ R[c - q] = PageFor(texts, i, 1, timer + 1)
      BY <3>1, <1>2, <1>6
    <3> QED
      BY <3>1, <3>2
  <2> QED
    BY <2>1, <2>2
<1>11. ASSUME NEW i \in DOMAIN texts, NEW k \in {0, 1}, Has(texts, i, k)
       PROVE  \E c \in 1..q + r : L[c] = PageFor(texts, i, k, timer + k)
  <2>1. CASE k = 0
    <3>1. PICK c \in 1..q : Q[c] = PageFor(texts, i, 0, timer)
      BY <1>1, <1>6, <1>11, <2>1
    <3>2. c \in 1..q + r /\ L[c] = Q[c]
      BY <1>8
    <3> QED
      BY <3>1, <3>2, <2>1, <1>9
  <2>2. CASE k = 1
    <3>1. PICK c \in 1..r : R[c] = PageFor(texts, i, 1, timer + 1)
      BY <1>2, <1>6, <1>11, <2>2
    <3>2. c + q \in 1..q + r /\ L[c + q] = R[c]
      BY <1>8
    <3> QED
      BY <3>1, <3>2, <2>2
  <2> QED
    BY <2>1, <2>2
<1> QED
  BY <1>7, <1>10, <1>11 DEF L

\* The pages k of process p that set_page builds at time t.
NewPage(p, k, t) == [pid : {p}, page_number : {k}, lines : [1..3 -> Line \cup {None}],
                     available : {FALSE}, last_used : {t}]

\* The fields of a loaded page.
LEMMA PageForType ==
    ASSUME NEW texts \in Seq(Seq(Line)), NEW i \in DOMAIN texts, NEW k \in Nat, NEW t
    PROVE  PageFor(texts, i, k, t) \in NewPage(pid_counter + i - 1, k, t)
<1>1. texts[i] \in Seq(Line)
  BY LenProperties, ElementOfSeq
<1>2. Chunk(texts[i], k) \in Seq(Line)
  BY <1>1, ChunkType
<1> QED
  BY <1>2, PageType DEF PageFor, NewPage

\* A page of the store after the pids have grown to n and the clock to t.
PageAt(n, t) == [pid : (1..(n - 1)) \cup {-1}, page_number : Nat \cup {-1},
                 lines : [1..3 -> Line \cup {None}], available : BOOLEAN, last_used : 0..t]

\* The frame store the loaders leave, and where the pages of each file are.
LEMMA LoadedPages ==
    ASSUME TypeOK, NEW texts \in Seq(Seq(Line)), NEW ticks \in Nat,
           Len(Loads(texts)) <= Cardinality(FreeFrames),
           ticks >= 1 \/ ticks >= Len(Loads(texts))
    PROVE  /\ Loaded(Loads(texts)) \in [Frames -> PageAt(pid_counter + Len(texts), timer + ticks)]
           /\ \A i \in DOMAIN texts :
                 {Loaded(Loads(texts))[f].page_number :
                     f \in {f \in Frames : Loaded(Loads(texts))[f].pid = pid_counter + i - 1}}
                 = {k \in {0, 1} : Has(texts, i, k)}
<1> DEFINE L == Loads(texts)
           fs == Loaded(L)
<1>1. PICK n \in Nat : n = Len(texts) /\ DOMAIN texts = 1..n
  BY LenProperties
<1>2. PICK pc \in Nat : pc = pid_counter /\ pc >= 1
  BY DEF TypeOK
<1>3. PICK tm \in Nat : tm = timer
  BY DEF TypeOK
<1>4. /\ DOMAIN L = 1..Len(L) /\ Len(L) \in Nat
      /\ \A c \in 1..Len(L) : \E i \in DOMAIN texts, k \in {0, 1} :
             /\ Has(texts, i, k) /\ L[c] = PageFor(texts, i, k, timer + k) /\ k <= Len(L)
      /\ \A i \in DOMAIN texts, k \in {0, 1} : Has(texts, i, k) =>
             \E c \in 1..Len(L) : L[c] = PageFor(texts, i, k, timer + k)
  BY <1>3, LoadsPages
<1>5. PICK m \in Nat : m = Len(L)
  BY <1>4
<1>6. \A f \in Frames : fs[f] = IF f \in FreeFrames /\ Turn(f) <= m THEN L[Turn(f)] ELSE framestore[f]
  BY <1>5, Zenon DEF Loaded
<1>d. DOMAIN fs = Frames /\ fs = [f \in Frames |-> fs[f]]
  BY Zenon DEF Loaded
<1>7. PICK b \in Nat : FreeFrames \in SUBSET (0..b) /\ FreeFrames \in SUBSET Frames
  <2>1. FRAMESTORE_LENGTH - 1 \in Nat
    BY FramesAssumption
  <2> QED
    BY <2>1 DEF FreeFrames, Frames
<1>8. m <= Cardinality(FreeFrames) /\ (ticks >= 1 \/ ticks >= m)
  BY <1>5
<1> HIDE DEF L, fs
<1>9. \A f \in FreeFrames : Turn(f) \in 1..Cardinality(FreeFrames)
  BY <1>7, Places DEF Turn
<1>10. Cardinality(FreeFrames) \in Nat
  BY <1>7, Places
<1>11. \A f \in FreeFrames : Turn(f) <= m => Turn(f) \in 1..m
  BY <1>9, <1>10
<1>12. \A c \in 1..m : \E f \in FreeFrames : Turn(f) = c
  <2>1. \A c \in 1..m : c \in 1..Cardinality(FreeFrames)
    BY <1>8, <1>10
  <2> QED
    BY <2>1, <1>7, PlaceTaken DEF Turn
<1>13. ASSUME NEW c \in 1..m
       PROVE  \E i \in 1..n, k \in {0, 1} :
                 /\ Has(texts, i, k) /\ L[c] = PageFor(texts, i, k, timer + k) /\ k <= m
                 /\ L[c].pid = pc + i - 1 /\ L[c].page_number = k
                 /\ L[c] \in NewPage(pc + i - 1, k, tm + k)
  <2>1. PICK i \in 1..n, k \in {0, 1} :
           Has(texts, i, k) /\ L[c] = PageFor(texts, i, k, timer + k) /\ k <= m
    BY <1>1, <1>4, <1>5
  <2>2. L[c] \in NewPage(pc + i - 1, k, tm + k)
    <3>1. k \in Nat /\ i \in DOMAIN texts
      BY <1>1
    <3>2. PageFor(texts, i, k, timer + k) \in NewPage(pid_counter + i - 1, k, timer + k)
      BY <3>1, PageForType
    <3> QED
      BY <3>2, <2>1, <1>2, <1>3
  <2>3. L[c].pid = pc + i - 1 /\ L[c].page_number = k
    BY <2>2 DEF NewPage
  <2> QED
    BY <2>1, <2>2, <2>3
<1>14. \A f \in Frames : framestore[f] \in PageAt(pc, tm)
  BY <1>2, <1>3 DEF TypeOK, Page, PageAt, Pids
<1>15. ASSUME NEW f \in Frames PROVE fs[f] \in PageAt(pc + n, tm + ticks)
  <2>1. CASE f \in FreeFrames /\ Turn(f) <= m
    <3>0. Turn(f) \in 1..m /\ fs[f] = L[Turn(f)]
      BY <2>1, <1>6, <1>11
    <3>1. PICK i \in 1..n, k \in {0, 1} : k <= m /\ fs[f] \in NewPage(pc + i - 1, k, tm + k)
      BY <3>0, <1>13
    <3>2. pc + i - 1 \in 1..((pc + n) - 1) /\ k \in Nat
      BY <1>2
    <3>3. tm + k \in 0..(tm + ticks)
      BY <3>1, <1>8
    <3> QED
      BY <3>1, <3>2, <3>3 DEF PageAt, NewPage
  <2>2. CASE ~(f \in FreeFrames /\ Turn(f) <= m)
    <3>1. fs[f] = framestore[f]
      BY <2>2, <1>6
    <3>2. 1..(pc - 1) \subseteq 1..((pc + n) - 1) /\ 0..tm \subseteq 0..(tm + ticks)
      OBVIOUS
    <3> QED
      BY <3>1, <3>2, <1>14 DEF PageAt
  <2> QED
    BY <2>1, <2>2
<1>16. ASSUME NEW i \in 1..n
       PROVE  {fs[f].page_number : f \in {f \in Frames : fs[f].pid = pc + i - 1}}
              = {k \in {0, 1} : Has(texts, i, k)}
  <2>1. ASSUME NEW f \in Frames, fs[f].pid = pc + i - 1
        PROVE  fs[f].page_number \in {0, 1} /\ Has(texts, i, fs[f].page_number)
    <3>1. f \in FreeFrames /\ Turn(f) <= m
      <4>1. framestore[f].pid \in (1..(pc - 1)) \cup {-1}
        BY <1>14 DEF PageAt
      <4>2. pc + i - 1 \notin (1..(pc - 1)) \cup {-1}
        OBVIOUS
      <4> QED
        BY <4>1, <4>2, <2>1, <1>6
    <3>0. Turn(f) \in 1..m /\ fs[f] = L[Turn(f)]
      BY <3>1, <1>6, <1>11
    <3>2. PICK j \in 1..n, k \in {0, 1} :
             /\ Has(texts, j, k) /\ fs[f].pid = pc + j - 1 /\ fs[f].page_number = k
      BY <3>0, <1>13
    <3>3. j = i
      BY <3>2, <2>1
    <3> QED
      BY <3>2, <3>3
  <2>2. ASSUME NEW k \in {0, 1}, Has(texts, i, k)
        PROVE  \E f \in {f \in Frames : fs[f].pid = pc + i - 1} : fs[f].page_number = k
    <3>1. PICK c \in 1..m : L[c] = PageFor(texts, i, k, timer + k)
      BY <2>2, <1>1, <1>4, <1>5
    <3>2. L[c] \in NewPage(pc + i - 1, k, timer + k)
      <4>1. k \in Nat /\ i \in DOMAIN texts
        BY <1>1
      <4>2. PageFor(texts, i, k, timer + k) \in NewPage(pid_counter + i - 1, k, timer + k)
        BY <4>1, PageForType
      <4> QED
        BY <4>2, <3>1, <1>2
    <3>3. PICK f \in FreeFrames : Turn(f) = c
      BY <1>12
    <3>4. f \in Frames /\ fs[f] = L[c]
      BY <3>3, <1>6, <1>7
    <3>5. L[c].pid = pc + i - 1 /\ L[c].page_number = k
      BY <3>2 DEF NewPage
    <3> QED
      BY <3>4, <3>5
  <2> QED
    BY <2>1, <2>2
<1>17. fs \in [Frames -> PageAt(pid_counter + Len(texts), timer + ticks)]
  BY <1>1, <1>2, <1>3, <1>15, <1>d
<1>18. \A i \in DOMAIN texts : {fs[f].page_number : f \in {f \in Frames : fs[f].pid = pid_counter + i - 1}}
              = {k \in {0, 1} : Has(texts, i, k)}
  BY <1>1, <1>2, <1>16, Zenon
<1> QED
  BY <1>17, <1>18 DEF fs, L

\* The entries execute_process has yet to follow lead to frames.
Ahead(c) == \A k \in c.curr_page..(c.num_pages - 1) : c.pagetable[k] \in Frames

\* The page table of a process whose first pages are loaded has no holes.
LEMMA TableType ==
    ASSUME NEW fs, NEW p, NEW texts \in Seq(Seq(Line)), NEW i \in DOMAIN texts,
           {fs[f].page_number : f \in {f \in Frames : fs[f].pid = p}} = {k \in {0, 1} : Has(texts, i, k)}
    PROVE  LET T == get_page_table(fs, p)
           IN  Cardinality(DOMAIN T) \in Nat /\ T \in [0..(Cardinality(DOMAIN T) - 1) -> Frames]
<1> DEFINE own == {f \in Frames : fs[f].pid = p}
           K == {fs[f].page_number : f \in own}
           T == get_page_table(fs, p)
<1>1. T = [k \in K |-> CHOOSE f \in own : fs[f].page_number = k]
  BY Zenon DEF get_page_table
<1>2. K = {k \in {0, 1} : Has(texts, i, k)}
  OBVIOUS
<1>3. \A k \in K : (CHOOSE f \in own : fs[f].page_number = k) \in Frames
  OBVIOUS
<1> HIDE DEF own, K, T
<1>4. DOMAIN T = K /\ T \in [K -> Frames]
  BY <1>1, <1>3
<1>5. Has(texts, i, 1) => Has(texts, i, 0)
  <2>1. PICK l \in Nat : l = Len(texts[i])
    BY LenProperties, ElementOfSeq
  <2>2. l > 3 * 1 => l > 3 * 0
    OBVIOUS
  <2> QED
    BY <2>1, <2>2 DEF Has
<1>6. \E n \in Nat : K = 0..(n - 1)
  <2>1. CASE ~Has(texts, i, 0)
    <3>1. K = {}
      BY <2>1, <1>2, <1>5
    <3>2. 0..(0 - 1) = {}
      OBVIOUS
    <3> QED
      BY <3>1, <3>2
  <2>2. CASE Has(texts, i, 0) /\ ~Has(texts, i, 1)
    <3>1. K = {0}
      BY <2>2, <1>2
    <3>2. 0..(1 - 1) = {0}
      OBVIOUS
    <3> QED
      BY <3>1, <3>2
  <2>3. CASE Has(texts, i, 0) /\ Has(texts, i, 1)
    <3>1. K = {0, 1}
      BY <2>3, <1>2
    <3>2. 0..(2 - 1) = {0, 1}
      OBVIOUS
    <3> QED
      BY <3>1, <3>2
  <2> QED
    BY <2>1, <2>2, <2>3
<1>7. PICK n \in Nat : K = 0..(n - 1)
  BY <1>6
<1>8. Cardinality(K) = n
  <2>1. Cardinality(0..(n - 1)) = IF 0 > n - 1 THEN 0 ELSE (n - 1) - 0 + 1
    BY FS_Interval
  <2>2. (IF 0 > n - 1 THEN 0 ELSE (n - 1) - 0 + 1) = n
    OBVIOUS
  <2> QED
    BY <2>1, <2>2, <1>7
<1> QED
  BY <1>4, <1>7, <1>8 DEF T

\* makePCB starts a process at its first line, with a table that is filled.
LEMMA MakePCBType ==
    ASSUME NEW T, NEW rest \in Seq(Line), Cardinality(DOMAIN T) \in Nat,
           T \in [0..(Cardinality(DOMAIN T) - 1) -> Frames]
    PROVE  IsPCB(makePCB(T, rest)) /\ Ahead(makePCB(T, rest))
<1>1. PICK n \in Nat : n = Cardinality(DOMAIN T)
  OBVIOUS
<1> DEFINE c == makePCB(T, rest)
<1>2. c = [pagetable |-> T, num_pages |-> n, curr_page |-> 0, curr_line |-> 0, fp |-> rest]
  BY <1>1 DEF makePCB
<1>3. T \in [0..(n - 1) -> Frames]
  BY <1>1
<1>4. 0 \in Nat /\ 0 \in 0..2 /\ 0 <= n
  OBVIOUS
<1> HIDE DEF c
<1>5. c.pagetable = T /\ c.num_pages = n /\ c.curr_page = 0
  BY <1>2
<1>6. c \in [pagetable : {c.pagetable}, num_pages : Nat, curr_page : Nat, curr_line : 0..2, fp : Seq(Line)]
  BY <1>2, <1>4
<1> QED
  BY <1>3, <1>4, <1>5, <1>6 DEF IsPCB, Ahead, c

-----------------------------------------------------------------------------
(* The invariant, in the parts that change together.                       *)

StoreOK == framestore \in [Frames -> Page] /\ timer \in Nat /\ pid_counter \in Nat \ {0}
TablesOK == DOMAIN pcb \subseteq Pids /\ \A p \in DOMAIN pcb : IsPCB(pcb[p]) /\ Ahead(pcb[p])
QueueOK == ready \in Seq(Pids) /\ \A i, j \in DOMAIN ready : ready[i] = ready[j] => i = j

\* Every live process is in the queue, or is p.
HolderOK(p) == p \notin Waiting /\ (status = "ok" => DOMAIN pcb = Waiting \cup ({p} \ {0}))

CpuOK ==
    /\ cpu \in [at : {"prompt", "command", "schedule", "execute", "advance"}, pid : Pids \cup {0},
                quanta : 0..MAX_INT, policy : Policies, cmd : {cpu.cmd}]
    /\ IsCommand(cpu.cmd)
StatusOK == status \in {"ok", "exit", "ub"}

\* The invariant is the conjunction of its parts, before and after a step.
LEMMA Parts ==
    /\ IInv <=> StoreOK /\ TablesOK /\ QueueOK /\ HolderOK(cpu.pid) /\ CpuOK /\ StatusOK /\ ThreadInHand
    /\ IInv' <=> (StoreOK /\ TablesOK /\ QueueOK /\ HolderOK(cpu.pid) /\ CpuOK /\ StatusOK /\ ThreadInHand)'
BY Zenon DEF IInv, QueueIntegrity, TableEntryValid, TypeOK, StoreOK, TablesOK, QueueOK, HolderOK, CpuOK, StatusOK, Ahead

-----------------------------------------------------------------------------
(* A command that starts processes.                                        *)

\* The first r elements of s differ; t is s with the n numbers after q behind.
Distinct(s, r) == \A i, j \in 1..r : s[i] = s[j] => i = j
Elements(s, r) == {s[i] : i \in 1..r}
Extends(t, s, q, r, n) ==
    /\ \A i \in 1..r : t[i] = s[i] /\ s[i] \in 1..q
    /\ \A i \in (r + 1)..(r + n) : t[i] = q + (i - r)

\* Numbers that follow all of s, put behind s, keep a sequence without repeats.
LEMMA Joined ==
    ASSUME NEW q \in Nat, NEW n \in Nat, NEW r \in Nat, NEW s, NEW t,
           Distinct(s, r), Extends(t, s, q, r, n)
    PROVE  /\ Distinct(t, r + n)
           /\ Elements(t, r + n) = Elements(s, r) \cup (q + 1)..(q + n)
<1> USE DEF Distinct, Extends, Elements
<1>1. \A i \in 1..(r + n) : i \in 1..r \/ i \in (r + 1)..(r + n)
  OBVIOUS
<1>2. \A i \in 1..r : t[i] \in Nat /\ t[i] <= q
  OBVIOUS
<1>3. \A i \in (r + 1)..(r + n) : t[i] \in Nat /\ t[i] > q
  OBVIOUS
<1>4. ASSUME NEW i \in 1..(r + n), NEW j \in 1..(r + n), t[i] = t[j] PROVE i = j
  <2>1. CASE i \in 1..r /\ j \in 1..r
    BY <2>1, <1>4
  <2>2. CASE i \in (r + 1)..(r + n) /\ j \in (r + 1)..(r + n)
    <3>1. t[i] = q + (i - r) /\ t[j] = q + (j - r)
      BY <2>2
    <3> QED
      BY <3>1, <1>4
  <2>3. ~(t[i] <= q /\ t[j] > q) /\ ~(t[i] > q /\ t[j] <= q)
    BY <1>1, <1>2, <1>3, <1>4
  <2> QED
    BY <2>1, <2>2, <2>3, <1>1, <1>2, <1>3
<1> DEFINE W == {s[i] : i \in 1..r}
           N == (q + 1)..(q + n)
<1>5. \A i \in (r + 1)..(r + n) : t[i] \in N
  OBVIOUS
<1>6. \A i \in 1..(r + n) : t[i] \in W \cup N
  <2>1. \A i \in 1..r : t[i] \in W
    OBVIOUS
  <2> HIDE DEF W, N
  <2> QED
    BY <2>1, <1>1, <1>5
<1>7. \A p \in N : \E i \in 1..(r + n) : t[i] = p
  <2>1. ASSUME NEW p \in N PROVE \E i \in 1..(r + n) : t[i] = p
    <3>1. r + (p - q) \in (r + 1)..(r + n) /\ r + (p - q) \in 1..(r + n)
      OBVIOUS
    <3>2. t[r + (p - q)] = q + ((r + (p - q)) - r)
      BY <3>1
    <3>3. q + ((r + (p - q)) - r) = p
      OBVIOUS
    <3> QED
      BY <3>1, <3>2, <3>3
  <2> QED
    BY <2>1
<1>8. \A p \in W : \E i \in 1..(r + n) : t[i] = p
  <2>1. \A i \in 1..r : i \in 1..(r + n)
    OBVIOUS
  <2> QED
    BY <2>1
<1> HIDE DEF W, N
<1>9. {t[i] : i \in 1..(r + n)} = W \cup N
  BY <1>6, <1>7, <1>8
<1> QED
  BY <1>4, <1>9 DEF W, N

\* New processes queue up behind the ones that wait, each once.
LEMMA NewQueued ==
    ASSUME StoreOK, QueueOK, NEW texts, NEW n \in Nat, DOMAIN texts = 1..n,
           ready' = ready \o [i \in DOMAIN texts |-> pid_counter + i - 1],
           pid_counter' = pid_counter + n
    PROVE  QueueOK' /\ Waiting' = Waiting \cup pid_counter..(pid_counter + n - 1)
<1>1. PICK pc \in Nat : pc = pid_counter /\ pc >= 1
  BY DEF StoreOK
<1> DEFINE more == [i \in 1..n |-> pc + i - 1]
           Q == 1..((pc + n) - 1)
<1>2. Pids = 1..(pc - 1) /\ Pids' = Q
  BY <1>1 DEF Pids
<1>3. ready \in Seq(1..(pc - 1)) /\ \A i, j \in DOMAIN ready : ready[i] = ready[j] => i = j
  BY <1>2 DEF QueueOK
<1>4. PICK r \in Nat : r = Len(ready) /\ DOMAIN ready = 1..r /\ ready \in [1..r -> 1..(pc - 1)]
  BY <1>3, LenProperties
<1>5. more \in Seq(Q) /\ Len(more) = n
  <2>1. \A i \in 1..n : pc + i - 1 \in Q
    BY <1>1
  <2> QED
    BY <2>1
<1>6. ready' = ready \o more
  BY <1>1, Zenon
<1>7. \A i \in 1..n : more[i] = pc + i - 1
  OBVIOUS
<1> HIDE DEF more
<1>8. ready \in Seq(Q)
  <2>1. 1..(pc - 1) \subseteq Q
    OBVIOUS
  <2> HIDE DEF Q
  <2> QED
    BY <2>1, <1>3, SeqMonotonic
<1>9. /\ ready' \in Seq(Q) /\ Len(ready') = Len(ready) + Len(more)
      /\ \A i \in 1..Len(ready) + Len(more) :
            ready'[i] = IF i <= Len(ready) THEN ready[i] ELSE more[i - Len(ready)]
  <2> HIDE DEF Q
  <2> QED
    BY <1>5, <1>6, <1>8, ConcatProperties, ZenonT(60)
<1>10. DOMAIN ready' = 1..(r + n) /\ \A i \in 1..(r + n) : ready'[i] = IF i <= r THEN ready[i] ELSE more[i - r]
  <2> HIDE DEF Q
  <2>1. Len(ready') = r + n
    BY <1>4, <1>5, <1>9
  <2> QED
    BY <2>1, <1>4, <1>5, <1>9, LenProperties
<1>11. \A i \in 1..r : ready'[i] = ready[i] /\ ready[i] \in 1..(pc - 1)
  BY <1>4, <1>10
<1>12. \A i \in (r + 1)..(r + n) : ready'[i] = (pc - 1) + (i - r)
  <2>1. \A i \in (r + 1)..(r + n) : i \in 1..(r + n) /\ ~(i <= r) /\ i - r \in 1..n
    OBVIOUS
  <2>2. \A i \in (r + 1)..(r + n) : ready'[i] = pc + (i - r) - 1
    BY <2>1, <1>7, <1>10
  <2>3. \A i \in (r + 1)..(r + n) : pc + (i - r) - 1 = (pc - 1) + (i - r)
    OBVIOUS
  <2> QED
    BY <2>2, <2>3, Zenon
<1>13. pc - 1 \in Nat
  BY <1>1
<1>14. Distinct(ready, r) /\ Extends(ready', ready, pc - 1, r, n)
  BY <1>3, <1>4, <1>11, <1>12, Zenon DEF Distinct, Extends
<1>15. /\ Distinct(ready', r + n)
       /\ Elements(ready', r + n) = Elements(ready, r) \cup ((pc - 1) + 1)..((pc - 1) + n)
  BY <1>13, <1>14, Joined, ZenonT(60)
<1>16. QueueOK'
  BY <1>2, <1>9, <1>10, <1>15, Zenon DEF QueueOK, Distinct
<1>17. Waiting' = Elements(ready', r + n) /\ Waiting = Elements(ready, r)
  BY <1>4, <1>10 DEF Waiting, Elements
<1>18. (pc - 1) + 1 = pc /\ (pc - 1) + n = pc + n - 1
  OBVIOUS
<1> QED
  BY <1>1, <1>15, <1>16, <1>17, <1>18

\* What a command that starts processes leaves of the invariant before the
\* interpreter returns: the process that has the thread is as it was.
ProcessesOK ==
    /\ StoreOK' /\ TablesOK' /\ QueueOK' /\ StatusOK' /\ Pids \subseteq Pids'
    /\ cpu.pid \notin Waiting'
    /\ status' = "ok" => DOMAIN pcb' = Waiting' \cup ({cpu.pid} \ {0})
    /\ cpu.pid # 0 => pcb'[cpu.pid] = pcb[cpu.pid]

\* A command whose script does not exist, or for which there is no frame, starts
\* nothing and leaves every process as it was.
LEMMA NothingStarts ==
    ASSUME IInv, UNCHANGED <<framestore, timer, pid_counter, pcb, ready>>,
           status' = status \/ status' = "ub"
    PROVE  ProcessesOK
<1>1. StoreOK /\ TablesOK /\ QueueOK /\ HolderOK(cpu.pid) /\ StatusOK
  BY Parts
<1>2. Pids' = Pids /\ Page' = Page /\ Waiting' = Waiting
  BY DEF Pids, Page, Waiting
<1>3. StoreOK' /\ TablesOK' /\ QueueOK'
  BY <1>1, <1>2 DEF StoreOK, TablesOK, QueueOK
<1>4. StatusOK'
  BY <1>1 DEF StatusOK
<1> QED
  BY <1>1, <1>2, <1>3, <1>4 DEF ProcessesOK, HolderOK

\* Admit gives every new process pages, a table and a place in the queue.
LEMMA AdmitOK ==
    ASSUME IInv, status = "ok", NEW whole, NEW seen \in Seq(Seq(Line)), NEW ticks \in Nat,
           ticks >= 1 \/ ticks >= Len(Loads(seen)), Admit(whole, seen, ticks)
    PROVE  ProcessesOK
<1>0. StoreOK /\ TablesOK /\ QueueOK /\ HolderOK(cpu.pid) /\ CpuOK /\ TypeOK
  BY Parts DEF IInv, QueueIntegrity
<1>1. CASE Len(Loads(seen)) > Cardinality(FreeFrames)
  <2>1. status' = "ub" /\ UNCHANGED <<framestore, timer, pid_counter, pcb, ready>>
    BY <1>1 DEF Admit
  <2> QED
    BY <2>1, NothingStarts
<1>2. CASE ~(Len(Loads(seen)) > Cardinality(FreeFrames))
  <2> DEFINE pids == pid_counter..(pid_counter + Len(seen) - 1)
             fs == Loaded(Loads(seen))
             new(p) == makePCB(get_page_table(fs, p), After(seen[p - pid_counter + 1], 6))
  <2>1. /\ framestore' = fs
        /\ timer' = timer + ticks
        /\ pid_counter' = pid_counter + Len(seen)
        /\ pcb' = [p \in DOMAIN pcb \cup pids |-> IF p \in pids THEN new(p) ELSE pcb[p]]
        /\ ready' = ready \o [i \in DOMAIN seen |-> pid_counter + i - 1]
        /\ status' = status
    BY <1>2 DEF Admit
  <2>2. PICK n \in Nat : n = Len(seen) /\ DOMAIN seen = 1..n
    BY LenProperties
  <2>3. PICK pc \in Nat : pc = pid_counter /\ pc >= 1
    BY <1>0 DEF StoreOK
  <2>4. PICK tm \in Nat : tm = timer
    BY <1>0 DEF StoreOK
  <2>5. Len(Loads(seen)) <= Cardinality(FreeFrames)
    <3>1. Len(Loads(seen)) \in Nat
      BY <2>4, LoadsPages
    <3>2. FreeFrames \in SUBSET (0..FRAMESTORE_LENGTH) /\ FRAMESTORE_LENGTH \in Nat
      BY FramesAssumption DEF FreeFrames, Frames
    <3>3. Cardinality(FreeFrames) \in Nat
      BY <3>2, Places
    <3> QED
      BY <3>1, <3>3, <1>2
  <2>6. /\ fs \in [Frames -> PageAt(pid_counter + Len(seen), timer + ticks)]
        /\ \A i \in DOMAIN seen :
              {fs[f].page_number : f \in {f \in Frames : fs[f].pid = pid_counter + i - 1}}
              = {k \in {0, 1} : Has(seen, i, k)}
    BY <2>5, <1>0, LoadedPages
  <2> HIDE DEF fs
  <2>7. /\ pid_counter' = pc + n /\ timer' = tm + ticks
        /\ Pids = 1..(pc - 1) /\ Pids' = 1..((pc + n) - 1)
    BY <2>1, <2>2, <2>3, <2>4 DEF Pids
  <2>8. Page' = PageAt(pid_counter + Len(seen), timer + ticks)
    BY <2>1 DEF Page, PageAt, Pids
  <2>9. StoreOK'
    <3>1. timer' \in Nat /\ pid_counter' \in Nat \ {0}
      BY <2>3, <2>7
    <3> QED
      BY <3>1, <2>1, <2>6, <2>8 DEF StoreOK
  <2>10. QueueOK' /\ Waiting' = Waiting \cup pc..(pc + n - 1)
    <3>1. pid_counter' = pid_counter + n
      BY <2>3, <2>7
    <3> QED
      BY <3>1, <1>0, <2>1, <2>2, <2>3, NewQueued
  <2>11. pids = pc..(pc + n - 1)
    BY <2>2, <2>3
  <2>12. ASSUME NEW p \in pids PROVE IsPCB(new(p)) /\ Ahead(new(p))
    <3>1. PICK i \in 1..n : p = pc + i - 1 /\ i = p - pc + 1
      <4> HIDE DEF pids, new
      <4>1. \A x \in pc..(pc + n - 1) : x - pc + 1 \in 1..n /\ x = pc + (x - pc + 1) - 1
        OBVIOUS
      <4>2. p \in pc..(pc + n - 1)
        BY <2>11
      <4> QED
        BY <4>1, <4>2, Zenon
    <3>2. i \in DOMAIN seen /\ p = pid_counter + i - 1 /\ i = p - pid_counter + 1
      BY <3>1, <2>2, <2>3
    <3> DEFINE T == get_page_table(fs, p)
    <3>3. Cardinality(DOMAIN T) \in Nat /\ T \in [0..(Cardinality(DOMAIN T) - 1) -> Frames]
      <4>1. {fs[f].page_number : f \in {f \in Frames : fs[f].pid = p}} = {k \in {0, 1} : Has(seen, i, k)}
        BY <3>2, <2>6
      <4> QED
        BY <4>1, <3>2, TableType
    <3>4. After(seen[i], 6) \in Seq(Line)
      <4>1. seen[i] \in Seq(Line) /\ 6 \in Nat
        BY <3>1, <2>2, ElementOfSeq
      <4> QED
        BY <4>1, ChunkType
    <3>5. new(p) = makePCB(T, After(seen[i], 6))
      BY <3>2
    <3> HIDE DEF T, new
    <3> QED
      BY <3>3, <3>4, <3>5, MakePCBType
  <2>13. DOMAIN pcb \subseteq Pids /\ \A p \in DOMAIN pcb : IsPCB(pcb[p]) /\ Ahead(pcb[p])
    BY <1>0 DEF TablesOK
  <2> HIDE DEF new
  <2>14. DOMAIN pcb' = DOMAIN pcb \cup pids
    BY <2>1
  <2>15. \A p \in DOMAIN pcb' : pcb'[p] = IF p \in pids THEN new(p) ELSE pcb[p]
    BY <2>1
  <2>16. Pids \subseteq Pids' /\ pids \subseteq Pids'
    BY <2>3, <2>7, <2>11
  <2> HIDE DEF pids
  <2>17. TablesOK'
    <3>1. DOMAIN pcb' \subseteq Pids'
      BY <2>13, <2>14, <2>16
    <3>2. ASSUME NEW p \in DOMAIN pcb' PROVE IsPCB(pcb'[p]) /\ Ahead(pcb'[p])
      BY <2>12, <2>13, <2>14, <2>15
    <3> QED
      BY <3>1, <3>2 DEF TablesOK
  <2>18. cpu.pid \notin pids /\ (cpu.pid # 0 => cpu.pid \in Pids)
    <3>1. cpu.pid \in Pids \cup {0}
      BY <1>0 DEF CpuOK
    <3> QED
      BY <3>1, <2>3, <2>7, <2>11
  <2>19. cpu.pid \notin Waiting /\ DOMAIN pcb = Waiting \cup ({cpu.pid} \ {0})
    BY <1>0 DEF HolderOK
  <2>20. cpu.pid \notin Waiting' /\ DOMAIN pcb' = Waiting' \cup ({cpu.pid} \ {0})
    BY <2>10, <2>11, <2>14, <2>18, <2>19
  <2>21. cpu.pid # 0 => pcb'[cpu.pid] = pcb[cpu.pid]
    BY <2>14, <2>15, <2>18, <2>19
  <2>22. StatusOK'
    BY <2>1 DEF StatusOK
  <2> QED
    BY <2>9, <2>10, <2>16, <2>17, <2>20, <2>21, <2>22 DEF ProcessesOK
<1> QED
  BY <1>1, <1>2

-----------------------------------------------------------------------------
(* The ready queue.                                                        *)

\* The head leaves the queue and is in it no more.
LEMMA HeadLeaves ==
    ASSUME QueueOK, ready # <<>>, ready' = Tail(ready), Pids' = Pids
    PROVE  QueueOK' /\ Head(ready) \in Pids /\ Head(ready) \notin Waiting'
           /\ Waiting = Waiting' \cup {Head(ready)}
<1> DEFINE h == Head(ready)
           t == Tail(ready)
<1>1. ready \in Seq(Pids) /\ \A i, j \in DOMAIN ready : ready[i] = ready[j] => i = j
  BY DEF QueueOK
<1>2. PICK r \in Nat : r = Len(ready) /\ DOMAIN ready = 1..r
  BY <1>1, LenProperties
<1>3. r # 0
  BY <1>1, <1>2, EmptySeq
<1>4. /\ h \in Pids /\ t \in Seq(Pids) /\ Len(t) = r - 1
      /\ \A i \in 1..Len(t) : t[i] = ready[i + 1]
  BY <1>1, <1>2, HeadTailProperties
<1>5. h = ready[1]
  BY <1>1, <1>2
<1> HIDE DEF h, t
<1>6. DOMAIN t = 1..(r - 1) /\ \A i \in 1..(r - 1) : t[i] = ready[i + 1]
  BY <1>4, LenProperties
<1>7. 1 \in 1..r /\ (\A i \in 1..(r - 1) : i + 1 \in 1..r /\ i + 1 # 1)
      /\ \A i, j \in 1..(r - 1) : i + 1 = j + 1 => i = j
  BY <1>3
<1>8. \A i \in 1..r : i = 1 \/ \E j \in 1..(r - 1) : i = j + 1
  <2>1. \A i \in 1..r : i # 1 => i - 1 \in 1..(r - 1) /\ i = (i - 1) + 1
    OBVIOUS
  <2> QED
    BY <2>1
<1>9. ASSUME NEW i \in 1..(r - 1), NEW j \in 1..(r - 1), t[i] = t[j] PROVE i = j
  <2>1. ready[i + 1] = ready[j + 1] /\ i + 1 \in 1..r /\ j + 1 \in 1..r
    BY <1>9, <1>6, <1>7
  <2>2. i + 1 = j + 1
    BY <2>1, <1>1, <1>2, Zenon
  <2> QED
    BY <2>2, <1>7
<1>10. Waiting = {ready[i] : i \in 1..r} /\ Waiting' = {t[i] : i \in 1..(r - 1)}
  BY <1>2, <1>6 DEF Waiting, t
<1>11. \A i \in 1..(r - 1) : t[i] # h
  BY <1>1, <1>2, <1>5, <1>6, <1>7
<1>12. Waiting = Waiting' \cup {h}
  <2>1. \A p \in Waiting : p \in Waiting' \cup {h}
    <3>1. ASSUME NEW i \in 1..r PROVE ready[i] \in Waiting' \cup {h}
      <4>1. CASE i = 1
        BY <4>1, <1>5
      <4>2. ASSUME NEW j \in 1..(r - 1), i = j + 1 PROVE ready[i] \in Waiting'
        <5>1. ready[i] = t[j]
          BY <4>2, <1>6
        <5> QED
          BY <5>1, <1>10
      <4> QED
        BY <4>1, <4>2, <1>8
    <3> QED
      BY <3>1, <1>10
  <2>2. \A p \in Waiting' \cup {h} : p \in Waiting
    BY <1>5, <1>6, <1>7, <1>10
  <2> QED
    BY <2>1, <2>2
<1>13. QueueOK'
  BY <1>4, <1>6, <1>9 DEF QueueOK, t
<1> QED
  BY <1>4, <1>10, <1>11, <1>12, <1>13 DEF h

\* A process that waits nowhere goes to an end of the queue and is in it once.
LEMMA GoesBack ==
    ASSUME QueueOK, NEW p \in Pids, p \notin Waiting, Pids' = Pids,
           ready' = Append(ready, p) \/ ready' = <<p>> \o ready
    PROVE  QueueOK' /\ Waiting' = Waiting \cup {p}
<1>1. ready \in Seq(Pids) /\ \A i, j \in DOMAIN ready : ready[i] = ready[j] => i = j
  BY DEF QueueOK
<1>2. PICK r \in Nat : r = Len(ready) /\ DOMAIN ready = 1..r
  BY <1>1, LenProperties
<1>3. \A i \in 1..r : ready[i] # p
  BY <1>2 DEF Waiting
<1>4. CASE ready' = Append(ready, p)
  <2>1. /\ ready' \in Seq(Pids) /\ Len(ready') = Len(ready) + 1
        /\ \A i \in 1..Len(ready) : ready'[i] = ready[i]
        /\ ready'[Len(ready) + 1] = p
    BY <1>1, <1>4, AppendProperties
  <2>2. DOMAIN ready' = 1..(r + 1) /\ (\A i \in 1..r : ready'[i] = ready[i]) /\ ready'[r + 1] = p
    BY <2>1, <1>2, LenProperties
  <2>3. \A i \in 1..(r + 1) : i \in 1..r \/ i = r + 1
    OBVIOUS
  <2>4. r + 1 \in 1..(r + 1) /\ \A i \in 1..r : i \in 1..(r + 1)
    OBVIOUS
  <2>5. \A i, j \in 1..(r + 1) : ready'[i] = ready'[j] => i = j
    BY <2>2, <2>3, <1>1, <1>2, <1>3, ZenonT(60)
  <2>6. {ready'[i] : i \in 1..(r + 1)} = {ready[i] : i \in 1..r} \cup {p}
    <3>1. \A i \in 1..(r + 1) : ready'[i] \in {ready[j] : j \in 1..r} \cup {p}
      BY <2>2, <2>3
    <3>2. \A q \in {ready[j] : j \in 1..r} \cup {p} : \E i \in 1..(r + 1) : ready'[i] = q
      BY <2>2, <2>4
    <3> QED
      BY <3>1, <3>2
  <2>7. Waiting = {ready[i] : i \in 1..r} /\ Waiting' = {ready'[i] : i \in 1..(r + 1)}
    BY <1>2, <2>2, Zenon DEF Waiting
  <2> QED
    BY <2>1, <2>2, <2>5, <2>6, <2>7, Zenon DEF QueueOK
<1>5. CASE ready' = <<p>> \o ready
  <2>1. <<p>> \in Seq(Pids) /\ Len(<<p>>) = 1 /\ <<p>>[1] = p
    OBVIOUS
  <2> DEFINE one == <<p>>
  <2>2. one \in Seq(Pids) /\ Len(one) = 1 /\ one[1] = p /\ ready' = one \o ready
    BY <2>1, <1>5
  <2> HIDE DEF one
  <2>3. /\ ready' \in Seq(Pids) /\ Len(ready') = Len(one) + Len(ready)
        /\ \A i \in 1..Len(one) + Len(ready) :
              ready'[i] = IF i <= Len(one) THEN one[i] ELSE ready[i - Len(one)]
    BY <2>2, <1>1, ConcatProperties
  <2>4. DOMAIN ready' = 1..(r + 1)
        /\ \A i \in 1..(1 + r) : ready'[i] = IF i <= 1 THEN one[i] ELSE ready[i - 1]
    <3>1. Len(ready') = 1 + r
      BY <2>2, <2>3, <1>2
    <3>2. 1 + r = r + 1
      OBVIOUS
    <3> QED
      BY <3>1, <3>2, <2>2, <2>3, <1>2, LenProperties
  <2>5. ready'[1] = p /\ \A i \in 2..(r + 1) : ready'[i] = ready[i - 1]
    BY <2>2, <2>4
  <2>6. \A i \in 1..(r + 1) : i = 1 \/ i \in 2..(r + 1)
    OBVIOUS
  <2>7. 1 \in 1..(r + 1) /\ (\A i \in 2..(r + 1) : i - 1 \in 1..r)
        /\ (\A i, j \in 2..(r + 1) : i - 1 = j - 1 => i = j)
        /\ (\A j \in 1..r : j + 1 \in 2..(r + 1) /\ j + 1 \in 1..(r + 1) /\ (j + 1) - 1 = j)
    OBVIOUS
  <2>8. \A i, j \in 1..(r + 1) : ready'[i] = ready'[j] => i = j
    <3>1. SUFFICES ASSUME NEW i \in 1..(r + 1), NEW j \in 1..(r + 1), ready'[i] = ready'[j]
                   PROVE  i = j
      OBVIOUS
    <3>2. CASE i = 1 /\ j = 1
      BY <3>2
    <3>3. CASE i \in 2..(r + 1) /\ j \in 2..(r + 1)
      <4>1. ready[i - 1] = ready[j - 1] /\ i - 1 \in 1..r /\ j - 1 \in 1..r
        BY <3>1, <3>3, <2>5, <2>7
      <4>2. i - 1 = j - 1
        BY <4>1, <1>1, <1>2
      <4> QED
        BY <4>2, <3>3, <2>7
    <3>6. \A k \in 2..(r + 1) : ready'[k] # p
      BY <2>5, <2>7, <1>3
    <3>4. CASE i = 1 /\ j \in 2..(r + 1)
      BY <3>1, <3>4, <3>6, <2>5
    <3>5. CASE i \in 2..(r + 1) /\ j = 1
      BY <3>1, <3>5, <3>6, <2>5
    <3> QED
      BY <3>2, <3>3, <3>4, <3>5, <2>6
  <2>9. {ready'[i] : i \in 1..(r + 1)} = {ready[i] : i \in 1..r} \cup {p}
    <3>1. ASSUME NEW i \in 1..(r + 1) PROVE ready'[i] \in {ready[j] : j \in 1..r} \cup {p}
      <4>1. CASE i = 1
        BY <4>1, <2>5
      <4>2. CASE i \in 2..(r + 1)
        <5>1. i - 1 \in 1..r /\ ready'[i] = ready[i - 1]
          BY <4>2, <2>5, <2>7
        <5> QED
          BY <5>1, Zenon
      <4> QED
        BY <4>1, <4>2, <2>6
    <3>2. ASSUME NEW q \in {ready[j] : j \in 1..r} \cup {p} PROVE \E i \in 1..(r + 1) : ready'[i] = q
      <4>1. CASE q = p
        BY <4>1, <2>5, <2>7, Zenon
      <4>2. ASSUME NEW j \in 1..r, q = ready[j] PROVE \E i \in 1..(r + 1) : ready'[i] = q
        <5>1. j + 1 \in 1..(r + 1) /\ ready'[j + 1] = ready[j]
          BY <2>5, <2>7
        <5> QED
          BY <5>1, <4>2, Zenon
      <4> QED
        BY <4>1, <4>2
    <3> QED
      BY <3>1, <3>2
  <2>10. Waiting = {ready[i] : i \in 1..r} /\ Waiting' = {ready'[i] : i \in 1..(r + 1)}
    BY <1>2, <2>4, Zenon DEF Waiting
  <2> QED
    BY <2>3, <2>4, <2>8, <2>9, <2>10, Zenon DEF QueueOK
<1> QED
  BY <1>4, <1>5

-----------------------------------------------------------------------------
(* The invariant holds at the start and every action keeps it.             *)

\* The command that stands for "no command" is one.
LEMMA NothingTyped == IsCommand(NoCommand)
<1>1. NoCommand.args = <<>> /\ NoCommand.op = "echo"
  BY DEF NoCommand
<1>2. IsSequence(<<>>)
  BY DEF IsSequence
<1> QED
  BY <1>1, <1>2 DEF IsCommand

\* An empty frame store and no process: the shell as it starts.
LEMMA InitIInv == Init => IInv
<1> SUFFICES ASSUME Init PROVE IInv
  OBVIOUS
<1> USE DEF Init
<1>1. StoreOK
  <2>1. EmptyPage \in Page
    <3>1. <<None, None, None>> \in [1..3 -> Line \cup {None}]
      OBVIOUS
    <3>2. 0 \in 0..timer
      OBVIOUS
    <3> QED
      BY <3>1, <3>2 DEF EmptyPage, Page
  <2> QED
    BY <2>1 DEF StoreOK
<1>2. DOMAIN pcb = {} /\ DOMAIN ready = {}
  OBVIOUS
<1>3. TablesOK /\ QueueOK
  BY <1>2 DEF TablesOK, QueueOK
<1>4. Waiting = {}
  BY <1>2 DEF Waiting
<1>5. cpu.pid = 0 /\ cpu.quanta = 0 /\ cpu.at = "prompt" /\ cpu.cmd = NoCommand /\ cpu.policy = "FCFS"
  BY DEF Prompt
<1>6. HolderOK(cpu.pid)
  BY <1>2, <1>4, <1>5 DEF HolderOK
<1>7. CpuOK
  <2>1. 0 \in 0..MAX_INT
    BY QuantaAssumption
  <2> QED
    BY <2>1, <1>5, NothingTyped DEF CpuOK, Prompt, Policies
<1>8. ThreadInHand
  BY <1>5 DEF ThreadInHand
<1> QED
  BY <1>1, <1>3, <1>6, <1>7, <1>8, Parts DEF StatusOK

\* A step that leaves the processes alone keeps what the invariant says of them.
LEMMA SameProcesses ==
    ASSUME IInv, UNCHANGED <<framestore, timer, pid_counter, pcb, ready, status>>
    PROVE  /\ StoreOK' /\ TablesOK' /\ QueueOK' /\ StatusOK'
           /\ Pids' = Pids /\ Waiting' = Waiting
           /\ cpu'.pid = cpu.pid => HolderOK(cpu.pid)'
<1>1. StoreOK /\ TablesOK /\ QueueOK /\ HolderOK(cpu.pid) /\ StatusOK
  BY Parts
<1>2. Pids' = Pids /\ Page' = Page /\ Waiting' = Waiting
  BY DEF Pids, Page, Waiting
<1>3. StoreOK' /\ TablesOK' /\ QueueOK' /\ StatusOK'
  BY <1>1, <1>2 DEF StoreOK, TablesOK, QueueOK, StatusOK
<1>4. cpu'.pid = cpu.pid => HolderOK(cpu.pid)'
  BY <1>1, <1>2 DEF HolderOK
<1> QED
  BY <1>2, <1>3, <1>4

\* main: a typed command finds no process with the thread.
LEMMA TypeIInv == ASSUME IInv, NEW c \in UserCommands, Type(c) PROVE IInv'
<1>0. StoreOK /\ HolderOK(cpu.pid) /\ ThreadInHand /\ CpuOK
  BY Parts
<1>1. UNCHANGED <<framestore, timer, pid_counter, pcb, ready, status>> /\ cpu.at = "prompt"
  BY DEF Type, kernelVars
<1>2. cpu' = [at |-> "command", pid |-> 0, quanta |-> 0, policy |-> "FCFS", cmd |-> c]
  BY DEF Type, Prompt
<1>3. cpu.pid = 0 /\ cpu'.pid = 0 /\ cpu'.quanta = 0 /\ cpu'.at = "command" /\ cpu'.cmd = c
  BY <1>0, <1>1, <1>2 DEF ThreadInHand
<1>4. StoreOK' /\ TablesOK' /\ QueueOK' /\ StatusOK' /\ HolderOK(cpu.pid)'
  BY <1>1, <1>3, SameProcesses
<1>5. CpuOK'
  <2>1. IsCommand(c)
    BY ScriptAssumption
  <2>2. 0 \in 0..MAX_INT
    BY QuantaAssumption
  <2> QED
    BY <1>2, <1>3, <2>1, <2>2 DEF CpuOK, Policies
<1>6. ThreadInHand'
  BY <1>3 DEF ThreadInHand
<1> QED
  BY <1>4, <1>5, <1>6, Parts

\* The interpreter returns to the process that called it, or to the scheduler.
LEMMA ReturnIInv ==
    ASSUME IInv, status = "ok", cpu.at = "command", ProcessesOK,
           NEW policy \in Policies, Return(policy)
    PROVE  IInv'
<1>0. CpuOK /\ ThreadInHand
  BY Parts
<1>1. StoreOK' /\ TablesOK' /\ QueueOK' /\ StatusOK' /\ Pids \subseteq Pids'
  BY DEF ProcessesOK
<1>2. /\ cpu'.pid = cpu.pid /\ cpu'.quanta = cpu.quanta /\ cpu'.cmd = cpu.cmd
      /\ cpu'.at = IF cpu.pid # 0 THEN "advance" ELSE "schedule"
      /\ cpu'.policy \in Policies
      /\ cpu' \in [at : {"advance", "schedule"}, pid : {cpu.pid}, quanta : {cpu.quanta},
                   policy : Policies, cmd : {cpu.cmd}]
  BY <1>0 DEF CpuOK, Return, in_background
<1>3. HolderOK(cpu.pid)'
  BY <1>2 DEF ProcessesOK, HolderOK
<1>4. CpuOK'
  <2>1. cpu.pid \in Pids' \cup {0} /\ cpu.quanta \in 0..MAX_INT /\ IsCommand(cpu.cmd)
    BY <1>0, <1>1 DEF CpuOK
  <2> QED
    BY <1>2, <2>1 DEF CpuOK
<1>5. ThreadInHand'
  <2>1. cpu.pid # 0 => ~page_fault
    BY <1>0 DEF ThreadInHand
  <2>2. cpu.pid # 0 => pcb'[cpu'.pid] = pcb[cpu.pid]
    BY <1>2 DEF ProcessesOK
  <2>3. cpu.pid # 0 => ~page_fault'
    BY <2>1, <2>2 DEF page_fault, Current
  <2>4. cpu.pid # 0 <=> cpu.quanta > 0
    BY <1>0 DEF ThreadInHand
  <2> QED
    BY <1>2, <2>3, <2>4 DEF ThreadInHand
<1> QED
  BY <1>1, <1>3, <1>4, <1>5, Parts

\* quit empties the ready queue; nothing is scheduled after it.
LEMMA QuitIInv == ASSUME IInv, quit PROVE IInv'
<1>0. StoreOK /\ TablesOK /\ QueueOK /\ HolderOK(cpu.pid) /\ CpuOK /\ ThreadInHand
  BY Parts
<1>1. UNCHANGED <<framestore, timer, pid_counter, pcb, cpu>> /\ ready' = <<>> /\ status' = "exit"
  BY DEF quit
<1>2. Pids' = Pids /\ Page' = Page
  BY <1>1 DEF Pids, Page
<1>3. StoreOK' /\ TablesOK'
  BY <1>0, <1>1, <1>2 DEF StoreOK, TablesOK
<1>4. DOMAIN ready' = {}
  BY <1>1
<1>5. QueueOK' /\ Waiting' = {}
  BY <1>1, <1>4 DEF QueueOK, Waiting
<1>6. HolderOK(cpu.pid)' /\ StatusOK'
  BY <1>1, <1>5 DEF HolderOK, StatusOK
<1>7. CpuOK'
  BY <1>0, <1>1, <1>2 DEF CpuOK
<1>8. ThreadInHand'
  BY <1>0, <1>1 DEF ThreadInHand
<1> QED
  BY <1>3, <1>5, <1>6, <1>7, <1>8, Parts

\* A command without effect on processes, typed or in a script.
LEMMA EchoIInv == ASSUME IInv, echo PROVE IInv'
<1>0. CpuOK /\ ThreadInHand
  BY Parts
<1>1. /\ UNCHANGED <<framestore, timer, pid_counter, pcb, ready, status>>
      /\ cpu.at = "command" /\ status = "ok"
      /\ cpu' = IF in_background THEN [cpu EXCEPT !.at = "advance"] ELSE Prompt
  BY DEF echo, kernelVars
<1>2. /\ StoreOK' /\ TablesOK' /\ QueueOK' /\ StatusOK' /\ Pids' = Pids
      /\ cpu'.pid = cpu.pid => HolderOK(cpu.pid)'
  BY <1>1, SameProcesses
<1>3. CASE cpu.pid # 0
  <2>1. cpu' = [cpu EXCEPT !.at = "advance"]
    BY <1>1, <1>3 DEF in_background
  <2>2. cpu'.pid = cpu.pid /\ cpu'.quanta = cpu.quanta /\ cpu'.at = "advance" /\ cpu'.cmd = cpu.cmd
    BY <2>1, <1>0 DEF CpuOK
  <2>3. CpuOK'
    BY <2>1, <2>2, <1>0, <1>2 DEF CpuOK
  <2>4. ThreadInHand'
    BY <2>2, <1>0, <1>1, <1>3 DEF ThreadInHand, page_fault, Current
  <2> QED
    BY <2>2, <2>3, <2>4, <1>2, Parts
<1>4. CASE cpu.pid = 0
  <2>1. cpu' = Prompt
    BY <1>1, <1>4 DEF in_background
  <2>2. /\ cpu'.pid = 0 /\ cpu'.quanta = 0 /\ cpu'.at = "prompt" /\ cpu'.cmd = NoCommand
        /\ cpu'.policy = "FCFS"
    BY <2>1 DEF Prompt
  <2>3. CpuOK'
    <3>1. 0 \in 0..MAX_INT
      BY QuantaAssumption
    <3> QED
      BY <2>1, <2>2, <3>1, NothingTyped DEF CpuOK, Prompt, Policies
  <2>4. ThreadInHand'
    BY <2>2 DEF ThreadInHand
  <2> QED
    BY <2>2, <2>3, <2>4, <1>2, <1>4, Parts
<1> QED
  BY <1>3, <1>4

\* run, typed or in a script: one process, or none if there is no such file.
LEMMA RunIInv == ASSUME IInv, run PROVE IInv'
<1> DEFINE f == cpu.cmd.args[1]
           texts == <<LinesOf(f)>>
<1>1. status = "ok" /\ cpu.at = "command" /\ process_initialize(f) /\ Return("FCFS")
  BY DEF run
<1>2. ProcessesOK
  <2>1. CASE f \in DOMAIN Script
    <3>1. LinesOf(f) \in Seq(Line)
      BY <2>1, LinesType
    <3>2. texts \in Seq(Seq(Line))
      BY <3>1
    <3>3. Admit(texts, texts, Len(Loads(texts)))
      BY <1>1, <2>1 DEF process_initialize
    <3> HIDE DEF texts
    <3>4. timer \in Nat
      BY Parts DEF StoreOK
    <3>5. PICK ticks \in Nat : ticks = Len(Loads(texts))
      BY <3>2, <3>4, LoadsPages
    <3>6. ticks >= 1 \/ ticks >= Len(Loads(texts))
      BY <3>5
    <3>7. Admit(texts, texts, ticks)
      BY <3>3, <3>5
    <3> QED
      BY <3>2, <3>6, <3>7, <1>1, AdmitOK
  <2>2. CASE f \notin DOMAIN Script
    <3>1. UNCHANGED <<framestore, timer, pid_counter, pcb, ready>> /\ status' = status
      BY <1>1, <2>2 DEF process_initialize, kernelVars
    <3> QED
      BY <3>1, NothingStarts
  <2> QED
    BY <2>1, <2>2
<1>3. "FCFS" \in Policies
  BY DEF Policies
<1> QED
  BY <1>1, <1>2, <1>3, ReturnIInv

\* exec: a process for each file, or undefined behaviour if one is missing.
LEMMA ExecIInv == ASSUME IInv, exec PROVE IInv'
<1> DEFINE fs == cpu.cmd.args
           whole == [i \in DOMAIN fs |-> LinesOf(fs[i])]
           seen == [i \in DOMAIN fs |-> SubSeq(whole[i], 1, IF Len(whole[i]) < StdioLines
                                                            THEN Len(whole[i]) ELSE StdioLines)]
<1>1. status = "ok" /\ cpu.at = "command" /\ initialize_multiple_process(fs) /\ Return("RR")
  BY DEF exec
<1>2. ProcessesOK
  <2>1. CASE \A i \in DOMAIN fs : fs[i] \in DOMAIN Script
    <3>1. Admit(whole, seen, 2)
      BY <1>1, <2>1, Zenon DEF initialize_multiple_process
    <3>2. PICK n \in Nat : DOMAIN fs = 1..n
      <4>1. fs \in Seq({fs[i] : i \in DOMAIN fs})
        BY Parts DEF CpuOK, IsCommand, IsSequence
      <4> HIDE DEF fs
      <4> QED
        BY <4>1, LenProperties
    <3>3. ASSUME NEW i \in 1..n PROVE seen[i] \in Seq(Line)
      <4>1. whole[i] = LinesOf(fs[i]) /\ fs[i] \in DOMAIN Script
        BY <2>1, <3>2
      <4>2. whole[i] \in Seq(Line)
        BY <4>1, LinesType
      <4> DEFINE w == whole[i]
      <4>3. PICK l \in Nat : l = Len(w)
        BY <4>2, LenProperties
      <4> DEFINE e == IF l < StdioLines THEN l ELSE StdioLines
      <4>4. e \in Nat /\ e <= l /\ 1 \in Nat \ {0}
        BY StdioAssumption
      <4>5. seen[i] = SubSeq(w, 1, e)
        BY <3>2, <4>3, Zenon
      <4> HIDE DEF w, e, seen
      <4>6. SubSeq(w, 1, e) \in Seq(Line)
        BY <4>2, <4>3, <4>4, PartType DEF w
      <4> QED
        BY <4>5, <4>6
    <3>4. seen = [i \in 1..n |-> seen[i]]
      BY <3>2
    <3> HIDE DEF seen, whole
    <3>5. seen \in Seq(Seq(Line))
      BY <3>3, <3>4
    <3>6. 2 \in Nat /\ 2 >= 1
      OBVIOUS
    <3> QED
      BY <3>1, <3>5, <3>6, <1>1, AdmitOK
  <2>2. CASE ~(\A i \in DOMAIN fs : fs[i] \in DOMAIN Script)
    <3>1. UNCHANGED <<framestore, timer, pid_counter, pcb, ready>> /\ status' = "ub"
      BY <1>1, <2>2 DEF initialize_multiple_process
    <3> QED
      BY <3>1, NothingStarts
  <2> QED
    BY <2>1, <2>2
<1>3. "RR" \in Policies
  BY DEF Policies
<1> QED
  BY <1>1, <1>2, <1>3, ReturnIInv

\* The thread is back in the scheduler's loop, with no process in hand.
LEMMA BackInScheduler ==
    ASSUME IInv, cpu' = Rescheduled, Pids' = Pids
    PROVE  CpuOK' /\ ThreadInHand' /\ cpu'.pid = 0
<1>0. CpuOK
  BY Parts
<1>1. /\ cpu'.at = "schedule" /\ cpu'.pid = 0 /\ cpu'.quanta = 0 /\ cpu'.cmd = NoCommand
      /\ cpu' \in [at : {"schedule"}, pid : {0}, quanta : {0}, policy : Policies, cmd : {NoCommand}]
  BY <1>0 DEF CpuOK, Rescheduled
<1>2. 0 \in 0..MAX_INT
  BY QuantaAssumption
<1>3. CpuOK'
  BY <1>1, <1>2, NothingTyped DEF CpuOK
<1>4. ThreadInHand'
  BY <1>1 DEF ThreadInHand
<1> QED
  BY <1>1, <1>3, <1>4

\* The scheduler takes the head of the queue in hand.
LEMMA DispatchIInv == ASSUME IInv, Dispatch PROVE IInv'
<1>0. StoreOK /\ TablesOK /\ QueueOK /\ HolderOK(cpu.pid) /\ CpuOK /\ ThreadInHand
  BY Parts
<1>1. /\ UNCHANGED <<framestore, timer, pid_counter, pcb, status>> /\ ready' = Tail(ready)
      /\ status = "ok" /\ cpu.at = "schedule" /\ ready # <<>>
      /\ cpu' = [cpu EXCEPT !.at = "execute", !.pid = Head(ready), !.quanta = Quanta]
  BY DEF Dispatch
<1>2. Pids' = Pids /\ Page' = Page
  BY <1>1 DEF Pids, Page
<1>3. StoreOK' /\ TablesOK' /\ StatusOK'
  BY <1>0, <1>1, <1>2 DEF StoreOK, TablesOK, StatusOK
<1>4. /\ QueueOK' /\ Head(ready) \in Pids /\ Head(ready) \notin Waiting'
      /\ Waiting = Waiting' \cup {Head(ready)}
  BY <1>0, <1>1, <1>2, HeadLeaves
<1>5. Quanta \in 0..MAX_INT /\ Quanta > 0
  BY QuantaAssumption DEF Quanta
<1>6. PICK h : h = Head(ready)
  OBVIOUS
<1>7. /\ cpu'.pid = h /\ cpu'.quanta = Quanta /\ cpu'.at = "execute" /\ cpu'.cmd = cpu.cmd
      /\ cpu' \in [at : {"execute"}, pid : {h}, quanta : {Quanta}, policy : Policies, cmd : {cpu.cmd}]
  BY <1>0, <1>1, <1>6 DEF CpuOK
<1>8. cpu.pid = 0 /\ DOMAIN pcb = Waiting
  BY <1>0, <1>1 DEF ThreadInHand, HolderOK
<1>9. h # 0
  BY <1>0, <1>4, <1>6 DEF Pids, StoreOK
<1>10. HolderOK(cpu.pid)'
  BY <1>1, <1>4, <1>6, <1>7, <1>8, <1>9 DEF HolderOK
<1>11. CpuOK'
  BY <1>0, <1>2, <1>4, <1>5, <1>6, <1>7 DEF CpuOK
<1>12. ThreadInHand'
  BY <1>5, <1>7, <1>9 DEF ThreadInHand
<1> QED
  BY <1>3, <1>4, <1>10, <1>11, <1>12, Parts

\* The scheduler returns to the prompt when nothing waits.
LEMMA SchedulerReturnsIInv == ASSUME IInv, SchedulerReturns PROVE IInv'
<1>0. ThreadInHand
  BY Parts
<1>1. /\ UNCHANGED <<framestore, timer, pid_counter, pcb, ready, status>>
      /\ cpu.at = "schedule" /\ cpu' = Prompt
  BY DEF SchedulerReturns, kernelVars
<1>2. /\ cpu'.pid = 0 /\ cpu'.quanta = 0 /\ cpu'.at = "prompt" /\ cpu'.cmd = NoCommand
      /\ cpu'.policy = "FCFS" /\ cpu.pid = 0
  BY <1>0, <1>1 DEF Prompt, ThreadInHand
<1>3. StoreOK' /\ TablesOK' /\ QueueOK' /\ StatusOK' /\ HolderOK(cpu.pid)'
  BY <1>1, <1>2, SameProcesses
<1>4. CpuOK'
  <2>1. 0 \in 0..MAX_INT
    BY QuantaAssumption
  <2> QED
    BY <1>1, <1>2, <2>1, NothingTyped DEF CpuOK, Prompt, Policies
<1>5. ThreadInHand'
  BY <1>2 DEF ThreadInHand
<1> QED
  BY <1>3, <1>4, <1>5, Parts

\* The process that has the thread is alive and waits nowhere.
LEMMA InHand ==
    ASSUME IInv, status = "ok", cpu.pid # 0
    PROVE  /\ cpu.pid \in DOMAIN pcb /\ cpu.pid \in Pids /\ cpu.pid \notin Waiting
           /\ DOMAIN pcb = Waiting \cup {cpu.pid}
           /\ IsPCB(Current) /\ Ahead(Current)
<1>1. TablesOK /\ HolderOK(cpu.pid)
  BY Parts
<1>2. DOMAIN pcb = Waiting \cup {cpu.pid} /\ cpu.pid \notin Waiting
  BY <1>1 DEF HolderOK
<1> QED
  BY <1>1, <1>2 DEF TablesOK, Current

\* A process whose quanta are used up, or that faulted, waits again.
LEMMA RequeueOK ==
    ASSUME IInv, status = "ok", cpu.pid # 0, Requeue, UNCHANGED <<pid_counter, status>>,
           DOMAIN pcb' = DOMAIN pcb
    PROVE  QueueOK' /\ HolderOK(cpu.pid)' /\ CpuOK' /\ ThreadInHand' /\ StatusOK'
<1>0. StoreOK /\ QueueOK /\ StatusOK
  BY Parts
<1>1. /\ cpu.pid \in Pids /\ cpu.pid \notin Waiting
      /\ DOMAIN pcb = Waiting \cup {cpu.pid}
  BY InHand
<1>2. Pids' = Pids
  BY DEF Pids
<1>3. cpu' = Rescheduled /\ (ready' = Append(ready, cpu.pid) \/ ready' = <<cpu.pid>> \o ready)
  BY DEF Requeue
<1>4. CpuOK' /\ ThreadInHand' /\ cpu'.pid = 0
  BY <1>2, <1>3, BackInScheduler
<1>5. PICK p : p = cpu.pid
  OBVIOUS
<1>6. QueueOK' /\ Waiting' = Waiting \cup {cpu.pid}
  <2>1. ready' = Append(ready, p) \/ ready' = <<p>> \o ready
    BY <1>3, <1>5
  <2>2. p \in Pids /\ p \notin Waiting
    BY <1>1, <1>5
  <2>3. QueueOK' /\ Waiting' = Waiting \cup {p}
    BY <2>1, <2>2, <1>0, <1>2, GoesBack
  <2> QED
    BY <2>3, <1>5
<1>7. 0 \notin Waiting'
  <2>1. ready' \in Seq(Pids)
    BY <1>2, <1>6 DEF QueueOK
  <2>2. \A i \in DOMAIN ready' : ready'[i] \in Pids
    BY <2>1, LenProperties, ElementOfSeq
  <2>3. 0 \notin Pids
    BY <1>0 DEF Pids, StoreOK
  <2> QED
    BY <2>2, <2>3 DEF Waiting
<1>8. HolderOK(cpu.pid)'
  BY <1>1, <1>4, <1>6, <1>7 DEF HolderOK
<1> QED
  BY <1>0, <1>4, <1>6, <1>8 DEF StatusOK

\* A process that ends leaves the queue as it is, and no PCB behind.
LEMMA TerminateOK ==
    ASSUME IInv, status = "ok", cpu.pid # 0, terminate_process
    PROVE  TablesOK' /\ QueueOK' /\ HolderOK(cpu.pid)' /\ CpuOK' /\ ThreadInHand' /\ StatusOK'
<1>0. StoreOK /\ QueueOK /\ StatusOK /\ TablesOK
  BY Parts
<1>1. cpu.pid \notin Waiting /\ DOMAIN pcb = Waiting \cup {cpu.pid}
  BY InHand
<1>2. /\ cpu' = Rescheduled /\ UNCHANGED <<ready, pid_counter, status>>
      /\ pcb' = [p \in DOMAIN pcb \ {cpu.pid} |-> pcb[p]]
  BY DEF terminate_process
<1>3. Pids' = Pids /\ Waiting' = Waiting
  BY <1>2 DEF Pids, Waiting
<1>4. CpuOK' /\ ThreadInHand' /\ cpu'.pid = 0
  BY <1>2, <1>3, BackInScheduler
<1>5. DOMAIN pcb' = DOMAIN pcb \ {cpu.pid} /\ \A p \in DOMAIN pcb' : pcb'[p] = pcb[p]
  BY <1>2
<1>6. TablesOK'
  BY <1>0, <1>3, <1>5 DEF TablesOK
<1>7. QueueOK' /\ StatusOK'
  BY <1>0, <1>2, <1>3 DEF QueueOK, StatusOK
<1>8. 0 \notin Waiting
  <2>1. \A i \in DOMAIN ready : ready[i] \in Pids
    BY <1>0, LenProperties, ElementOfSeq DEF QueueOK
  <2>2. 0 \notin Pids
    BY <1>0 DEF Pids, StoreOK
  <2> QED
    BY <2>1, <2>2 DEF Waiting
<1>9. HolderOK(cpu.pid)'
  BY <1>1, <1>3, <1>4, <1>5, <1>8 DEF HolderOK
<1> QED
  BY <1>4, <1>6, <1>7, <1>9

\* A page fault at the end of the file ends the process.
LEMMA EndOfFileIInv == ASSUME IInv, EndOfFile PROVE IInv'
<1>1. status = "ok" /\ cpu.at = "execute" /\ terminate_process /\ UNCHANGED <<framestore, timer>>
  BY DEF EndOfFile, Executing
<1>2. cpu.pid # 0
  BY <1>1, Parts DEF ThreadInHand
<1>3. TablesOK' /\ QueueOK' /\ HolderOK(cpu.pid)' /\ CpuOK' /\ ThreadInHand' /\ StatusOK'
  BY <1>1, <1>2, TerminateOK
<1>4. StoreOK'
  <2>1. pid_counter' = pid_counter
    BY <1>1 DEF terminate_process
  <2>2. Page' = Page
    BY <1>1, <2>1 DEF Page, Pids
  <2> QED
    BY <1>1, <2>1, <2>2, Parts DEF StoreOK
<1> QED
  BY <1>3, <1>4, Parts

\* Without a page fault the entry followed is a frame, and it may be touched.
LEMMA TouchOK ==
    ASSUME IInv, status = "ok", cpu.pid # 0, ~page_fault, Touch, pid_counter' = pid_counter
    PROVE  StoreOK' /\ CurrentFrame \in Frames
<1>0. framestore \in [Frames -> Page] /\ timer \in Nat /\ pid_counter \in Nat \ {0}
  BY Parts DEF StoreOK
<1>1. CurrentFrame \in Frames
  <2>1. IsPCB(Current) /\ Ahead(Current)
    BY InHand
  <2>2. PICK n \in Nat, k \in Nat : n = Current.num_pages /\ k = Current.curr_page
    BY <2>1 DEF IsPCB
  <2>3. k \in k..(n - 1)
    BY <2>2 DEF page_fault
  <2> QED
    BY <2>1, <2>2, <2>3 DEF Ahead, CurrentFrame
<1>2. PICK f \in Frames : f = CurrentFrame
  BY <1>1
<1>3. framestore' = [framestore EXCEPT ![f] = [framestore[f] EXCEPT !.last_used = timer + 1]]
      /\ timer' = timer + 2
  BY <1>2 DEF Touch
<1>4. \A g \in Page : g \in Page'
  <2>1. 0..timer \subseteq 0..timer'
    BY <1>0, <1>3
  <2>2. Pids' = Pids
    BY DEF Pids
  <2> QED
    BY <2>1, <2>2 DEF Page
<1>5. [framestore[f] EXCEPT !.last_used = timer + 1] \in Page'
  <2>1. framestore[f] \in Page'
    BY <1>0, <1>4
  <2>2. timer + 1 \in 0..timer'
    BY <1>0, <1>3
  <2> QED
    BY <2>1, <2>2 DEF Page
<1>6. framestore' \in [Frames -> Page']
  BY <1>0, <1>3, <1>4, <1>5
<1> QED
  BY <1>0, <1>1, <1>3, <1>6 DEF StoreOK

\* A line "none" ends the process too.
LEMMA NoneLineIInv == ASSUME IInv, NoneLine PROVE IInv'
<1>1. status = "ok" /\ cpu.at = "execute" /\ ~page_fault /\ terminate_process /\ Touch
  BY DEF NoneLine, Executing
<1>2. cpu.pid # 0
  BY <1>1, Parts DEF ThreadInHand
<1>3. TablesOK' /\ QueueOK' /\ HolderOK(cpu.pid)' /\ CpuOK' /\ ThreadInHand' /\ StatusOK'
  BY <1>1, <1>2, TerminateOK
<1>4. pid_counter' = pid_counter
  BY <1>1 DEF terminate_process
<1>5. StoreOK'
  BY <1>1, <1>2, <1>4, TouchOK
<1> QED
  BY <1>3, <1>5, Parts

\* A line of a loaded page becomes the command the interpreter runs.
LEMMA GetLineIInv == ASSUME IInv, get_line PROVE IInv'
<1>0. StoreOK /\ TablesOK /\ QueueOK /\ HolderOK(cpu.pid) /\ CpuOK /\ StatusOK /\ ThreadInHand
  BY Parts
<1>1. /\ status = "ok" /\ cpu.at = "execute" /\ ~page_fault /\ Touch /\ CurrentLine # None
      /\ cpu' = [cpu EXCEPT !.at = "command", !.cmd = Command(CurrentLine)]
      /\ UNCHANGED <<pid_counter, pcb, ready, status>>
  BY DEF get_line, Executing
<1>2. cpu.pid # 0
  BY <1>0, <1>1 DEF ThreadInHand
<1>3. StoreOK' /\ CurrentFrame \in Frames
  BY <1>1, <1>2, TouchOK
<1>4. Pids' = Pids /\ Waiting' = Waiting
  BY <1>1 DEF Pids, Waiting
<1>5. TablesOK' /\ QueueOK' /\ StatusOK'
  BY <1>0, <1>1, <1>4 DEF TablesOK, QueueOK, StatusOK
<1>6. IsCommand(Command(CurrentLine))
  <2>1. IsPCB(Current)
    BY <1>1, <1>2, InHand
  <2>2. Current.curr_line + 1 \in 1..3
    BY <2>1 DEF IsPCB
  <2>3. framestore[CurrentFrame] \in Page
    BY <1>0, <1>3 DEF StoreOK
  <2>4. CurrentLine \in Line
    BY <2>2, <2>3, <1>1 DEF Page, CurrentLine
  <2>5. PICK f \in DOMAIN Script : \E m \in DOMAIN Script[f] : CurrentLine = <<f, m>>
    BY <2>4 DEF Line
  <2>7. PICK n \in DOMAIN Script[f] : CurrentLine = <<f, n>>
    BY <2>5
  <2>6. Command(CurrentLine) = Script[f][n]
    BY <2>7 DEF Command
  <2> QED
    BY <2>6, ScriptAssumption
<1>7. PICK c : c = Command(CurrentLine)
  OBVIOUS
<1>8. /\ cpu'.pid = cpu.pid /\ cpu'.quanta = cpu.quanta /\ cpu'.at = "command" /\ cpu'.cmd = c
      /\ cpu' \in [at : {"command"}, pid : {cpu.pid}, quanta : {cpu.quanta}, policy : Policies, cmd : {c}]
  BY <1>0, <1>1, <1>7 DEF CpuOK
<1>9. HolderOK(cpu.pid)'
  BY <1>0, <1>1, <1>4, <1>8 DEF HolderOK
<1>10. CpuOK'
  <2>1. cpu.pid \in Pids' \cup {0} /\ cpu.quanta \in 0..MAX_INT
    BY <1>0, <1>4 DEF CpuOK
  <2> QED
    BY <2>1, <1>6, <1>7, <1>8 DEF CpuOK
<1>11. ThreadInHand'
  <2>1. ~page_fault'
    BY <1>1, <1>8 DEF page_fault, Current
  <2> QED
    BY <2>1, <1>0, <1>2, <1>8 DEF ThreadInHand
<1> QED
  BY <1>3, <1>5, <1>9, <1>10, <1>11, Parts

\* The program counter moves within the loaded pages, or to the first one that
\* is not loaded; at the end of its quanta the process waits again.
LEMMA AdvanceIInv == ASSUME IInv, Advance PROVE IInv'
<1>0. StoreOK /\ TablesOK /\ QueueOK /\ HolderOK(cpu.pid) /\ CpuOK /\ StatusOK /\ ThreadInHand
  BY Parts
<1> DEFINE c == Current
           d == [c EXCEPT !.curr_line = IF c.curr_line = 2 THEN 0 ELSE c.curr_line + 1,
                          !.curr_page = IF c.curr_line = 2 THEN c.curr_page + 1 ELSE c.curr_page]
<1>1. /\ status = "ok" /\ cpu.at = "advance"
      /\ UNCHANGED <<framestore, timer, pid_counter, status>>
  BY DEF Advance
<1>2. cpu.pid # 0 /\ ~page_fault
  BY <1>0, <1>1 DEF ThreadInHand
<1>3. cpu.pid \in DOMAIN pcb /\ IsPCB(c) /\ Ahead(c)
  BY <1>1, <1>2, InHand
<1>4. pcb' = [pcb EXCEPT ![cpu.pid] = d]
  BY DEF Advance, Current
<1> HIDE DEF d
<1>5. IsPCB(d) /\ Ahead(d)
  <2>1. PICK n \in Nat, k \in Nat, l \in 0..2 :
           n = c.num_pages /\ k = c.curr_page /\ l = c.curr_line
    BY <1>3 DEF IsPCB
  <2> DEFINE k2 == IF l = 2 THEN k + 1 ELSE k
             l2 == IF l = 2 THEN 0 ELSE l + 1
  <2>2. k < n
    BY <1>2, <2>1 DEF page_fault
  <2>3. k2 \in Nat /\ l2 \in 0..2 /\ k2 <= n /\ \A i \in k2..(n - 1) : i \in k..(n - 1)
    BY <2>2
  <2>4. d = [c EXCEPT !.curr_line = l2, !.curr_page = k2]
    BY <2>1 DEF d
  <2> HIDE DEF k2, l2, c
  <2>5. c \in [pagetable : {c.pagetable}, num_pages : Nat, curr_page : Nat, curr_line : 0..2, fp : Seq(Line)]
        /\ c.pagetable \in [0..(n - 1) -> Frames \cup {-1}]
    BY <1>3, <2>1 DEF IsPCB
  <2>6. d.pagetable = c.pagetable /\ d.num_pages = n /\ d.curr_page = k2
    BY <2>1, <2>4, <2>5
  <2>7. d \in [pagetable : {d.pagetable}, num_pages : Nat, curr_page : Nat, curr_line : 0..2, fp : Seq(Line)]
    BY <2>3, <2>4, <2>5, <2>6
  <2>8. \A i \in k..(n - 1) : c.pagetable[i] \in Frames
    BY <1>3, <2>1 DEF Ahead
  <2> QED
    BY <2>3, <2>5, <2>6, <2>7, <2>8 DEF IsPCB, Ahead
<1> HIDE DEF c
<1>6. DOMAIN pcb' = DOMAIN pcb /\ \A p \in DOMAIN pcb : pcb'[p] = IF p = cpu.pid THEN d ELSE pcb[p]
  BY <1>4
<1>7. Pids' = Pids /\ Page' = Page
  BY <1>1 DEF Pids, Page
<1>8. TablesOK' /\ StoreOK'
  BY <1>0, <1>1, <1>5, <1>6, <1>7 DEF TablesOK, StoreOK
<1>9. CASE cpu.quanta = 1
  <2>1. Requeue
    BY <1>9 DEF Advance
  <2>2. QueueOK' /\ HolderOK(cpu.pid)' /\ CpuOK' /\ ThreadInHand' /\ StatusOK'
    BY <2>1, <1>1, <1>2, <1>6, RequeueOK
  <2> QED
    BY <2>2, <1>8, Parts
<1>10. CASE cpu.quanta # 1
  <2>1. cpu' = [cpu EXCEPT !.at = "execute", !.quanta = cpu.quanta - 1, !.cmd = NoCommand]
        /\ ready' = ready
    BY <1>10 DEF Advance
  <2>2. PICK q \in 0..MAX_INT : q = cpu.quanta /\ q > 0 /\ q # 1
    BY <1>0, <1>2, <1>10 DEF CpuOK, ThreadInHand
  <2>3. q - 1 \in 0..MAX_INT /\ q - 1 > 0
    BY <2>2, QuantaAssumption
  <2>4. PICK q1 \in 0..MAX_INT : q1 = q - 1 /\ q1 > 0
    BY <2>3
  <2>5. /\ cpu'.pid = cpu.pid /\ cpu'.quanta = q1 /\ cpu'.at = "execute" /\ cpu'.cmd = NoCommand
        /\ cpu' \in [at : {"execute"}, pid : {cpu.pid}, quanta : {q1}, policy : Policies, cmd : {NoCommand}]
    BY <2>1, <2>2, <2>4, <1>0 DEF CpuOK
  <2>6. CpuOK'
    <3>1. cpu.pid \in Pids' \cup {0}
      BY <1>0, <1>7 DEF CpuOK
    <3> QED
      BY <3>1, <2>5, NothingTyped DEF CpuOK
  <2>7. ThreadInHand'
    BY <2>4, <2>5, <1>2 DEF ThreadInHand
  <2>8. QueueOK' /\ Waiting' = Waiting /\ StatusOK'
    BY <2>1, <1>0, <1>1, <1>7 DEF QueueOK, Waiting, StatusOK
  <2>9. HolderOK(cpu.pid)'
    BY <2>5, <2>8, <1>0, <1>1, <1>6 DEF HolderOK
  <2> QED
    BY <2>6, <2>7, <2>8, <2>9, <1>8, Parts
<1> QED
  BY <1>9, <1>10

\* get_free_page_space returns -1 exactly when get_victim_page_index is asked,
\* and the frame that is filled is one of the store.
LEMMA FrameFound ==
    ASSUME StoreOK
    PROVE  /\ (IF get_free_page_space = -1 THEN get_victim_page_index ELSE get_free_page_space) \in Frames
           /\ FreeFrames # {} => get_free_page_space \in FreeFrames /\ get_free_page_space # -1
           /\ FreeFrames = {} =>
                /\ get_free_page_space = -1
                /\ \A j \in Frames : framestore[get_victim_page_index].last_used <= framestore[j].last_used
<1>1. FreeFrames \in SUBSET Frames /\ Frames \in SUBSET Nat /\ Frames # {}
  <2>1. 0 \in Frames
    BY FramesAssumption DEF Frames
  <2> QED
    BY <2>1 DEF FreeFrames, Frames
<1>2. CASE FreeFrames # {}
  <2>1. \E i \in FreeFrames : \A j \in FreeFrames : i <= j
    BY <1>1, <1>2, LeastNat
  <2>2. get_free_page_space \in FreeFrames
    BY <2>1, <1>2 DEF get_free_page_space
  <2>3. get_free_page_space \in Nat
    BY <2>2, <1>1
  <2> QED
    BY <2>2, <2>3, <1>1, <1>2
<1>3. CASE FreeFrames = {}
  <2> DEFINE used == Frames \ FreeFrames
             u(i) == framestore[i].last_used
             T == {u(i) : i \in used}
  <2>1. used = Frames
    BY <1>3
  <2>2. \A i \in used : u(i) \in Nat
    <3>1. \A i \in Frames : framestore[i].last_used \in 0..timer
      BY DEF StoreOK, Page
    <3> QED
      BY <3>1 DEF StoreOK
  <2>3. T \in SUBSET Nat /\ T # {}
    BY <2>1, <2>2, <1>1
  <2>4. PICK t \in T : \A v \in T : t <= v
    <3> HIDE DEF T
    <3> QED
      BY <2>3, LeastNat
  <2> DEFINE S == {i \in used : u(i) = t}
  <2>5. S \in SUBSET Nat /\ S # {}
    <3>1. \E i \in used : t = u(i)
      OBVIOUS
    <3> QED
      BY <3>1, <2>1, <1>1
  <2>6. PICK m \in S : \A j \in S : m <= j
    <3> HIDE DEF S
    <3> QED
      BY <2>5, LeastNat
  <2>7. ASSUME NEW j \in used
        PROVE  u(m) < u(j) \/ (u(m) = u(j) /\ m <= j)
    <3>1. u(m) = t /\ m \in used /\ t <= u(j)
      BY <2>4, <2>6, <2>7
    <3>2. CASE u(j) = t
      <4>1. j \in S
        BY <3>2
      <4> QED
        BY <4>1, <3>1, <3>2, <2>6
    <3>3. CASE u(j) # t
      <4>1. u(j) \in Nat /\ t \in Nat
        BY <2>2, <2>3
      <4> HIDE DEF u
      <4> QED
        BY <4>1, <3>1, <3>3
    <3> QED
      BY <3>2, <3>3
  <2>8. /\ get_victim_page_index \in used
        /\ \A j \in used : \/ u(get_victim_page_index) < u(j)
                           \/ u(get_victim_page_index) = u(j) /\ get_victim_page_index <= j
    <3>1. \E i \in used : \A j \in used : u(i) < u(j) \/ (u(i) = u(j) /\ i <= j)
      BY <2>6, <2>7
    <3> QED
      BY <3>1, Zenon DEF get_victim_page_index
  <2>9. get_free_page_space = -1
    BY <1>3 DEF get_free_page_space
  <2>10. ASSUME NEW j \in Frames PROVE u(get_victim_page_index) <= u(j)
    <3>1. u(get_victim_page_index) \in Nat /\ u(j) \in Nat
      BY <2>1, <2>2, <2>8
    <3> QED
      BY <3>1, <2>1, <2>8
  <2> QED
    BY <1>3, <2>1, <2>8, <2>9, <2>10
<1> QED
  BY <1>2, <1>3

\* A page fault adds one entry behind the table; the entry it clears lies before
\* the page the process is at.
LEMMA FetchIInv == ASSUME IInv, fetch_a_page PROVE IInv'
<1>0. StoreOK /\ TablesOK /\ QueueOK /\ HolderOK(cpu.pid) /\ CpuOK /\ StatusOK /\ ThreadInHand
  BY Parts
<1> DEFINE c == Current
           free == get_free_page_space
           victim == get_victim_page_index
           frame == IF free = -1 THEN victim ELSE free
           table == [k \in DOMAIN c.pagetable |-> IF free = -1 /\ k = victim THEN -1 ELSE c.pagetable[k]]
           table2 == [k \in DOMAIN table \cup {c.num_pages} |-> IF k = c.num_pages THEN frame ELSE table[k]]
           read == Chunk(c.fp, 0)
           rest == After(c.fp, Len(read))
           page == set_page(c.curr_page, cpu.pid, read, timer)
           d == [c EXCEPT !.fp = rest, !.num_pages = c.num_pages + 1, !.pagetable = table2]
<1>1. status = "ok" /\ cpu.at = "execute" /\ page_fault
  BY DEF fetch_a_page, Executing
<1>2. cpu.pid # 0
  BY <1>0, <1>1 DEF ThreadInHand
<1>3. cpu.pid \in DOMAIN pcb /\ cpu.pid \in Pids /\ IsPCB(c) /\ Ahead(c)
  BY <1>1, <1>2, InHand
<1>4. /\ framestore' = [framestore EXCEPT ![frame] = page]
      /\ timer' = timer + 1 /\ Requeue /\ UNCHANGED <<pid_counter, status>>
  BY Zenon DEF fetch_a_page
<1>5. pcb' = [pcb EXCEPT ![cpu.pid] = d]
  BY DEF fetch_a_page, Current
<1>6. frame \in Frames
  BY <1>0, FrameFound
<1>7. PICK n \in Nat, k \in Nat : n = c.num_pages /\ k = c.curr_page
  BY <1>3 DEF IsPCB
<1>8. k = n
  <2>1. k <= n /\ k >= n
    BY <1>1, <1>3, <1>7 DEF IsPCB, page_fault
  <2> QED
    BY <2>1
<1>9. /\ c \in [pagetable : {c.pagetable}, num_pages : Nat, curr_page : Nat, curr_line : 0..2, fp : Seq(Line)]
      /\ c.pagetable \in [0..(n - 1) -> Frames \cup {-1}]
  BY <1>3, <1>7 DEF IsPCB
<1> HIDE DEF c, free, victim, frame
<1>10. table2 \in [0..((n + 1) - 1) -> Frames \cup {-1}] /\ table2[n] = frame
  <2>1. table \in [0..(n - 1) -> Frames \cup {-1}]
    BY <1>9
  <2>2. DOMAIN table = 0..(n - 1)
    BY <1>9
  <2> HIDE DEF table
  <2>3. 0..((n + 1) - 1) = 0..(n - 1) \cup {n}
    OBVIOUS
  <2>4. table2 = [i \in 0..(n - 1) \cup {n} |-> IF i = n THEN frame ELSE table[i]]
    BY <2>2, <1>7
  <2>5. n \notin 0..(n - 1)
    OBVIOUS
  <2> HIDE DEF table2
  <2>6. table2 \in [0..(n - 1) \cup {n} -> Frames \cup {-1}]
    BY <2>1, <2>4, <1>6
  <2> QED
    BY <2>3, <2>4, <2>6
<1> HIDE DEF table2
<1>11. read \in Seq(Line) /\ rest \in Seq(Line)
  <2>1. c.fp \in Seq(Line) /\ 0 \in Nat
    BY <1>9
  <2>2. read \in Seq(Line)
    BY <2>1, ChunkType
  <2> HIDE DEF read
  <2>3. Len(read) \in Nat
    BY <2>2, LenProperties
  <2> QED
    BY <2>1, <2>2, <2>3, ChunkType
<1> HIDE DEF read, rest
<1>12. IsPCB(d) /\ Ahead(d)
  <2>1. d = [c EXCEPT !.fp = rest, !.num_pages = n + 1, !.pagetable = table2]
    BY <1>7
  <2>2. n + 1 \in Nat /\ n <= n + 1 /\ \A i \in n..((n + 1) - 1) : i = n
    OBVIOUS
  <2>3. PICK m \in Nat : m = n + 1
    BY <2>2
  <2> HIDE DEF d
  <2>4. d.pagetable = table2 /\ d.num_pages = m /\ d.curr_page = n
    BY <2>1, <2>3, <1>7, <1>8, <1>9
  <2>5. d \in [pagetable : {d.pagetable}, num_pages : Nat, curr_page : Nat, curr_line : 0..2, fp : Seq(Line)]
    BY <2>1, <2>3, <2>4, <1>9, <1>11
  <2>6. table2 \in [0..(m - 1) -> Frames \cup {-1}] /\ n <= m /\ \A i \in n..(m - 1) : i = n
    BY <2>2, <2>3, <1>10
  <2> QED
    BY <2>4, <2>5, <2>6, <1>6, <1>10 DEF IsPCB, Ahead
<1> HIDE DEF d
<1>13. DOMAIN pcb' = DOMAIN pcb /\ \A p \in DOMAIN pcb : pcb'[p] = IF p = cpu.pid THEN d ELSE pcb[p]
  BY <1>5
<1>14. Pids' = Pids
  BY <1>4 DEF Pids
<1>15. TablesOK'
  BY <1>0, <1>12, <1>13, <1>14 DEF TablesOK
<1>16. StoreOK'
  <2>1. framestore \in [Frames -> Page] /\ timer \in Nat /\ pid_counter \in Nat \ {0}
    BY <1>0 DEF StoreOK
  <2>2. 0..timer \subseteq 0..timer' /\ timer \in 0..timer' /\ timer' \in Nat
    BY <2>1, <1>4
  <2>3. \A g \in Page : g \in Page'
    BY <2>2, <1>14 DEF Page
  <2>4. page \in [pid : {cpu.pid}, page_number : {k}, lines : [1..3 -> Line \cup {None}],
                  available : {FALSE}, last_used : {timer}]
    BY <1>7, <1>11, PageType
  <2> HIDE DEF page
  <2>5. page \in Page'
    BY <2>2, <2>4, <1>3, <1>14 DEF Page
  <2>6. framestore' \in [Frames -> Page']
    BY <2>1, <2>3, <2>5, <1>4, <1>6
  <2> QED
    BY <2>1, <2>2, <2>6, <1>4 DEF StoreOK
<1>17. QueueOK' /\ HolderOK(cpu.pid)' /\ CpuOK' /\ ThreadInHand' /\ StatusOK'
  BY <1>1, <1>2, <1>4, <1>13, RequeueOK
<1> QED
  BY <1>15, <1>16, <1>17, Parts

\* A write past the allocation of a page table ends the shell; nothing else has
\* changed.
LEMMA PastTableIInv == ASSUME IInv, FetchPastTable PROVE IInv'
<1>0. StoreOK /\ TablesOK /\ QueueOK /\ HolderOK(cpu.pid) /\ CpuOK /\ StatusOK /\ ThreadInHand
  BY Parts
<1>1. /\ UNCHANGED <<framestore, timer, pid_counter, pcb, ready>> /\ cpu' = cpu /\ status' = "ub"
      /\ status = "ok"
  BY DEF FetchPastTable, Executing
<1>2. StoreOK' /\ TablesOK' /\ Pids' = Pids
  BY <1>0, <1>1 DEF StoreOK, TablesOK, Page, Pids
<1>3. QueueOK' /\ HolderOK(cpu.pid)'
  BY <1>0, <1>1, <1>2 DEF QueueOK, HolderOK, Waiting
<1>4. CpuOK' /\ ThreadInHand' /\ StatusOK'
  BY <1>0, <1>1, <1>2 DEF CpuOK, ThreadInHand, StatusOK
<1> QED
  BY <1>2, <1>3, <1>4, Parts

\* With as many frames as "make run" has, or fewer, no such write happens.
LEMMA SmallTablesHold == ASSUME IInv, FRAMESTORE_LENGTH <= 6, Executing PROVE ~EvictsPastTable
<1>1. IsPCB(Current)
  <2>1. status = "ok" /\ cpu.pid # 0
    BY Parts DEF Executing, ThreadInHand
  <2> QED
    BY <2>1, InHand
<1>2. PICK n \in Nat : n = Current.num_pages
  BY <1>1 DEF IsPCB
<1>3. Allocated(n) >= 6
  BY <1>2 DEF Allocated
<1>4. get_free_page_space = -1 => get_victim_page_index \in Frames
  BY FrameFound, Parts
<1>5. \A i \in Frames : i < 6
  BY FramesAssumption DEF Frames
<1>6. get_free_page_space = -1 => get_victim_page_index < 6 /\ get_victim_page_index \in Int
  BY <1>4, <1>5 DEF Frames
<1>7. Allocated(n) \in Int
  BY <1>2 DEF Allocated
<1> QED
  BY <1>2, <1>3, <1>6, <1>7 DEF EvictsPastTable

\* Every step keeps the invariant.
LEMMA NextIInv == IInv /\ [Next]_vars => IInv'
<1> SUFFICES ASSUME IInv, [Next]_vars PROVE IInv'
  OBVIOUS
<1>1. ASSUME NEW c \in UserCommands, Type(c) PROVE IInv'
  BY <1>1, TypeIInv
<1>2. CASE run
  BY <1>2, RunIInv
<1>3. CASE exec
  BY <1>3, ExecIInv
<1>4. CASE quit
  BY <1>4, QuitIInv
<1>5. CASE echo
  BY <1>5, EchoIInv
<1>6. CASE Dispatch
  BY <1>6, DispatchIInv
<1>7. CASE SchedulerReturns
  BY <1>7, SchedulerReturnsIInv
<1>8. CASE fetch_a_page
  BY <1>8, FetchIInv
<1>9. CASE EndOfFile
  BY <1>9, EndOfFileIInv
<1>10. CASE NoneLine
  BY <1>10, NoneLineIInv
<1>11. CASE get_line
  BY <1>11, GetLineIInv
<1>12. CASE Advance
  BY <1>12, AdvanceIInv
<1>14. CASE FetchPastTable
  BY <1>14, PastTableIInv
<1>13. CASE UNCHANGED vars
  <2>1. UNCHANGED <<framestore, timer, pid_counter, pcb, ready, status>> /\ cpu' = cpu
    BY <1>13 DEF vars
  <2>2. StoreOK' /\ TablesOK' /\ QueueOK' /\ StatusOK' /\ Pids' = Pids /\ HolderOK(cpu.pid)'
    BY <2>1, SameProcesses
  <2>3. CpuOK'
    BY <2>1, <2>2, Parts DEF CpuOK
  <2>4. ThreadInHand'
    BY <2>1, Parts DEF ThreadInHand, page_fault, Current
  <2> QED
    BY <2>2, <2>3, <2>4, Parts
<1> QED
  BY <1>1, <1>2, <1>3, <1>4, <1>5, <1>6, <1>7, <1>8, <1>9, <1>10, <1>11, <1>12, <1>13, <1>14 DEF Next, Kernel

-----------------------------------------------------------------------------
(* The theorems.                                                           *)

\* Types, the ready queue, the page tables and the thread's position agree in
\* every state of the shell, whatever scripts are run and however they nest.
THEOREM Invariance == Spec => []IInv
<1>1. Init => IInv
  BY InitIInv
<1>2. IInv /\ [Next]_vars => IInv'
  BY NextIInv
<1> QED
  BY <1>1, <1>2, PTL DEF Spec, SafetySpec

\* No process is lost, queued twice or scheduled after terminate_process: each
\* live PCB is once in the ready queue or is the one execute_process runs.
THEOREM QueueSound == Spec => []QueueIntegrity
<1>1. IInv => QueueIntegrity
  BY DEF IInv
<1> QED
  BY <1>1, Invariance, PTL

\* execute_process never follows an entry of a page table that fetch_a_page has
\* set to -1, although it clears the entry numbered like the victim's frame; the
\* shell of more frames than six may end before, when that entry lies past the
\* allocation of the table (FetchPastTable).
THEOREM TablesSound == Spec => []TableEntryValid
<1>1. IInv => TableEntryValid
  BY DEF IInv
<1> QED
  BY <1>1, Invariance, PTL

\* In a store of six frames, as "make run" builds it, or of fewer, the entry
\* that fetch_a_page clears lies in the allocation of the faulting process's
\* table, so that no process writes to the memory of another.
THEOREM TablesHold ==
    ASSUME FRAMESTORE_LENGTH <= 6
    PROVE  Spec => [](status = "ok" /\ cpu.at = "execute" => ~EvictsPastTable)
<1>1. IInv => (status = "ok" /\ cpu.at = "execute" => ~EvictsPastTable)
  BY SmallTablesHold DEF Executing
<1> QED
  BY <1>1, Invariance, PTL

-----------------------------------------------------------------------------
(* Flat scripts: what the invariant says of one process.                   *)

\* The marker of a line that is not there is no line.
LEMMA NoneNoLine == None \notin Line
<1> SUFFICES ASSUME None \in Line PROVE FALSE
  OBVIOUS
<1>1. PICK f \in DOMAIN Script : None \in {<<f, n>> : n \in DOMAIN Script[f]}
  BY DEF Line
<1>2. PICK n \in DOMAIN Script[f] : None = <<f, n>>
  BY <1>1
<1>3. n = 0
  BY <1>2 DEF None
<1>4. DOMAIN LinesOf(f) = DOMAIN Script[f]
  BY DEF LinesOf
<1>5. LinesOf(f) \in Seq(Line)
  BY LinesType
<1>6. PICK m \in Nat : DOMAIN LinesOf(f) = 1..m
  BY <1>5, LenProperties
<1> QED
  BY <1>2, <1>3, <1>4, <1>6

\* A line of a flat script starts no process.
LEMMA FlatLine ==
    ASSUME AllFlat, NEW x \in Line
    PROVE  Command(x).op \in {"echo", "quit"} /\ IsCommand(Command(x))
<1>1. PICK f \in DOMAIN Script : x \in {<<f, n>> : n \in DOMAIN Script[f]}
  BY DEF Line
<1>2. PICK n \in DOMAIN Script[f] : x = <<f, n>>
  BY <1>1
<1>3. Command(x) = Script[f][n]
  BY <1>2 DEF Command
<1> QED
  BY <1>3, ScriptAssumption DEF AllFlat

\* The text of a process, and what it has run of it.
LEMMA TextFacts ==
    ASSUME IInv, Texts, NEW p \in Pids
    PROVE  /\ text[p] \in Seq(Line) /\ executed[p] \in Seq(Line)
           /\ DOMAIN text = Pids /\ DOMAIN executed = Pids
           /\ Ran(p) \in Nat /\ Len(text[p]) \in Nat /\ Ran(p) <= Len(text[p])
<1>1. pid_counter \in Nat \ {0}
  BY DEF IInv, QueueIntegrity, TypeOK
<1>2. DOMAIN text = Pids /\ DOMAIN executed = Pids
  BY LenProperties DEF Texts, Pids
<1>3. text[p] \in Seq(Line) /\ executed[p] \in Seq(Line)
  BY <1>2, ElementOfSeq, LenProperties DEF Texts, Pids
<1>4. Ran(p) \in Nat /\ Len(text[p]) \in Nat
  BY <1>3, LenProperties DEF Ran
<1> QED
  BY <1>2, <1>3, <1>4 DEF Texts

\* The numbers of a PCB.
LEMMA PCBNumbers ==
    ASSUME IInv, NEW p \in DOMAIN pcb
    PROVE  /\ p \in Pids /\ p # 0 /\ p # -1
           /\ pcb[p].curr_page \in Nat /\ pcb[p].curr_line \in 0..2 /\ pcb[p].num_pages \in Nat
           /\ pcb[p].curr_page <= pcb[p].num_pages
           /\ DOMAIN pcb[p].pagetable = 0..(pcb[p].num_pages - 1)
           /\ pcb[p].fp \in Seq(Line)
           /\ Position(pcb[p]) \in Nat
           /\ Position(pcb[p]) = 3 * pcb[p].curr_page + pcb[p].curr_line
           /\ \A k \in ToRun(pcb[p]) : k \in Nat /\ pcb[p].pagetable[k] \in Frames
           /\ pcb[p] = [pagetable |-> pcb[p].pagetable, num_pages |-> pcb[p].num_pages,
                        curr_page |-> pcb[p].curr_page, curr_line |-> pcb[p].curr_line, fp |-> pcb[p].fp]
<1>1. IsPCB(pcb[p]) /\ p \in Pids /\ pid_counter \in Nat \ {0}
  BY DEF IInv, QueueIntegrity, TypeOK
<1>2. p # 0 /\ p # -1
  BY <1>1 DEF Pids
<1>3. PICK c : c = pcb[p] /\ IsPCB(c)
  BY <1>1
<1>4. /\ c.curr_page \in Nat /\ c.curr_line \in 0..2 /\ c.num_pages \in Nat /\ c.curr_page <= c.num_pages
      /\ DOMAIN c.pagetable = 0..(c.num_pages - 1) /\ c.fp \in Seq(Line)
      /\ c = [pagetable |-> c.pagetable, num_pages |-> c.num_pages, curr_page |-> c.curr_page,
              curr_line |-> c.curr_line, fp |-> c.fp]
  BY <1>3 DEF IsPCB
<1>5. Position(c) \in Nat /\ Position(c) = 3 * c.curr_page + c.curr_line
  BY <1>4 DEF Position
<1>6. \A k \in ToRun(c) : k \in Nat /\ c.pagetable[k] \in Frames
  BY <1>3, <1>4 DEF ToRun, IInv, TableEntryValid
<1> QED
  BY <1>1, <1>2, <1>3, <1>4, <1>5, <1>6

\* A frame in use holds a page.
LEMMA UsedFrame ==
    ASSUME IInv, NEW i \in Used
    PROVE  /\ i \in Frames /\ framestore[i] \in Page /\ framestore[i].available = FALSE
           /\ framestore[i].last_used \in Nat /\ timer \in Nat /\ framestore[i].page_number \in Int
<1>1. framestore \in [Frames -> Page] /\ timer \in Nat
  BY DEF IInv, QueueIntegrity, TypeOK
<1>2. i \in Frames /\ ~framestore[i].available
  BY DEF Used, FreeFrames
<1>3. framestore[i] \in Page
  BY <1>1, <1>2
<1> QED
  BY <1>1, <1>2, <1>3 DEF Page

\* The lines of a page, read from a text.
LEMMA ChunkLines ==
    ASSUME NEW t \in Seq(Line), NEW k \in Nat
    PROVE  /\ \A j \in 0..2 : set_page(k, 1, Chunk(t, k), 0).lines[j + 1] =
                                IF 3 * k + j < Len(t) THEN t[3 * k + j + 1] ELSE None
           /\ Len(Chunk(t, k)) = IF Len(t) < 3 * k + 3 THEN (IF Len(t) < 3 * k THEN 0 ELSE Len(t) - 3 * k) ELSE 3
<1>1. PICK n \in Nat : n = Len(t) /\ DOMAIN t = 1..n
  BY LenProperties
<1>2. PICK e \in Nat : e = (IF n < 3 * k + 3 THEN n ELSE 3 * k + 3)
  OBVIOUS
<1>3. PICK c : c = Chunk(t, k) /\ c = SubSeq(t, 3 * k + 1, e)
  BY <1>1, <1>2 DEF Chunk
<1>4. /\ Len(c) = IF 3 * k + 1 <= e THEN e - (3 * k + 1) + 1 ELSE 0
      /\ \A i \in 1..(e - (3 * k + 1) + 1) : c[i] = t[3 * k + 1 + i - 1]
  <2>1. 3 * k + 1 \in Nat /\ e \in Nat /\ e <= n /\ \A i \in (3 * k + 1)..e : i \in 1..n /\ t[i] \in Line
    BY <1>1, <1>2, ElementOfSeq
  <2> QED
    BY <2>1, <1>3, SubSeqProperties
<1>5. Len(c) = IF n < 3 * k + 3 THEN (IF n < 3 * k THEN 0 ELSE n - 3 * k) ELSE 3
  BY <1>2, <1>4
<1>6. ASSUME NEW j \in 0..2
      PROVE  set_page(k, 1, c, 0).lines[j + 1] = IF 3 * k + j < n THEN t[3 * k + j + 1] ELSE None
  <2>1. set_page(k, 1, c, 0).lines[j + 1] = IF j + 1 <= Len(c) THEN c[j + 1] ELSE None
    <3>1. j + 1 \in 1..3
      OBVIOUS
    <3> QED
      BY <3>1 DEF set_page
  <2>2. j + 1 <= Len(c) <=> 3 * k + j < n
    BY <1>5
  <2>3. ASSUME 3 * k + j < n PROVE c[j + 1] = t[3 * k + j + 1]
    <3>1. j + 1 \in 1..(e - (3 * k + 1) + 1) /\ 3 * k + 1 + (j + 1) - 1 = 3 * k + j + 1
      BY <2>3, <1>2
    <3> QED
      BY <3>1, <1>4
  <2> QED
    BY <2>1, <2>2, <2>3
<1> QED
  BY <1>1, <1>3, <1>5, <1>6

\* Where the pages that a process has yet to run are, and what follows them.
LEMMA AheadPages ==
    ASSUME PagesAhead, NEW p \in DOMAIN pcb
    PROVE  /\ \A k \in ToRun(pcb[p]) : framestore[pcb[p].pagetable[k]] =
                 set_page(k, p, Chunk(text[p], k), framestore[pcb[p].pagetable[k]].last_used)
           /\ pcb[p].fp = After(text[p], 3 * pcb[p].num_pages)
  BY DEF PagesAhead, ToRun

\* The process that has the thread and what it runs next: the line behind its
\* program counter, from a page of its own.
LEMMA NextLine ==
    ASSUME FlatIInv, status = "ok", cpu.pid # 0, ~page_fault
    PROVE  /\ cpu.pid \in DOMAIN pcb
           /\ Current.curr_page \in ToRun(Current)
           /\ CurrentFrame \in Used
           /\ framestore[CurrentFrame].pid = cpu.pid
           /\ framestore[CurrentFrame].page_number = Current.curr_page
           /\ Current.curr_page = Position(Current) \div 3
           /\ CurrentLine = IF Position(Current) < Len(text[cpu.pid]) THEN text[cpu.pid][Position(Current) + 1] ELSE None
<1>1. IInv /\ cpu.pid \in DOMAIN pcb
  BY InHand DEF FlatIInv
<1>2. PICK p, c : p \in DOMAIN pcb /\ p = cpu.pid /\ c = pcb[p] /\ c = Current
  BY <1>1 DEF Current
<1>3. /\ c.curr_page \in Nat /\ c.curr_line \in 0..2 /\ c.num_pages \in Nat /\ p \in Pids
      /\ Position(c) = 3 * c.curr_page + c.curr_line
      /\ \A k \in ToRun(c) : c.pagetable[k] \in Frames
  BY <1>1, <1>2, PCBNumbers
<1>4. PICK k \in Nat, l \in 0..2 : k = c.curr_page /\ l = c.curr_line
  BY <1>3
<1>5. k \in ToRun(c)
  <2>1. ~(c.curr_page >= c.num_pages)
    BY <1>2 DEF page_fault
  <2> QED
    BY <2>1, <1>3, <1>4 DEF ToRun
<1>6. PICK f : f = c.pagetable[k] /\ f = CurrentFrame /\ f \in Frames
  BY <1>2, <1>3, <1>4, <1>5 DEF CurrentFrame
<1>7. PICK t : t = text[p] /\ t \in Seq(Line)
  BY <1>1, <1>3, TextFacts DEF FlatIInv
<1>8. framestore[f] = set_page(k, p, Chunk(t, k), framestore[f].last_used)
  <2>1. k \in ToRun(pcb[p]) /\ PagesAhead /\ p \in DOMAIN pcb
    BY <1>2, <1>5 DEF FlatIInv
  <2>2. framestore[pcb[p].pagetable[k]] = set_page(k, p, Chunk(text[p], k), framestore[pcb[p].pagetable[k]].last_used)
    BY <2>1, AheadPages
  <2> QED
    BY <2>2, <1>2, <1>6, <1>7
<1>9. framestore[f].pid = p /\ framestore[f].page_number = k /\ framestore[f].available = FALSE
      /\ framestore[f].lines = set_page(k, 1, Chunk(t, k), 0).lines
  <2>1. PICK u : framestore[f] = set_page(k, p, Chunk(t, k), u)
    BY <1>8
  <2> QED
    BY <2>1 DEF set_page
<1>10. f \in Used
  BY <1>6, <1>9 DEF Used, FreeFrames
<1>11. CurrentLine = framestore[f].lines[l + 1]
  BY <1>2, <1>4, <1>6 DEF CurrentLine
<1>12. CurrentLine = IF 3 * k + l < Len(t) THEN t[3 * k + l + 1] ELSE None
  <2>1. set_page(k, 1, Chunk(t, k), 0).lines[l + 1] = IF 3 * k + l < Len(t) THEN t[3 * k + l + 1] ELSE None
    BY <1>7, ChunkLines
  <2> QED
    BY <2>1, <1>9, <1>11
<1>13. Position(c) = 3 * k + l /\ (3 * k + l) \div 3 = k
  BY <1>3, <1>4
<1> QED
  BY <1>2, <1>4, <1>5, <1>6, <1>7, <1>9, <1>10, <1>12, <1>13

-----------------------------------------------------------------------------
(* Turns, in the order of the queue.                                       *)

\* The order of a queue without its head, and with one more at its tail.
LEMMA BeforeTail ==
    ASSUME NEW S, NEW s \in Seq(S), s # <<>>
    PROVE  /\ \A p, q : Before(Tail(s), p, q) => Before(s, p, q)
           /\ \A q \in Range(Tail(s)) : Before(s, Head(s), q)
<1>1. PICK r \in Nat : r = Len(s) /\ DOMAIN s = 1..r
  BY LenProperties
<1>2. r # 0
  BY <1>1, EmptySeq
<1>3. PICK t : t = Tail(s)
  OBVIOUS
<1>4. t \in Seq(S) /\ Len(t) = r - 1 /\ \A i \in 1..(r - 1) : t[i] = s[i + 1]
  BY <1>1, <1>3, HeadTailProperties
<1>5. DOMAIN t = 1..(r - 1)
  BY <1>4, LenProperties
<1>6. (\A i \in 1..(r - 1) : i + 1 \in 1..r /\ 1 < i + 1) /\ 1 \in 1..r /\ \A i, j \in 1..(r - 1) : i < j => i + 1 < j + 1
  BY <1>2
<1>7. Head(s) = s[1]
  OBVIOUS
<1>8. ASSUME NEW p, NEW q, Before(t, p, q) PROVE Before(s, p, q)
  <2>1. PICK i, j \in 1..(r - 1) : i < j /\ t[i] = p /\ t[j] = q
    BY <1>5, <1>8 DEF Before
  <2>2. i + 1 \in DOMAIN s /\ j + 1 \in DOMAIN s /\ i + 1 < j + 1 /\ s[i + 1] = p /\ s[j + 1] = q
    BY <2>1, <1>1, <1>4, <1>6
  <2> QED
    BY <2>2 DEF Before
<1>9. ASSUME NEW q \in Range(t) PROVE Before(s, Head(s), q)
  <2>1. PICK i \in 1..(r - 1) : t[i] = q
    BY <1>5 DEF Range
  <2>2. 1 \in DOMAIN s /\ i + 1 \in DOMAIN s /\ 1 < i + 1 /\ s[i + 1] = q
    BY <2>1, <1>1, <1>4, <1>6
  <2> QED
    BY <2>2, <1>7 DEF Before
<1> QED
  BY <1>3, <1>8, <1>9

\* The order of a queue with one more at its tail.
LEMMA BeforeAppend ==
    ASSUME NEW S, NEW s \in Seq(S), NEW x \in S, x \notin Range(s), NEW p, NEW q, Before(Append(s, x), p, q)
    PROVE  p \in Range(s) /\ (Before(s, p, q) \/ q = x)
<1>1. PICK r \in Nat : r = Len(s) /\ DOMAIN s = 1..r
  BY LenProperties
<1>2. PICK t : t = Append(s, x)
  OBVIOUS
<1>3. DOMAIN t = 1..(r + 1) /\ t[r + 1] = x /\ \A i \in 1..r : t[i] = s[i]
  <2>1. t \in Seq(S) /\ Len(t) = r + 1 /\ t[r + 1] = x /\ \A i \in 1..r : t[i] = s[i]
    BY <1>1, <1>2, AppendProperties
  <2> QED
    BY <2>1, LenProperties
<1>4. PICK i, j \in 1..(r + 1) : i < j /\ t[i] = p /\ t[j] = q
  BY <1>2, <1>3 DEF Before
<1>5. i \in 1..r /\ (j = r + 1 \/ j \in 1..r)
  BY <1>4
<1>6. p = s[i] /\ p \in Range(s)
  BY <1>1, <1>3, <1>4, <1>5 DEF Range
<1>7. CASE j = r + 1
  BY <1>3, <1>4, <1>6, <1>7
<1>8. CASE j \in 1..r
  BY <1>1, <1>3, <1>4, <1>5, <1>6, <1>8 DEF Before
<1> QED
  BY <1>5, <1>7, <1>8

\* Whoever comes before someone is in the queue.
LEMMA BeforeInside ==
    ASSUME NEW s, NEW p, NEW q, Before(s, p, q)
    PROVE  p \in Range(s) /\ q \in Range(s)
  BY DEF Before, Range

\* The queue's members are the ones that wait.
LEMMA WaitingRange == Waiting = Range(ready)
  BY DEF Waiting, Range

-----------------------------------------------------------------------------
(* A frame is used.                                                        *)

\* The process that has the thread uses frame f for its page n.
Uses(f, n) ==
    /\ f \in Frames /\ n \in Nat
    /\ \A j \in Frames : j # f => framestore'[j] = framestore[j]
    /\ framestore'[f].available = FALSE /\ framestore'[f].pid = cpu.pid /\ framestore'[f].page_number = n
    /\ framestore'[f].last_used \in Nat /\ timer <= framestore'[f].last_used
    /\ timer' \in Nat /\ framestore'[f].last_used < timer'

\* It is then the newest frame, and the only one added to those used since
\* another.
LEMMA UsesNewest ==
    ASSUME IInv, Stored, NEW f, NEW n, Uses(f, n)
    PROVE  /\ Used' = Used \cup {f}
           /\ Newest(f)' /\ Since(f)' = {f}
           /\ \A i \in Used : i # f => Since(i)' \subseteq Since(i) \cup {f}
           /\ \A j \in Used' : framestore'[j].last_used < timer'
<1>1. Used' = Used \cup {f}
  <2>1. \A j \in Frames : j \in Used <=> ~framestore[j].available
    BY DEF Used, FreeFrames
  <2>2. \A j \in Frames : j \in Used' <=> ~framestore'[j].available
    BY DEF Used, FreeFrames
  <2>3. \A j \in Frames : j # f => (framestore'[j].available <=> framestore[j].available)
    BY DEF Uses
  <2>4. Used \subseteq Frames /\ Used' \subseteq Frames /\ f \in Frames /\ ~framestore'[f].available
    BY DEF Used, Uses
  <2> QED
    BY <2>1, <2>2, <2>3, <2>4
<1>2. PICK t \in Nat, u \in Nat, v \in Nat : t = timer /\ u = framestore'[f].last_used /\ v = timer' /\ t <= u /\ u < v
  BY DEF Uses, IInv, QueueIntegrity, TypeOK
<1>3. ASSUME NEW j \in Used PROVE framestore[j].last_used \in Nat /\ framestore[j].last_used < t /\ j \in Frames
  BY <1>2, UsedFrame DEF Stored
<1>4. ASSUME NEW j \in Used, j # f PROVE framestore'[j] = framestore[j]
  BY <1>3, <1>4 DEF Uses
<1>5. ASSUME NEW j \in Used', j # f PROVE framestore'[j].last_used < u /\ framestore'[j].last_used \in Nat
  <2>1. j \in Used /\ framestore'[j] = framestore[j]
    BY <1>1, <1>4, <1>5
  <2> QED
    BY <2>1, <1>2, <1>3
<1>6. Newest(f)'
  BY <1>2, <1>5 DEF Newest
<1>7. Since(f)' = {f}
  <2>1. f \in Used' /\ u >= u
    BY <1>1, <1>2
  <2>2. \A j \in Used' : framestore'[j].last_used >= framestore'[f].last_used => j = f
    BY <1>2, <1>5
  <2> QED
    BY <2>1, <2>2, <1>2 DEF Since
<1>8. ASSUME NEW i \in Used, i # f PROVE Since(i)' \subseteq Since(i) \cup {f}
  <2>1. framestore'[i] = framestore[i]
    BY <1>4, <1>8
  <2>2. ASSUME NEW j \in Since(i)', j # f PROVE j \in Since(i)
    <3>1. j \in Used' /\ framestore'[j].last_used >= framestore'[i].last_used
      BY DEF Since
    <3>2. j \in Used /\ framestore'[j] = framestore[j]
      BY <3>1, <2>2, <1>1, <1>4
    <3> QED
      BY <3>1, <3>2, <2>1 DEF Since
  <2> QED
    BY <2>2
<1>9. \A j \in Used' : framestore'[j].last_used < timer'
  <2>1. \A a \in Nat : a < u => a < v
    BY <1>2
  <2>2. ASSUME NEW j \in Used' PROVE framestore'[j].last_used < timer'
    BY <2>1, <1>2, <1>5
  <2> QED
    BY <2>2
<1> QED
  BY <1>1, <1>6, <1>7, <1>8, <1>9

\* The pages of this command's processes stay the youngest.
LEMMA UsesBatch ==
    ASSUME IInv, Stored, NEW f, NEW n, Uses(f, n), cpu.pid \in DOMAIN pcb, NEW b \in Nat, Batch(b),
           DOMAIN pcb' \subseteq DOMAIN pcb, text' = text, pid_counter' = pid_counter
    PROVE  Batch(b)'
<1>1. Used' = Used \cup {f} /\ Newest(f)'
  BY UsesNewest
<1>2. \A p \in DOMAIN pcb' : b <= p
  BY DEF Batch
<1>3. Starters(b)' = Starters(b)
  BY DEF Starters
<1>4. framestore'[f].pid = cpu.pid /\ b <= cpu.pid /\ cpu.pid \in Nat
  BY DEF Uses, Batch, IInv, QueueIntegrity, TypeOK, Pids
<1>5. ASSUME NEW i \in Used', NEW j \in Used', framestore'[i].pid < b, b <= framestore'[j].pid
      PROVE  framestore'[i].last_used < framestore'[j].last_used
  <2>1. i # f
    BY <1>4, <1>5
  <2>2. i \in Used /\ framestore'[i] = framestore[i]
    BY <2>1, <1>1, <1>5 DEF Uses, Used
  <2>3. CASE j = f
    BY <2>1, <2>3, <1>1, <1>5 DEF Newest
  <2>4. CASE j # f
    <3>1. j \in Used /\ framestore'[j] = framestore[j]
      BY <2>4, <1>1, <1>5 DEF Uses, Used
    <3> QED
      BY <2>2, <3>1, <1>5 DEF Batch
  <2> QED
    BY <2>3, <2>4
<1> QED
  BY <1>2, <1>3, <1>5 DEF Batch

\* Lines of a turn under RR.
LEMMA TurnLines ==
    ASSUME FlatIInv, status = "ok", cpu.policy = "RR", cpu.pid # 0
    PROVE  /\ InStep /\ UsedLately /\ cpu.quanta \in {1, 2} /\ Quanta = 2
           /\ LinesNow = 2 - cpu.quanta + (IF cpu.at \in {"command", "advance"} THEN 1 ELSE 0)
           /\ LinesNow \in 0..2
           /\ cpu.pid \in DOMAIN pcb /\ Ran(cpu.pid) \in Nat
<1>1. InStep /\ UsedLately /\ IInv
  BY DEF FlatIInv, Turns
<1>2. cpu.quanta \in {1, 2} /\ Quanta = 2
  BY <1>1 DEF InStep, Quanta
<1>3. LinesNow = 2 - cpu.quanta + (IF cpu.at \in {"command", "advance"} THEN 1 ELSE 0)
  BY <1>2 DEF LinesNow
<1>4. cpu.pid \in DOMAIN pcb /\ cpu.pid \in Pids
  BY <1>1, InHand
<1>5. Ran(cpu.pid) \in Nat
  BY <1>1, <1>4, TextFacts DEF FlatIInv
<1> QED
  BY <1>1, <1>2, <1>3, <1>4, <1>5

\* Of two numbers that follow each other one is even and the other odd.
LEMMA NextParity ==
    \A e \in Nat : e >= 1 => /\ (e - 1) \div 3 \in Nat /\ e \div 3 \in Nat
                             /\ ((e - 1) \div 3) % 2 = (e \div 3) % 2 => (e - 1) \div 3 = e \div 3
<1> SUFFICES ASSUME NEW e \in Nat, e >= 1
             PROVE  /\ (e - 1) \div 3 \in Nat /\ e \div 3 \in Nat
                    /\ ((e - 1) \div 3) % 2 = (e \div 3) % 2 => (e - 1) \div 3 = e \div 3
  OBVIOUS
<1>1. PICK a \in Nat, b \in Nat : a = (e - 1) \div 3 /\ b = e \div 3
  OBVIOUS
<1>2. b = a \/ b = a + 1
  BY <1>1
<1>3. (a + 1) % 2 # a % 2
  OBVIOUS
<1> QED
  BY <1>1, <1>2, <1>3

\* When the process that has the thread uses the page of the line behind its
\* program counter, the pages that others will run stay as recent as they were.
LEMMA UsesRecent ==
    ASSUME FlatIInv, status = "ok", cpu.policy = "RR", cpu.at = "execute", cpu.pid # 0,
           NEW f, NEW n, Uses(f, n), n = Ran(cpu.pid) \div 3,
           \A y \in Used : y # f /\ framestore[y].pid = cpu.pid => framestore[y].page_number # n,
           NEW q \in Waiting, NEW i \in Used, i # f, Recent(i, q),
           \A x \in Pids : Precedes(x, q)' => /\ Precedes(x, q)
                                              /\ x = cpu.pid => /\ cpu'.pid = cpu.pid /\ LinesNow' = LinesNow + 1
                                                                /\ Ran(cpu.pid)' = Ran(cpu.pid) + 1
    PROVE  Recent(i, q)'
<1>1. IInv /\ Stored
  BY DEF FlatIInv
<1>2. PICK e \in Nat, m \in {0, 1} : e = Ran(cpu.pid) /\ m = LinesNow
  BY TurnLines
<1>3. /\ Used' = Used \cup {f} /\ Since(i)' \subseteq Since(i) \cup {f}
      /\ Since(i) \subseteq Used /\ Used \subseteq Frames
  BY <1>1, UsesNewest DEF Since, Used
<1>4. ASSUME NEW y \in Since(i)', y # f
      PROVE  y \in Since(i) /\ y \in Used /\ framestore'[y] = framestore[y]
  BY <1>3, <1>4 DEF Uses
<1>5. framestore'[f].pid = cpu.pid /\ framestore'[f].page_number = n /\ n \in Nat
  BY DEF Uses
<1>6. cpu.pid \in Pids /\ Precedes(cpu.pid, q)
  BY <1>1, InHand DEF Precedes
<1>7. ASSUME NEW y \in Since(i), framestore[y].pid = cpu.pid
      PROVE  e >= 1 /\ framestore[y].page_number = (e - 1) \div 3
  <2>1. PICK k \in 1..LinesNow : framestore[y].page_number = (Ran(cpu.pid) - k) \div 3
    BY <1>6, <1>7 DEF Recent
  <2>2. k = 1 /\ m = 1
    BY <2>1, <1>2
  <2>3. e >= 1
    <3>1. Early(cpu.pid) \in {0, 2, 4, 6}
      BY TurnLines DEF InStep
    <3>2. Begun(cpu.pid) = e - 1
      BY <1>2, <2>2 DEF Begun
    <3> QED
      BY <3>1, <3>2, <1>2 DEF Early
  <2> QED
    BY <2>1, <2>2, <2>3, <1>2
<1>8. ASSUME NEW y \in Since(i), y # f, framestore[y].pid = cpu.pid, framestore[y].page_number % 2 = n % 2
      PROVE  FALSE
  <2>1. e >= 1 /\ framestore[y].page_number = (e - 1) \div 3 /\ n = e \div 3
    BY <1>2, <1>7, <1>8
  <2>2. (e - 1) \div 3 = e \div 3
    BY <2>1, <1>8, NextParity
  <2>3. framestore[y].page_number = n
    BY <2>1, <2>2
  <2> QED
    BY <2>3, <1>3, <1>8
<1>9. ASSUME NEW x \in Since(i)', NEW y \in Since(i)', SamePlace(x, y)' PROVE x = y
  <2>1. /\ framestore'[x].pid = framestore'[y].pid
        /\ framestore'[x].page_number % 2 = framestore'[y].page_number % 2
    BY <1>9 DEF SamePlace
  <2>2. CASE x # f /\ y # f
    <3>1. x \in Since(i) /\ y \in Since(i) /\ SamePlace(x, y)
      BY <2>1, <2>2, <1>4 DEF SamePlace
    <3> QED
      BY <3>1 DEF Recent
  <2>3. CASE x # f /\ y = f
    <3>1. x \in Since(i) /\ framestore[x].pid = cpu.pid /\ framestore[x].page_number % 2 = n % 2
      BY <2>1, <2>3, <1>4, <1>5
    <3> QED
      BY <3>1, <2>3, <1>8
  <2>4. CASE x = f /\ y # f
    <3>1. y \in Since(i) /\ framestore[y].pid = cpu.pid /\ framestore[y].page_number % 2 = n % 2
      BY <2>1, <2>4, <1>4, <1>5
    <3> QED
      BY <3>1, <2>4, <1>8
  <2> QED
    BY <2>2, <2>3, <2>4
<1>10. ASSUME NEW x \in Since(i)', Precedes(framestore[x].pid, q)'
       PROVE  /\ framestore'[x].pid = cpu'.pid
              /\ \E k \in 1..LinesNow' : framestore'[x].page_number = (Ran(cpu.pid)' - k) \div 3
  <2>1. PICK p : p = framestore'[x].pid
    OBVIOUS
  <2>2. p \in Pids
    <3>1. CASE x = f
      BY <3>1, <2>1, <1>5, <1>6
    <3>2. CASE x # f
      BY <3>2, <2>1, <1>1, <1>4 DEF Stored
    <3> QED
      BY <3>1, <3>2
  <2>3. /\ Precedes(p, q)
        /\ p = cpu.pid => cpu'.pid = cpu.pid /\ LinesNow' = m + 1 /\ Ran(cpu.pid)' = e + 1
    BY <2>1, <2>2, <1>2, <1>10
  <2>4. CASE x = f
    <3>1. p = cpu.pid /\ framestore'[x].page_number = e \div 3
      BY <2>1, <2>4, <1>2, <1>5
    <3>2. 1 \in 1..(m + 1) /\ (e + 1) - 1 = e
      BY <1>2
    <3>3. cpu'.pid = cpu.pid /\ Ran(cpu.pid)' = e + 1
      BY <3>1, <2>3
    <3> QED
      BY <3>1, <3>2, <2>1, <2>3
  <2>5. CASE x # f
    <3>1. x \in Since(i) /\ framestore'[x] = framestore[x] /\ Precedes(framestore[x].pid, q)
      BY <2>1, <2>3, <2>5, <1>4
    <3>2. p = cpu.pid /\ \E k \in 1..m : framestore'[x].page_number = (e - k) \div 3
      BY <3>1, <2>1, <1>2 DEF Recent
    <3>3. PICK k \in 1..m : framestore'[x].page_number = (e - k) \div 3
      BY <3>2
    <3>4. k + 1 \in 1..(m + 1) /\ (e + 1) - (k + 1) = e - k
      BY <1>2, <3>3
    <3> QED
      BY <3>2, <3>3, <3>4, <2>1, <2>3
  <2> QED
    BY <2>4, <2>5
<1>11. CASE \A x \in Since(i)' : ~Precedes(framestore[x].pid, q)'
  BY <1>9, <1>11 DEF Recent
<1>12. CASE \E x \in Since(i)' : Precedes(framestore[x].pid, q)'
  BY <1>9, <1>10 DEF Recent
<1> QED
  BY <1>11, <1>12

-----------------------------------------------------------------------------
(* Steps that use no frame.                                                *)

\* What is said of memory and texts alone.
LEMMA SameStore ==
    ASSUME FlatIInv, UNCHANGED <<framestore, timer, pid_counter, pcb, text, executed>>
    PROVE  /\ Texts' /\ Stored' /\ PagesAhead'
           /\ \A b : Batch(b) => Batch(b)'
           /\ \A p \in DOMAIN pcb : (InLine(p)' <=> InLine(p)) => Follows(p)'
           /\ Pids' = Pids /\ Used' = Used
<1>1. Texts /\ Stored /\ PagesAhead
  BY DEF FlatIInv
<1>2. Pids' = Pids /\ Used' = Used
  BY DEF Pids, Used, FreeFrames
<1>3. Texts'
  BY <1>1, <1>2 DEF Texts, Ran
<1>4. Stored'
  BY <1>1, <1>2 DEF Stored
<1>5. PagesAhead'
  BY <1>1 DEF PagesAhead
<1>6. ASSUME NEW b, Batch(b) PROVE Batch(b)'
  BY <1>2, <1>6 DEF Batch, Starters
<1>7. ASSUME NEW p \in DOMAIN pcb, InLine(p)' <=> InLine(p) PROVE Follows(p)'
  <2>1. Follows(p)
    BY DEF FlatIInv
  <2> QED
    BY <1>7, <2>1 DEF Follows, Ran, OnTime, Position
<1> QED
  BY <1>2, <1>3, <1>4, <1>5, <1>6, <1>7

\* What is to be shown of each page that a waiting process will run.
LEMMA LatelyNext ==
    ASSUME \A q \in Waiting' : \A k, i : Ran(q)' >= 4 /\ k \in ToRun(pcb[q])' /\ i = pcb'[q].pagetable[k] => Recent(i, q)'
    PROVE  UsedLately'
<1> SUFFICES ASSUME NEW q \in Waiting', Ran(q)' >= 4, NEW k \in ToRun(pcb[q])'
             PROVE  Recent(pcb[q].pagetable[k], q)'
  BY DEF UsedLately
<1>1. PICK i : i = pcb'[q].pagetable[k]
  OBVIOUS
<1>2. Recent(i, q)'
  BY <1>1
<1> QED
  BY <1>1, <1>2

\* The turns go on as before.
LEMMA SameTurns ==
    ASSUME FlatIInv, status = "ok", cpu.policy = "RR",
           UNCHANGED <<framestore, executed, ready>>,
           cpu'.pid = cpu.pid, LinesNow' = LinesNow, cpu.pid # 0 => cpu'.quanta \in {1, 2},
           DOMAIN pcb' = DOMAIN pcb, \A q \in Waiting : pcb'[q] = pcb[q]
    PROVE  InStep' /\ UsedLately'
<1>1. InStep /\ UsedLately
  BY DEF FlatIInv, Turns
<1>2. Used' = Used /\ Waiting' = Waiting
  BY DEF Used, FreeFrames, Waiting
<1>3. \A p, q : Precedes(p, q)' <=> Precedes(p, q)
  BY <1>2 DEF Precedes, Before
<1>4. \A p : Early(p)' = Early(p)
  BY DEF Early, Begun, Ran
<1>5. InStep'
  BY <1>1, <1>3, <1>4 DEF InStep
<1>6. ASSUME NEW i, NEW q, Recent(i, q) PROVE Recent(i, q)'
  <2>1. Since(i)' = Since(i) /\ Ran(cpu.pid)' = Ran(cpu.pid)
    BY <1>2 DEF Since, Ran
  <2>2. \A x, y : SamePlace(x, y)' <=> SamePlace(x, y)
    BY DEF SamePlace
  <2>3. \A x, y \in Since(i)' : SamePlace(x, y)' => x = y
    BY <1>6, <2>1, <2>2 DEF Recent
  <2>4. ASSUME NEW x \in Since(i)', Precedes(framestore[x].pid, q)'
        PROVE  /\ framestore'[x].pid = cpu'.pid
               /\ \E m \in 1..LinesNow' : framestore'[x].page_number = (Ran(cpu.pid)' - m) \div 3
    <3>1. x \in Since(i) /\ Precedes(framestore[x].pid, q)
      BY <1>3, <2>1, <2>4
    <3>2. framestore[x].pid = cpu.pid /\ \E m \in 1..LinesNow : framestore[x].page_number = (Ran(cpu.pid) - m) \div 3
      BY <3>1, <1>6 DEF Recent
    <3> QED
      BY <3>2, <2>1
  <2>5. \A x \in Since(i)' : Precedes(framestore[x].pid, q)' =>
               /\ framestore'[x].pid = cpu'.pid
               /\ \E m \in 1..LinesNow' : framestore'[x].page_number = (Ran(cpu.pid)' - m) \div 3
    BY <2>4
  <2> QED
    BY <2>3, <2>5 DEF Recent
<1>7. UsedLately'
  <2>1. ASSUME NEW q \in Waiting', NEW k, NEW i, Ran(q)' >= 4, k \in ToRun(pcb[q])', i = pcb'[q].pagetable[k]
        PROVE  Recent(i, q)'
    <3>1. q \in Waiting /\ pcb'[q] = pcb[q] /\ Ran(q) >= 4
      BY <1>2, <2>1 DEF Ran
    <3>2. k \in ToRun(pcb[q])
      BY <2>1, <3>1
    <3>3. Recent(i, q)
      BY <1>1, <2>1, <3>1, <3>2 DEF UsedLately
    <3> QED
      BY <3>3, <1>6
  <2> QED
    BY <2>1, LatelyNext
<1> QED
  BY <1>5, <1>7

\* The thread's place when it has no process.
LEMMA NoOneInHand ==
    ASSUME FlatIInv, status = "ok"
    PROVE  /\ Turns /\ IInv
           /\ cpu.at = "prompt" => DOMAIN pcb = {} /\ cpu.pid = 0
           /\ cpu.at = "schedule" => cpu.pid = 0 /\ DOMAIN pcb = Waiting
           /\ cpu.at \in {"execute", "advance"} => cpu.pid # 0
  BY DEF FlatIInv, Turns, IInv, ThreadInHand, QueueIntegrity

\* main: a command is typed.
LEMMA TypeFlat == ASSUME FlatIInv, NEW c \in UserCommands, Type(c) PROVE FlatIInv'
<1>1. status = "ok" /\ cpu.at = "prompt" /\ UNCHANGED kernelVars
      /\ cpu' = [at |-> "command", pid |-> 0, quanta |-> 0, policy |-> "FCFS", cmd |-> c]
  BY DEF Type, Prompt
<1>2. IInv' /\ DOMAIN pcb = {} /\ Turns
  BY <1>1, TypeIInv, NoOneInHand DEF FlatIInv
<1>3. cpu'.at = "command" /\ cpu'.pid = 0 /\ cpu'.policy = "FCFS" /\ cpu'.cmd = c
  BY <1>1
<1>4. Texts' /\ Stored' /\ PagesAhead' /\ (\A b : Batch(b) => Batch(b)') /\ Pids' = Pids
  BY <1>1, SameStore DEF kernelVars
<1>5. pcb' = pcb /\ status' = status /\ pid_counter' = pid_counter
  BY <1>1 DEF kernelVars
<1>6. \E b \in Pids' \cup {pid_counter'} : Batch(b)'
  BY <1>2, <1>4, <1>5 DEF Turns
<1>7. Turns'
  BY <1>2, <1>3, <1>5, <1>6 DEF Turns
<1> QED
  BY <1>1, <1>2, <1>4, <1>5, <1>7 DEF FlatIInv

\* quit: the queue is emptied and nothing runs any more.
LEMMA QuitFlat == ASSUME FlatIInv, quit PROVE FlatIInv'
<1>1. status' = "exit" /\ UNCHANGED <<framestore, timer, pid_counter, pcb, cpu, text, executed>>
  BY DEF quit
<1>2. IInv'
  BY QuitIInv DEF FlatIInv
<1>3. Texts' /\ Stored' /\ PagesAhead' /\ \A p \in DOMAIN pcb : Follows(p)'
  BY <1>1, SameStore DEF InLine
<1> QED
  BY <1>1, <1>2, <1>3 DEF FlatIInv

\* A command without effect, typed or in a script.
LEMMA EchoFlat == ASSUME FlatIInv, echo PROVE FlatIInv'
<1>1. /\ status = "ok" /\ cpu.at = "command" /\ UNCHANGED kernelVars
      /\ cpu' = IF in_background THEN [cpu EXCEPT !.at = "advance"] ELSE Prompt
  BY DEF echo
<1>2. IInv' /\ IInv /\ Turns
  BY <1>1, EchoIInv, NoOneInHand DEF FlatIInv
<1>3. /\ UNCHANGED <<framestore, timer, pid_counter, pcb, text, executed>> /\ ready' = ready /\ status' = status
  BY <1>1 DEF kernelVars
<1>4. /\ Texts' /\ Stored' /\ PagesAhead' /\ (\A b : Batch(b) => Batch(b)') /\ Pids' = Pids
      /\ \A p \in DOMAIN pcb : (InLine(p)' <=> InLine(p)) => Follows(p)'
  BY <1>3, SameStore
<1>5. \E b \in Pids' \cup {pid_counter'} : Batch(b)'
  BY <1>2, <1>3, <1>4 DEF Turns
<1>6. CASE cpu.pid = 0
  <2>1. DOMAIN pcb = {} /\ DOMAIN pcb' = {}
    BY <1>1, <1>2, <1>3, <1>6 DEF Turns
  <2>2. cpu'.at = "prompt" /\ cpu'.pid = 0 /\ cpu'.policy = "FCFS"
    BY <1>1, <1>6 DEF in_background, Prompt
  <2>3. Turns'
    BY <1>5, <2>1, <2>2 DEF Turns
  <2> QED
    BY <1>1, <1>2, <1>3, <1>4, <2>1, <2>3 DEF FlatIInv
<1>7. CASE cpu.pid # 0
  <2>1. /\ cpu'.at = "advance" /\ cpu'.pid = cpu.pid /\ cpu'.policy = cpu.policy /\ cpu'.quanta = cpu.quanta
    <3>1. cpu' = [cpu EXCEPT !.at = "advance"]
      BY <1>1, <1>7 DEF in_background
    <3> QED
      BY <3>1, <1>2 DEF IInv, QueueIntegrity, TypeOK
  <2>2. \A p \in DOMAIN pcb : Follows(p)'
    BY <1>1, <1>4, <2>1 DEF InLine
  <2>3. cpu.policy = "RR" => InStep' /\ UsedLately'
    <3>1. ASSUME cpu.policy = "RR" PROVE InStep' /\ UsedLately'
      <4>1. LinesNow' = LinesNow
        BY <1>1, <2>1 DEF LinesNow, Quanta
      <4>2. cpu'.quanta \in {1, 2}
        BY <3>1, <1>1, <1>7, <2>1, TurnLines
      <4> QED
        BY <3>1, <4>1, <4>2, <1>1, <1>3, <1>7, <2>1, SameTurns
    <3> QED
      BY <3>1
  <2>4. Newest(CurrentFrame)'
    <3>1. Newest(CurrentFrame)
      BY <1>1, <1>2, <1>7 DEF Turns
    <3> QED
      BY <3>1, <1>3, <2>1 DEF Newest, CurrentFrame, Current, Used, FreeFrames
  <2>5. Turns'
    BY <1>2, <1>3, <1>5, <1>7, <2>1, <2>3, <2>4 DEF Turns
  <2> QED
    BY <1>1, <1>2, <1>3, <1>4, <2>2, <2>5 DEF FlatIInv
<1> QED
  BY <1>6, <1>7

\* The scheduler returns when nothing waits.
LEMMA SchedulerReturnsFlat == ASSUME FlatIInv, SchedulerReturns PROVE FlatIInv'
<1>1. status = "ok" /\ cpu.at = "schedule" /\ ready = <<>> /\ UNCHANGED kernelVars
      /\ cpu' = [at |-> "prompt", pid |-> 0, quanta |-> 0, policy |-> "FCFS", cmd |-> NoCommand]
  BY DEF SchedulerReturns, Prompt
<1>2. IInv' /\ Turns /\ DOMAIN pcb = Waiting
  BY <1>1, SchedulerReturnsIInv, NoOneInHand DEF FlatIInv
<1>3. Waiting = {}
  BY <1>1 DEF Waiting
<1>4. cpu'.at = "prompt" /\ cpu'.pid = 0 /\ cpu'.policy = "FCFS"
  BY <1>1
<1>5. Texts' /\ Stored' /\ PagesAhead' /\ (\A b : Batch(b) => Batch(b)') /\ Pids' = Pids
  BY <1>1, SameStore DEF kernelVars
<1>6. pcb' = pcb /\ status' = status /\ pid_counter' = pid_counter
  BY <1>1 DEF kernelVars
<1>7. \E b \in Pids' \cup {pid_counter'} : Batch(b)'
  BY <1>2, <1>5, <1>6 DEF Turns
<1>8. Turns'
  BY <1>2, <1>3, <1>4, <1>6, <1>7 DEF Turns
<1> QED
  BY <1>1, <1>2, <1>3, <1>5, <1>6, <1>8 DEF FlatIInv

-----------------------------------------------------------------------------
(* The thread passes from one process to the next.                         *)

\* The scheduler takes the head of the queue.
LEMMA DispatchFlat == ASSUME FlatIInv, Dispatch PROVE FlatIInv'
<1>1. /\ status = "ok" /\ cpu.at = "schedule" /\ ready # <<>> /\ ready' = Tail(ready)
      /\ cpu' = [cpu EXCEPT !.at = "execute", !.pid = Head(ready), !.quanta = Quanta]
      /\ UNCHANGED <<framestore, timer, pcb, pid_counter, status, text, executed>>
  BY DEF Dispatch
<1>2. IInv' /\ IInv /\ Turns /\ cpu.pid = 0 /\ DOMAIN pcb = Waiting
  BY <1>1, DispatchIInv, NoOneInHand DEF FlatIInv
<1>3. cpu'.at = "execute" /\ cpu'.pid = Head(ready) /\ cpu'.policy = cpu.policy /\ cpu'.quanta = Quanta
  BY <1>1, <1>2 DEF IInv, QueueIntegrity, TypeOK
<1>4. /\ Texts' /\ Stored' /\ PagesAhead' /\ (\A b : Batch(b) => Batch(b)') /\ Pids' = Pids /\ Used' = Used
      /\ \A p \in DOMAIN pcb : Follows(p)'
  <2>1. \A p \in DOMAIN pcb : InLine(p)' <=> InLine(p)
    BY <1>1, <1>3 DEF InLine
  <2> QED
    BY <1>1, <2>1, SameStore
<1>5. \E b \in Pids' \cup {pid_counter'} : Batch(b)'
  BY <1>1, <1>2, <1>4 DEF Turns
<1>6. ASSUME NEW p, NEW q, Precedes(p, q)'
      PROVE  Precedes(p, q) /\ q \in Waiting /\ (q \in Waiting' \/ p = cpu'.pid)
  <2>1. ready \in Seq(Pids)
    BY <1>2 DEF IInv, QueueIntegrity, TypeOK
  <2>2. CASE Before(ready', p, q)
    <3>1. Before(ready, p, q)
      BY <1>1, <2>1, <2>2, BeforeTail
    <3>2. q \in Range(ready') /\ q \in Range(ready)
      BY <2>2, <3>1, BeforeInside
    <3> QED
      BY <3>1, <3>2, WaitingRange DEF Precedes, Waiting, Range
  <2>3. CASE p = cpu'.pid /\ q \in Waiting'
    <3>1. q \in Range(Tail(ready)) /\ p = Head(ready)
      BY <1>1, <1>3, <2>3 DEF Waiting, Range
    <3>2. Before(ready, p, q)
      BY <1>1, <2>1, <3>1, BeforeTail
    <3> QED
      BY <3>2, <2>3, BeforeInside, WaitingRange DEF Precedes
  <2> QED
    BY <1>6, <2>2, <2>3 DEF Precedes
<1>7. cpu.policy = "RR" => InStep' /\ UsedLately'
  <2> SUFFICES ASSUME cpu.policy = "RR" PROVE InStep' /\ UsedLately'
    OBVIOUS
  <2>1. InStep /\ UsedLately /\ cpu'.quanta = 2 /\ Quanta' = 2
    BY <1>2, <1>3 DEF Turns, Quanta
  <2>2. LinesNow' = 0
    BY <2>1, <1>3 DEF LinesNow
  <2>3. ASSUME NEW p \in DOMAIN pcb PROVE Early(p)' = Early(p)
    <3>1. p \in Pids /\ p # cpu.pid
      BY <1>2, PCBNumbers
    <3>2. Ran(p) \in Nat /\ Ran(p)' = Ran(p)
      BY <1>1, <1>2, <3>1, TextFacts DEF FlatIInv, Ran
    <3>3. Begun(p) = Ran(p) /\ Begun(p)' = Ran(p)
      BY <2>2, <3>1, <3>2 DEF Begun
    <3> QED
      BY <3>3 DEF Early
  <2>4. InStep'
    <3>1. \A p \in DOMAIN pcb' : Early(p)' \in {0, 2, 4, 6}
      BY <1>1, <2>1, <2>3 DEF InStep
    <3>2. ASSUME NEW p \in DOMAIN pcb', NEW q \in DOMAIN pcb', Precedes(p, q)'
          PROVE  Early(p)' <= Early(q)' /\ Early(q)' <= Early(p)' + 2
      <4>1. Precedes(p, q) /\ p \in DOMAIN pcb /\ q \in DOMAIN pcb
        BY <1>1, <1>6, <3>2
      <4>2. Early(p) <= Early(q) /\ Early(q) <= Early(p) + 2
        BY <4>1, <2>1 DEF InStep
      <4> QED
        BY <4>1, <4>2, <2>3
    <3> QED
      BY <2>1, <3>1, <3>2 DEF InStep
  <2>5. ASSUME NEW q \in Waiting', NEW i, Recent(i, q) PROVE Recent(i, q)'
    <3>1. Since(i)' = Since(i) /\ Since(i) \subseteq Used
      BY <1>1, <1>4 DEF Since
    <3>2. \A x, y : SamePlace(x, y)' <=> SamePlace(x, y)
      BY <1>1 DEF SamePlace
    <3>3. \A x, y \in Since(i)' : SamePlace(x, y)' => x = y
      BY <2>5, <3>1, <3>2 DEF Recent
    <3>4. ASSUME NEW x \in Since(i)', Precedes(framestore[x].pid, q)' PROVE FALSE
      <4>1. Precedes(framestore[x].pid, q) /\ x \in Since(i)
        <5>1. PICK p : p = framestore[x].pid /\ p = framestore'[x].pid
          BY <1>1
        <5>2. Precedes(p, q)'
          BY <3>4, <5>1
        <5> QED
          BY <1>6, <3>1, <5>1, <5>2
      <4>2. framestore[x].pid = 0
        BY <1>2, <2>5, <4>1 DEF Recent
      <4>3. framestore[x].pid \in Pids /\ pid_counter \in Nat
        BY <1>2, <3>1, <4>1 DEF FlatIInv, Stored, IInv, QueueIntegrity, TypeOK
      <4> QED
        BY <4>2, <4>3 DEF Pids
    <3> QED
      BY <3>3, <3>4 DEF Recent
  <2>6. UsedLately'
    <3>1. ASSUME NEW q \in Waiting', NEW k, NEW i, Ran(q)' >= 4, k \in ToRun(pcb[q])', i = pcb'[q].pagetable[k]
          PROVE  Recent(i, q)'
      <4>1. q \in Waiting
        BY <1>1, <1>2, HeadLeaves, Parts, <1>4
      <4>2. Ran(q) >= 4 /\ k \in ToRun(pcb[q]) /\ i = pcb[q].pagetable[k]
        BY <1>1, <3>1 DEF Ran
      <4> QED
        BY <2>1, <2>5, <3>1, <4>1, <4>2 DEF UsedLately
    <3> QED
      BY <3>1, LatelyNext
  <2> QED
    BY <2>4, <2>6
<1>8. cpu.policy # "RR" => \A p, q \in DOMAIN pcb : p = q
  BY <1>2 DEF Turns
<1>9. Turns'
  BY <1>1, <1>3, <1>5, <1>7, <1>8 DEF Turns
<1> QED
  BY <1>1, <1>2, <1>4, <1>9 DEF FlatIInv

-----------------------------------------------------------------------------
(* The thread reads a line.                                                *)

\* A page that a process has yet to run is in the store.
LEMMA OwnPage ==
    ASSUME FlatIInv, NEW p \in DOMAIN pcb, NEW k \in ToRun(pcb[p]), NEW i, i = pcb[p].pagetable[k]
    PROVE  /\ i \in Used /\ i \in Frames /\ k \in Nat
           /\ framestore[i].pid = p /\ framestore[i].page_number = k
<1>1. k \in Nat /\ i \in Frames
  BY PCBNumbers DEF FlatIInv
<1>2. PICK u : framestore[i] = set_page(k, p, Chunk(text[p], k), u)
  BY AheadPages DEF FlatIInv
<1>3. framestore[i].pid = p /\ framestore[i].page_number = k /\ framestore[i].available = FALSE
  BY <1>2 DEF set_page
<1> QED
  BY <1>1, <1>3 DEF Used, FreeFrames

\* The store after a process has used its page n.
LEMMA UsesStored ==
    ASSUME FlatIInv, cpu.pid \in Pids, NEW f, NEW n, Uses(f, n), 3 * n < Len(text[cpu.pid]),
           \A y \in Used : y # f /\ framestore[y].pid = cpu.pid => framestore[y].page_number # n,
           text' = text, pid_counter' = pid_counter, DOMAIN pcb' \subseteq DOMAIN pcb,
           \A p \in DOMAIN pcb' : p # cpu.pid => pcb'[p].num_pages = pcb[p].num_pages,
           cpu.pid \in DOMAIN pcb' => /\ n < pcb'[cpu.pid].num_pages
                                      /\ \A k \in Nat : k < pcb[cpu.pid].num_pages => k < pcb'[cpu.pid].num_pages
    PROVE  Stored'
<1>1. Stored /\ IInv /\ Pids' = Pids
  BY DEF FlatIInv, Pids
<1>2. Used' = Used \cup {f} /\ \A j \in Used' : framestore'[j].last_used < timer'
  BY <1>1, UsesNewest
<1>3. framestore'[f].pid = cpu.pid /\ framestore'[f].page_number = n /\ n \in Nat
  BY DEF Uses
<1>4. ASSUME NEW j \in Used', j # f PROVE j \in Used /\ framestore'[j] = framestore[j]
  BY <1>2, <1>4 DEF Uses, Used
<1>5. ASSUME NEW i \in Used'
      PROVE  /\ framestore'[i].pid \in Pids' /\ framestore'[i].page_number \in Nat
             /\ 3 * framestore'[i].page_number < Len(text'[framestore'[i].pid])
             /\ framestore'[i].pid \in DOMAIN pcb' => framestore'[i].page_number < pcb'[framestore'[i].pid].num_pages
  <2>1. CASE i = f
    BY <2>1, <1>1, <1>3
  <2>2. CASE i # f
    <3>1. i \in Used /\ framestore'[i] = framestore[i]
      BY <1>4, <2>2
    <3>2. /\ framestore[i].pid \in Pids /\ framestore[i].page_number \in Nat
          /\ 3 * framestore[i].page_number < Len(text[framestore[i].pid])
          /\ framestore[i].pid \in DOMAIN pcb => framestore[i].page_number < pcb[framestore[i].pid].num_pages
      BY <1>1, <3>1 DEF Stored
    <3>3. framestore[i].pid \in DOMAIN pcb' => framestore[i].page_number < pcb'[framestore[i].pid].num_pages
      BY <3>2
    <3> QED
      BY <1>1, <3>1, <3>2, <3>3
  <2> QED
    BY <2>1, <2>2
<1>6. ASSUME NEW i \in Used', NEW j \in Used', framestore'[i].pid = framestore'[j].pid,
             framestore'[i].page_number = framestore'[j].page_number
      PROVE  i = j
  <2>1. CASE i # f /\ j # f
    BY <1>1, <1>4, <1>6, <2>1 DEF Stored
  <2>2. CASE i = f /\ j # f
    BY <1>3, <1>4, <1>6, <2>2
  <2>3. CASE i # f /\ j = f
    BY <1>3, <1>4, <1>6, <2>3
  <2> QED
    BY <2>1, <2>2, <2>3
<1> QED
  BY <1>2, <1>5, <1>6 DEF Stored

\* A page with another time stamp.
LEMMA Restamped ==
    ASSUME NEW k, NEW p, NEW c, NEW u, NEW v
    PROVE  [set_page(k, p, c, u) EXCEPT !.last_used = v] = set_page(k, p, c, v)
<1>1. PICK g : g = set_page(k, p, c, u)
  OBVIOUS
<1>2. PICK w : w = [j \in 1..3 |-> IF j <= Len(c) THEN c[j] ELSE None]
  OBVIOUS
<1>3. \A x : set_page(k, p, c, x) =
              [pid |-> p, page_number |-> k, available |-> FALSE, last_used |-> x, lines |-> w]
  BY <1>2, Zenon DEF set_page
<1>4. PICK h : h = [g EXCEPT !.last_used = v]
  OBVIOUS
<1>5. g \in [pid : {p}, page_number : {k}, available : {FALSE}, last_used : {u}, lines : {w}]
  <2>1. g = [pid |-> p, page_number |-> k, available |-> FALSE, last_used |-> u, lines |-> w]
    BY <1>1, <1>3, Zenon
  <2> QED
    BY <2>1
<1>6. [g EXCEPT !.last_used = v] \in
         [pid : {p}, page_number : {k}, available : {FALSE}, last_used : {v}, lines : {w}]
  BY <1>5
<1>7. h \in [pid : {p}, page_number : {k}, available : {FALSE}, last_used : {v}, lines : {w}]
  BY <1>4, <1>6, Zenon
<1>8. h = [pid |-> p, page_number |-> k, available |-> FALSE, last_used |-> v, lines |-> w]
  BY <1>7
<1> QED
  BY <1>1, <1>3, <1>4, <1>8, Zenon

\* get_line reads a frame of the process: a use that changes no page.
LEMMA TouchFlat ==
    ASSUME FlatIInv, status = "ok", cpu.at = "execute", ~page_fault, Touch,
           pid_counter' = pid_counter, text' = text,
           DOMAIN pcb' \subseteq DOMAIN pcb, \A p \in DOMAIN pcb' : pcb'[p] = pcb[p]
    PROVE  /\ cpu.pid # 0 /\ cpu.pid \in DOMAIN pcb /\ cpu.pid \in Pids
           /\ Uses(CurrentFrame, Current.curr_page) /\ CurrentFrame \in Used
           /\ Stored' /\ PagesAhead' /\ \A b \in Nat : Batch(b) => Batch(b)'
           /\ Ran(cpu.pid) = Position(Current) /\ Current.curr_page = Ran(cpu.pid) \div 3
           /\ \A y \in Used : y # CurrentFrame /\ framestore[y].pid = cpu.pid =>
                                framestore[y].page_number # Current.curr_page
<1>1. IInv /\ Stored /\ PagesAhead /\ cpu.pid # 0
  BY NoOneInHand DEF FlatIInv
<1>2. cpu.pid \in DOMAIN pcb /\ cpu.pid \in Pids
  BY <1>1, InHand
<1>3. PICK f : f = CurrentFrame
  OBVIOUS
<1>4. PICK n : n = Current.curr_page
  OBVIOUS
<1>5. /\ f \in Used /\ framestore[f].pid = cpu.pid /\ framestore[f].page_number = n
      /\ n = Position(Current) \div 3
  BY <1>1, <1>3, <1>4, NextLine
<1>6. /\ f \in Frames /\ framestore[f] \in Page /\ framestore[f].available = FALSE /\ timer \in Nat
      /\ framestore \in [Frames -> Page] /\ n \in Nat
  BY <1>1, <1>5, UsedFrame DEF IInv, QueueIntegrity, TypeOK, Stored
<1>7. framestore' = [framestore EXCEPT ![f].last_used = timer + 1] /\ timer' = timer + 2
  BY <1>3 DEF Touch
<1>8. framestore'[f] = [framestore[f] EXCEPT !.last_used = timer + 1]
      /\ \A j \in Frames : j # f => framestore'[j] = framestore[j]
  BY <1>6, <1>7
<1>9. Uses(f, n)
  <2>1. /\ framestore'[f].pid = cpu.pid /\ framestore'[f].page_number = n /\ framestore'[f].available = FALSE
        /\ framestore'[f].last_used = timer + 1
    BY <1>5, <1>6, <1>8 DEF Page
  <2> QED
    BY <2>1, <1>6, <1>7, <1>8 DEF Uses
<1>10. \A y \in Used : y # f /\ framestore[y].pid = cpu.pid => framestore[y].page_number # n
  BY <1>1, <1>5 DEF Stored
<1>11. Stored'
  <2>1. 3 * n < Len(text[cpu.pid])
    BY <1>1, <1>5 DEF Stored
  <2>2. n < pcb[cpu.pid].num_pages
    BY <1>1, <1>2, <1>5 DEF Stored
  <2>3. cpu.pid \in DOMAIN pcb' => /\ n < pcb'[cpu.pid].num_pages
                                   /\ \A k \in Nat : k < pcb[cpu.pid].num_pages => k < pcb'[cpu.pid].num_pages
    BY <2>2
  <2> QED
    BY <1>2, <1>9, <1>10, <2>1, <2>3, UsesStored
<1>12. PagesAhead'
  <2>1. ASSUME NEW p \in DOMAIN pcb', NEW k \in ToRun(pcb[p]), NEW i, i = pcb[p].pagetable[k]
        PROVE  framestore'[i] = set_page(k, p, Chunk(text[p], k), framestore'[i].last_used)
    <3>1. p \in DOMAIN pcb
      OBVIOUS
    <3>2. i \in Frames
      BY <2>1, <3>1, OwnPage
    <3>3. framestore[i] = set_page(k, p, Chunk(text[p], k), framestore[i].last_used)
      BY <1>1, <2>1, <3>1, AheadPages
    <3>4. CASE i = f
      <4>1. PICK c, u : c = Chunk(text[p], k) /\ framestore[f] = set_page(k, p, c, u)
        BY <3>3, <3>4
      <4>2. framestore'[f] = set_page(k, p, c, timer + 1)
        <5>1. [set_page(k, p, c, u) EXCEPT !.last_used = timer + 1] = set_page(k, p, c, timer + 1)
          BY Restamped
        <5> QED
          BY <4>1, <5>1, <1>8, Zenon
      <4>3. framestore'[f].last_used = timer + 1
        BY <4>2 DEF set_page
      <4> QED
        BY <3>4, <4>1, <4>2, <4>3
    <3> QED
      BY <1>8, <3>2, <3>3, <3>4
  <2>2. ASSUME NEW p \in DOMAIN pcb' PROVE pcb'[p].fp = After(text'[p], 3 * pcb'[p].num_pages)
    BY <1>1, AheadPages
  <2>3. ASSUME NEW p \in DOMAIN pcb', NEW k \in pcb'[p].curr_page..(pcb'[p].num_pages - 1)
        PROVE  framestore'[pcb'[p].pagetable[k]] =
                  set_page(k, p, Chunk(text'[p], k), framestore'[pcb'[p].pagetable[k]].last_used)
    <3>1. k \in ToRun(pcb[p]) /\ pcb'[p] = pcb[p]
      BY <2>3 DEF ToRun
    <3>2. PICK i : i = pcb[p].pagetable[k]
      OBVIOUS
    <3> QED
      BY <2>1, <3>1, <3>2
  <2> QED
    BY <2>2, <2>3 DEF PagesAhead
<1>13. ASSUME NEW b \in Nat, Batch(b) PROVE Batch(b)'
  BY <1>1, <1>2, <1>9, <1>13, UsesBatch
<1>14. Ran(cpu.pid) = Position(Current)
  <2>1. Ran(cpu.pid) = Position(pcb[cpu.pid]) + 0
    BY <1>2 DEF FlatIInv, Follows, InLine
  <2>2. Position(pcb[cpu.pid]) \in Nat
    BY <1>1, <1>2, PCBNumbers
  <2> QED
    BY <2>1, <2>2 DEF Current
<1> QED
  BY <1>1, <1>2, <1>3, <1>4, <1>5, <1>9, <1>10, <1>11, <1>12, <1>13, <1>14

\* The line goes to parseInput.
LEMMA GetLineFlat == ASSUME AllFlat, FlatIInv, get_line PROVE FlatIInv'
<1>1. /\ status = "ok" /\ cpu.at = "execute" /\ ~page_fault /\ CurrentLine # None /\ Touch
      /\ cpu' = [cpu EXCEPT !.at = "command", !.cmd = Command(CurrentLine)]
      /\ executed' = [executed EXCEPT ![cpu.pid] = Append(executed[cpu.pid], CurrentLine)]
      /\ UNCHANGED <<pid_counter, pcb, ready, status, text>>
  BY DEF get_line, Executing
<1>2. IInv' /\ IInv /\ Turns /\ Texts
  BY GetLineIInv, NoOneInHand, <1>1 DEF FlatIInv
<1>3. /\ cpu'.at = "command" /\ cpu'.pid = cpu.pid /\ cpu'.policy = cpu.policy /\ cpu'.quanta = cpu.quanta
      /\ cpu'.cmd = Command(CurrentLine)
  BY <1>1, <1>2 DEF IInv, QueueIntegrity, TypeOK
<1>4. PICK p, f, n, x : p = cpu.pid /\ f = CurrentFrame /\ n = Current.curr_page /\ x = CurrentLine
  OBVIOUS
<1>5. /\ p # 0 /\ p \in DOMAIN pcb /\ p \in Pids
      /\ Uses(f, n) /\ f \in Used
      /\ Stored' /\ PagesAhead' /\ \A b \in Nat : Batch(b) => Batch(b)'
      /\ Ran(p) = Position(Current) /\ n = Ran(p) \div 3
      /\ \A y \in Used : y # f /\ framestore[y].pid = p => framestore[y].page_number # n
  BY <1>1, <1>4, TouchFlat
<1>6. PICK e \in Nat, t \in Seq(Line), s \in Seq(Line) :
         e = Ran(p) /\ e = Len(s) /\ t = text[p] /\ s = executed[p]
  BY <1>2, <1>5, TextFacts DEF Ran
<1>7. e < Len(t) /\ x = t[e + 1] /\ x \in Line
  <2>1. x = IF e < Len(t) THEN t[e + 1] ELSE None
    BY <1>1, <1>4, <1>5, <1>6, NextLine
  <2>2. e < Len(t) /\ x = t[e + 1]
    BY <2>1, <1>1, <1>4
  <2>3. e + 1 \in 1..Len(t)
    BY <2>2, <1>6, LenProperties
  <2> QED
    BY <2>2, <2>3, <1>6, ElementOfSeq
<1>8. /\ DOMAIN executed = Pids /\ executed'[p] = Append(s, x)
      /\ \A q \in Pids : q # p => executed'[q] = executed[q]
      /\ Ran(p)' = e + 1 /\ Len(executed') = Len(executed) /\ executed' \in Seq(Seq(Line))
      /\ \A i \in 1..(e + 1) : executed'[p][i] = t[i]
  <2>1. DOMAIN executed = Pids
    BY <1>2, <1>5, TextFacts
  <2>2. executed'[p] = Append(s, x) /\ \A q \in Pids : q # p => executed'[q] = executed[q]
    BY <1>1, <1>4, <1>5, <1>6, <2>1
  <2>3. PICK a : a = Append(s, x)
    OBVIOUS
  <2>4. a \in Seq(Line) /\ Len(a) = e + 1 /\ a[e + 1] = x /\ \A i \in 1..e : a[i] = s[i]
    BY <2>3, <1>6, <1>7, AppendProperties
  <2>5. \A i \in 1..e : s[i] = t[i]
    BY <1>2, <1>5, <1>6 DEF Texts, Ran
  <2>6. \A i \in 1..(e + 1) : a[i] = t[i]
    BY <2>4, <2>5, <1>7
  <2>7. Len(executed') = Len(executed) /\ executed' \in Seq(Seq(Line))
    <3>1. executed \in Seq(Seq(Line)) /\ executed' = [executed EXCEPT ![p] = a] /\ p \in 1..Len(executed)
      BY <1>1, <1>2, <1>4, <1>5, <1>6, <2>1, <2>3, LenProperties DEF Texts
    <3> QED
      BY <3>1, <2>4, ExceptSeq
  <2> QED
    BY <2>1, <2>2, <2>3, <2>4, <2>6, <2>7 DEF Ran
<1>9. \A q \in Pids : q # p => Ran(q)' = Ran(q)
  BY <1>8 DEF Ran
<1>10. Pids' = Pids
  BY <1>1 DEF Pids
<1>11. Texts'
  <2>1. ASSUME NEW q \in Pids
        PROVE  /\ Ran(q)' <= Len(text[q]) /\ \A i \in 1..Ran(q)' : executed'[q][i] = text[q][i]
               /\ q \notin DOMAIN pcb => Ran(q)' = Len(text[q])
    <3>1. CASE q = p
      BY <3>1, <1>5, <1>6, <1>7, <1>8, LenProperties DEF Ran
    <3>2. CASE q # p
      BY <3>2, <1>2, <1>8, <1>9 DEF Texts
    <3> QED
      BY <3>1, <3>2
  <2> QED
    BY <2>1, <1>1, <1>2, <1>8, <1>10 DEF Texts
<1>12. ASSUME NEW q \in DOMAIN pcb PROVE Follows(q)'
  <2>1. Follows(q) /\ q \in Pids /\ Position(pcb[q]) \in Nat
    BY <1>2, PCBNumbers DEF FlatIInv
  <2>2. OnTime(pcb'[q], text'[q]) /\ Position(pcb'[q]) = Position(pcb[q])
    BY <1>1, <2>1 DEF Follows
  <2>3. CASE q = p
    <3>1. Ran(q)' = Position(pcb[q]) + 1 /\ InLine(q)'
      BY <2>3, <1>3, <1>4, <1>5, <1>6, <1>8 DEF Current, InLine
    <3> QED
      BY <3>1, <2>2 DEF Follows
  <2>4. CASE q # p
    <3>1. ~InLine(q) /\ ~InLine(q)'
      BY <2>4, <1>3, <1>4 DEF InLine
    <3> QED
      BY <2>1, <2>2, <2>4, <3>1, <1>9 DEF Follows
  <2> QED
    BY <2>3, <2>4
<1>13. Newest(CurrentFrame)'
  <2>1. Newest(f)' /\ f' = f
    BY <1>2, <1>5, UsesNewest DEF FlatIInv
  <2>2. CurrentFrame' = f
    BY <1>1, <1>3, <1>4 DEF CurrentFrame, Current
  <2> QED
    BY <2>1, <2>2 DEF Newest
<1>14. cpu.policy = "RR" => InStep' /\ UsedLately'
  <2> SUFFICES ASSUME cpu.policy = "RR" PROVE InStep' /\ UsedLately'
    OBVIOUS
  <2>1. InStep /\ UsedLately /\ cpu.quanta \in {1, 2} /\ LinesNow = 2 - cpu.quanta /\ LinesNow \in Nat
    BY <1>1, <1>4, <1>5, TurnLines
  <2>2. LinesNow' = LinesNow + 1
    <3>1. LinesNow' = 2 - cpu.quanta + 1
      BY <2>1, <1>3 DEF LinesNow, Quanta
    <3> QED
      BY <2>1, <3>1
  <2>3. ASSUME NEW q \in DOMAIN pcb PROVE Early(q)' = Early(q)
    <3>1. Begun(q)' = Begun(q)
      <4>1. CASE q = p
        <5>1. Begun(p) = e - LinesNow
          BY <1>4, <1>6 DEF Begun
        <5>2. Begun(p)' = (e + 1) - (LinesNow + 1)
          BY <2>2, <1>3, <1>4, <1>8 DEF Begun
        <5>3. Begun(p)' = Begun(p)
          BY <5>1, <5>2, <1>6, <2>1
        <5> QED
          BY <4>1, <5>3 DEF Begun, Ran
      <4>2. CASE q # p
        <5>1. q \in Pids
          BY <1>2, PCBNumbers
        <5> QED
          BY <4>2, <5>1, <1>3, <1>4, <1>9 DEF Begun
      <4> QED
        BY <4>1, <4>2
    <3> QED
      BY <3>1 DEF Early
  <2>4. \A a, b : Precedes(a, b)' <=> Precedes(a, b)
    BY <1>1, <1>3 DEF Precedes, Before, Waiting
  <2>5. InStep'
    BY <2>1, <2>3, <2>4, <1>1, <1>3 DEF InStep
  <2>6. ASSUME NEW q \in Waiting', NEW k, NEW i, Ran(q)' >= 4, k \in ToRun(pcb[q])', i = pcb'[q].pagetable[k]
        PROVE  Recent(i, q)'
    <3>1. q \in Waiting /\ q # p /\ q \in DOMAIN pcb /\ q \in Pids
      BY <1>1, <1>2, <1>4, <1>5, InHand, PCBNumbers DEF Waiting
    <3>2. Ran(q) >= 4 /\ k \in ToRun(pcb[q]) /\ i = pcb[q].pagetable[k]
      BY <1>1, <1>9, <2>6, <3>1
    <3>3. Recent(i, q)
      BY <2>1, <3>1, <3>2 DEF UsedLately
    <3>4. i \in Used /\ framestore[i].pid = q
      BY <3>1, <3>2, OwnPage
    <3>5. i # f
      BY <1>1, <1>4, <1>5, <3>1, <3>4, NextLine
    <3>6. \A a \in Pids : Precedes(a, q)' => /\ Precedes(a, q)
                                             /\ a = cpu.pid => /\ cpu'.pid = cpu.pid /\ LinesNow' = LinesNow + 1
                                                               /\ Ran(cpu.pid)' = Ran(cpu.pid) + 1
      <4>1. Ran(cpu.pid)' = Ran(cpu.pid) + 1
        BY <1>3, <1>4, <1>6, <1>8 DEF Ran
      <4> QED
        BY <4>1, <2>2, <2>4, <1>3
    <3> QED
      BY <3>1, <3>3, <3>4, <3>5, <3>6, <1>1, <1>4, <1>5, UsesRecent
  <2>7. UsedLately'
    BY <2>6, LatelyNext
  <2> QED
    BY <2>5, <2>7
<1>15. cpu.policy # "RR" => \A a, b \in DOMAIN pcb : a = b
  BY <1>2 DEF Turns
<1>16. \E b \in Pids' \cup {pid_counter'} : Batch(b)'
  <2>1. PICK b \in Pids \cup {pid_counter} : Batch(b)
    BY <1>2 DEF Turns
  <2>2. b \in Nat
    BY <1>2 DEF IInv, QueueIntegrity, TypeOK, Pids
  <2> QED
    BY <2>1, <2>2, <1>1, <1>5, <1>10
<1>17. cpu'.cmd.op \in {"echo", "quit"}
  BY <1>3, <1>4, <1>7, FlatLine
<1>18. Turns'
  BY <1>1, <1>3, <1>4, <1>5, <1>13, <1>14, <1>15, <1>16, <1>17 DEF Turns
<1> QED
  BY <1>1, <1>2, <1>5, <1>11, <1>12, <1>18 DEF FlatIInv

-----------------------------------------------------------------------------
(* A process ends.                                                         *)

\* The thread goes back to the scheduler: who waits keeps its place.
LEMMA OthersKeepTurn ==
    ASSUME FlatIInv, status = "ok", cpu.pid # 0, cpu'.pid = 0, ready' = ready,
           NEW x \in Pids, NEW q, Precedes(x, q)'
    PROVE  Precedes(x, q) /\ x # cpu.pid
<1>1. x # 0 /\ cpu.pid \notin Waiting
  BY InHand DEF FlatIInv, IInv, QueueIntegrity, TypeOK, Pids
<1>2. Before(ready, x, q)
  BY <1>1 DEF Precedes
<1>3. x \in Waiting
  BY <1>2, BeforeInside, WaitingRange
<1> QED
  BY <1>1, <1>2, <1>3 DEF Precedes

\* A process ends when it has run all its lines.
LEMMA TerminateFlat ==
    ASSUME FlatIInv, IInv', status = "ok", cpu.at = "execute", terminate_process,
           Ran(cpu.pid) = Len(text[cpu.pid]),
           Stored', PagesAhead', \A b \in Nat : Batch(b) => Batch(b)',
           cpu.policy = "RR" => \A q \in Waiting : \A i \in Used :
                                  framestore[i].pid = q /\ Recent(i, q) => Recent(i, q)'
    PROVE  FlatIInv'
<1>1. /\ cpu' = Rescheduled /\ pcb' = [p \in DOMAIN pcb \ {cpu.pid} |-> pcb[p]]
      /\ UNCHANGED <<ready, pid_counter, status, text, executed>>
  BY DEF terminate_process
<1>2. IInv /\ Turns /\ Texts /\ cpu.pid # 0
  BY NoOneInHand DEF FlatIInv
<1>3. cpu'.at = "schedule" /\ cpu'.pid = 0 /\ cpu'.policy = cpu.policy
  BY <1>1, <1>2 DEF IInv, QueueIntegrity, TypeOK, Rescheduled
<1>4. DOMAIN pcb' = DOMAIN pcb \ {cpu.pid} /\ \A p \in DOMAIN pcb' : pcb'[p] = pcb[p]
  BY <1>1
<1>5. Pids' = Pids /\ Waiting' = Waiting /\ DOMAIN pcb = Waiting \cup {cpu.pid} /\ cpu.pid \notin Waiting
  BY <1>1, <1>2, InHand DEF Pids, Waiting
<1>6. \A p : Ran(p)' = Ran(p)
  BY <1>1 DEF Ran
<1>7. Texts'
  <2>1. ASSUME NEW p \in Pids, p \notin DOMAIN pcb' PROVE Ran(p) = Len(text[p])
    <3>1. CASE p = cpu.pid
      BY <3>1
    <3>2. CASE p # cpu.pid
      BY <2>1, <3>2, <1>2, <1>4 DEF Texts
    <3> QED
      BY <3>1, <3>2
  <2> QED
    BY <2>1, <1>1, <1>2, <1>5, <1>6 DEF Texts
<1>8. ASSUME NEW p \in DOMAIN pcb' PROVE Follows(p)'
  <2>1. p \in DOMAIN pcb /\ pcb'[p] = pcb[p] /\ Follows(p)
    BY <1>4 DEF FlatIInv
  <2>2. ~InLine(p) /\ ~InLine(p)'
    BY <1>3 DEF InLine
  <2> QED
    BY <2>1, <2>2, <1>1, <1>6 DEF Follows, OnTime, Position
<1>9. cpu.policy = "RR" => InStep' /\ UsedLately'
  <2> SUFFICES ASSUME cpu.policy = "RR" PROVE InStep' /\ UsedLately'
    OBVIOUS
  <2>1. InStep /\ UsedLately
    BY <1>2, TurnLines
  <2>2. ASSUME NEW p \in DOMAIN pcb' PROVE Early(p)' = Early(p) /\ p \in Pids
    <3>1. p # cpu.pid /\ p # 0 /\ p \in Pids
      BY <1>2, <1>4, PCBNumbers
    <3> QED
      BY <3>1, <1>3, <1>6 DEF Early, Begun
  <2>3. \A p, q \in DOMAIN pcb' : Precedes(p, q)' => Precedes(p, q)
    BY <1>1, <1>2, <1>3, <2>2, OthersKeepTurn
  <2>4. InStep'
    BY <2>1, <2>2, <2>3, <1>3, <1>4 DEF InStep
  <2>5. ASSUME NEW q \in Waiting', NEW k, NEW i, Ran(q)' >= 4, k \in ToRun(pcb[q])', i = pcb'[q].pagetable[k]
        PROVE  Recent(i, q)'
    <3>1. q \in Waiting /\ q \in DOMAIN pcb /\ pcb'[q] = pcb[q]
      BY <1>4, <1>5
    <3>2. Ran(q) >= 4 /\ k \in ToRun(pcb[q]) /\ i = pcb[q].pagetable[k]
      BY <1>6, <2>5, <3>1
    <3>3. Recent(i, q) /\ i \in Used /\ framestore[i].pid = q
      BY <2>1, <3>1, <3>2, OwnPage DEF UsedLately
    <3> QED
      BY <3>1, <3>3
  <2>6. UsedLately'
    BY <2>5, LatelyNext
  <2> QED
    BY <2>4, <2>6
<1>10. cpu.policy # "RR" => \A p, q \in DOMAIN pcb' : p = q
  BY <1>2, <1>4 DEF Turns
<1>11. \E b \in Pids' \cup {pid_counter'} : Batch(b)'
  <2>1. PICK b \in Pids \cup {pid_counter} : Batch(b)
    BY <1>2 DEF Turns
  <2>2. b \in Nat
    BY <1>2 DEF IInv, QueueIntegrity, TypeOK, Pids
  <2> QED
    BY <2>1, <2>2, <1>1, <1>5
<1>12. Turns'
  BY <1>3, <1>9, <1>10, <1>11 DEF Turns
<1> QED
  BY <1>1, <1>7, <1>8, <1>12 DEF FlatIInv

\* The rest of a text, when there is none.
LEMMA NothingAfter ==
    ASSUME NEW t \in Seq(Line), NEW n \in Nat
    PROVE  /\ After(t, n) = <<>> => Len(t) <= n
           /\ Len(t) <= n => After(t, n) = <<>>
           /\ n <= Len(t) => Len(After(t, n)) = Len(t) - n
<1>1. PICK m \in Nat : m = Len(t) /\ DOMAIN t = 1..m
  BY LenProperties
<1>2. PICK a : a = After(t, n) /\ a = SubSeq(t, n + 1, m)
  BY <1>1 DEF After
<1>3. a \in Seq(Line) /\ Len(a) = IF n + 1 <= m THEN m - (n + 1) + 1 ELSE 0
  <2>1. n + 1 \in Nat /\ m \in Nat /\ \A i \in (n + 1)..m : i \in 1..m /\ t[i] \in Line
    BY <1>1, ElementOfSeq
  <2> QED
    BY <2>1, <1>2, SubSeqProperties
<1>4. a = <<>> <=> Len(a) = 0
  BY <1>3, EmptySeq
<1> QED
  BY <1>1, <1>2, <1>3, <1>4

\* No line is left in the page.
LEMMA NoneLineFlat == ASSUME FlatIInv, NoneLine PROVE FlatIInv'
<1>1. status = "ok" /\ cpu.at = "execute" /\ ~page_fault /\ CurrentLine = None /\ Touch /\ terminate_process
  BY DEF NoneLine, Executing
<1>2. IInv' /\ IInv /\ Turns
  BY <1>1, NoneLineIInv, NoOneInHand DEF FlatIInv
<1>3. /\ cpu' = Rescheduled /\ pcb' = [p \in DOMAIN pcb \ {cpu.pid} |-> pcb[p]]
      /\ UNCHANGED <<ready, pid_counter, status, text, executed>>
  BY <1>1 DEF terminate_process
<1>4. cpu'.pid = 0
  BY <1>2, <1>3 DEF IInv, QueueIntegrity, TypeOK, Rescheduled
<1>5. PICK p, f, n : p = cpu.pid /\ f = CurrentFrame /\ n = Current.curr_page
  OBVIOUS
<1>6. DOMAIN pcb' \subseteq DOMAIN pcb /\ \A q \in DOMAIN pcb' : pcb'[q] = pcb[q]
  BY <1>3
<1>7. /\ p # 0 /\ p \in DOMAIN pcb /\ p \in Pids
      /\ Uses(f, n) /\ f \in Used
      /\ Stored' /\ PagesAhead' /\ \A b \in Nat : Batch(b) => Batch(b)'
      /\ Ran(p) = Position(Current) /\ n = Ran(p) \div 3
      /\ \A y \in Used : y # f /\ framestore[y].pid = p => framestore[y].page_number # n
  BY <1>1, <1>3, <1>5, <1>6, TouchFlat
<1>8. Ran(p) = Len(text[p])
  <2>1. PICK e \in Nat, t \in Seq(Line) : e = Ran(p) /\ t = text[p] /\ e <= Len(t)
    BY <1>2, <1>7, TextFacts DEF FlatIInv
  <2>2. ASSUME e < Len(t) PROVE FALSE
    <3>1. None = t[e + 1]
      BY <2>1, <2>2, <1>1, <1>5, <1>7, NextLine
    <3>2. e + 1 \in 1..Len(t)
      BY <2>1, <2>2, LenProperties
    <3> QED
      BY <3>1, <3>2, ElementOfSeq, NoneNoLine
  <2>3. Len(t) \in Nat
    BY LenProperties
  <2> QED
    BY <2>1, <2>2, <2>3
<1>9. ASSUME cpu.policy = "RR", NEW q \in Waiting, NEW i \in Used, framestore[i].pid = q, Recent(i, q)
      PROVE  Recent(i, q)'
  <2>1. i # f
    <3>1. framestore[f].pid = p
      BY <1>1, <1>5, <1>7, NextLine
    <3> QED
      BY <3>1, <1>2, <1>1, <1>5, <1>7, <1>9, InHand
  <2>2. \A x \in Pids : Precedes(x, q)' => Precedes(x, q) /\ x # cpu.pid
    BY <1>1, <1>3, <1>4, <1>5, <1>7, OthersKeepTurn
  <2> QED
    BY <2>1, <2>2, <1>1, <1>5, <1>7, <1>9, UsesRecent
<1> QED
  BY <1>1, <1>2, <1>5, <1>7, <1>8, <1>9, TerminateFlat

\* No page is left in the file.
LEMMA EndOfFileFlat == ASSUME FlatIInv, EndOfFile PROVE FlatIInv'
<1>1. /\ status = "ok" /\ cpu.at = "execute" /\ page_fault /\ Current.fp = <<>> /\ terminate_process
      /\ UNCHANGED <<framestore, timer>>
  BY DEF EndOfFile, Executing
<1>2. IInv' /\ IInv /\ Turns /\ cpu.pid # 0
  BY <1>1, EndOfFileIInv, NoOneInHand DEF FlatIInv
<1>3. /\ cpu' = Rescheduled /\ pcb' = [p \in DOMAIN pcb \ {cpu.pid} |-> pcb[p]]
      /\ UNCHANGED <<ready, pid_counter, status, text, executed>>
  BY <1>1 DEF terminate_process
<1>4. cpu'.pid = 0
  BY <1>2, <1>3 DEF IInv, QueueIntegrity, TypeOK, Rescheduled
<1>5. DOMAIN pcb' \subseteq DOMAIN pcb /\ \A q \in DOMAIN pcb' : pcb'[q] = pcb[q]
  BY <1>3
<1>6. Used' = Used /\ Pids' = Pids
  BY <1>1, <1>3 DEF Used, FreeFrames, Pids
<1>7. cpu.pid \in DOMAIN pcb /\ cpu.pid \in Pids
  BY <1>1, <1>2, InHand
<1>8. Ran(cpu.pid) = Len(text[cpu.pid])
  <2> DEFINE c == pcb[cpu.pid]
  <2>1. PICK e \in Nat, t \in Seq(Line) : e = Ran(cpu.pid) /\ t = text[cpu.pid] /\ e <= Len(t)
    BY <1>2, <1>7, TextFacts DEF FlatIInv
  <2>2. c.num_pages \in Nat /\ c.curr_page \in Nat /\ c.curr_line \in 0..2
        /\ Position(c) = 3 * c.curr_page + c.curr_line /\ c.curr_page >= c.num_pages
    BY <1>1, <1>2, <1>7, <2>1, PCBNumbers DEF page_fault, Current
  <2>3. e = Position(c) + 0
    BY <1>1, <1>7, <2>1 DEF FlatIInv, Follows, InLine
  <2>4. After(t, 3 * c.num_pages) = <<>>
    BY <1>1, <1>7, <2>1, AheadPages DEF FlatIInv, Current
  <2>5. Len(t) <= 3 * c.num_pages /\ Len(t) \in Nat
    <3>1. 3 * c.num_pages \in Nat
      BY <2>2
    <3> QED
      BY <2>4, <3>1, NothingAfter, LenProperties
  <2>6. e >= 3 * c.num_pages
    BY <2>2, <2>3
  <2>7. e = Len(t)
    BY <2>1, <2>2, <2>5, <2>6
  <2> QED
    BY <2>1, <2>7
<1>9. Stored'
  <2>1. Stored
    BY DEF FlatIInv
  <2> QED
    BY <2>1, <1>1, <1>3, <1>5, <1>6 DEF Stored
<1>10. PagesAhead'
  <2>1. PagesAhead
    BY DEF FlatIInv
  <2> QED
    BY <2>1, <1>1, <1>3, <1>5 DEF PagesAhead
<1>11. ASSUME NEW b \in Nat, Batch(b) PROVE Batch(b)'
  BY <1>1, <1>3, <1>5, <1>6, <1>11 DEF Batch, Starters
<1>12. ASSUME cpu.policy = "RR", NEW q \in Waiting, NEW i \in Used, framestore[i].pid = q, Recent(i, q)
       PROVE  Recent(i, q)'
  <2>1. Since(i)' = Since(i) /\ Since(i) \subseteq Used
    BY <1>1, <1>6 DEF Since
  <2>2. \A x, y : SamePlace(x, y)' <=> SamePlace(x, y)
    BY <1>1 DEF SamePlace
  <2>3. \A x, y \in Since(i)' : SamePlace(x, y)' => x = y
    BY <1>12, <2>1, <2>2 DEF Recent
  <2>4. ASSUME NEW x \in Since(i)', Precedes(framestore[x].pid, q)' PROVE FALSE
    <3>1. PICK p : p = framestore[x].pid /\ p = framestore'[x].pid
      BY <1>1
    <3>2. p \in Pids /\ Precedes(p, q)'
      BY <2>1, <2>4, <3>1 DEF FlatIInv, Stored
    <3>3. Precedes(p, q) /\ p # cpu.pid
      BY <1>1, <1>2, <1>3, <1>4, <3>2, OthersKeepTurn
    <3> QED
      BY <1>12, <2>1, <3>1, <3>3 DEF Recent
  <2> QED
    BY <2>3, <2>4 DEF Recent
<1> QED
  BY <1>1, <1>2, <1>8, <1>9, <1>10, <1>11, <1>12, TerminateFlat

-----------------------------------------------------------------------------
(* A line is done.                                                         *)

\* The process in hand goes back to the end of the queue.
LEMMA RequeueOrder ==
    ASSUME FlatIInv, status = "ok", cpu.policy = "RR", cpu.pid # 0, Requeue
    PROVE  /\ cpu'.pid = 0 /\ cpu'.at = "schedule" /\ cpu'.policy = "RR"
           /\ Waiting' = Waiting \cup {cpu.pid}
           /\ \A x \in Pids : \A q : Precedes(x, q)' =>
                 x \in Waiting /\ x # cpu.pid /\ ((q \in Waiting /\ Precedes(x, q)) \/ q = cpu.pid)
<1>1. IInv /\ cpu.pid \in Pids /\ cpu.pid \notin Waiting
  BY InHand DEF FlatIInv
<1>2. cpu' = Rescheduled /\ ready' = Append(ready, cpu.pid)
  BY DEF Requeue
<1>3. cpu'.pid = 0 /\ cpu'.at = "schedule" /\ cpu'.policy = "RR"
  BY <1>1, <1>2 DEF IInv, QueueIntegrity, TypeOK, Rescheduled
<1>4. ready \in Seq(Pids) /\ 0 \notin Pids
  BY <1>1 DEF IInv, QueueIntegrity, TypeOK, Pids
<1>5. PICK p : p = cpu.pid
  OBVIOUS
<1>6. Waiting' = Waiting \cup {p}
  <2>1. Range(Append(ready, p)) = Range(ready) \cup {p}
    <3>1. PICK r \in Nat : r = Len(ready) /\ DOMAIN ready = 1..r
      BY <1>4, LenProperties
    <3>2. PICK t : t = Append(ready, p)
      OBVIOUS
    <3>3. t \in Seq(Pids) /\ Len(t) = r + 1 /\ t[r + 1] = p /\ \A i \in 1..r : t[i] = ready[i]
      BY <1>1, <1>4, <1>5, <3>1, <3>2, AppendProperties
    <3>4. DOMAIN t = 1..(r + 1)
      BY <3>3, LenProperties
    <3>5. Range(t) = Range(ready) \cup {p}
      <4>1. \A i \in 1..(r + 1) : i \in 1..r \/ i = r + 1
        OBVIOUS
      <4>2. \A i \in 1..r : i \in 1..(r + 1)
        OBVIOUS
      <4>3. r + 1 \in 1..(r + 1)
        OBVIOUS
      <4> QED
        BY <3>1, <3>3, <3>4, <4>1, <4>2, <4>3 DEF Range
    <3> QED
      BY <3>2, <3>5
  <2>2. Waiting' = Range(Append(ready, p))
    BY <1>2, <1>5 DEF Waiting, Range
  <2> QED
    BY <2>1, <2>2, WaitingRange
<1>7. ASSUME NEW x \in Pids, NEW q, Precedes(x, q)'
      PROVE  x \in Waiting /\ x # cpu.pid /\ ((q \in Waiting /\ Precedes(x, q)) \/ q = cpu.pid)
  <2>1. Before(Append(ready, p), x, q)
    BY <1>2, <1>3, <1>4, <1>5, <1>7 DEF Precedes
  <2>2. x \in Range(ready) /\ (Before(ready, x, q) \/ q = p)
    BY <1>1, <1>4, <1>5, <2>1, BeforeAppend, WaitingRange
  <2>3. Before(ready, x, q) => q \in Range(ready)
    BY BeforeInside
  <2> QED
    BY <2>2, <2>3, <1>1, <1>5, WaitingRange DEF Precedes
<1> QED
  BY <1>3, <1>5, <1>6, <1>7

\* The pages that a waiting process will run stay recent when another goes back
\* to the queue.
LEMMA RequeueRecent ==
    ASSUME FlatIInv, status = "ok", cpu.policy = "RR", cpu.pid # 0, Requeue,
           framestore' = framestore, NEW q \in Waiting, NEW i, Recent(i, q)
    PROVE  Recent(i, q)'
<1>1. cpu.pid \notin Waiting
  BY InHand DEF FlatIInv
<1>2. Since(i)' = Since(i) /\ Since(i) \subseteq Used
  BY DEF Since, Used, FreeFrames
<1>3. \A x, y : SamePlace(x, y)' <=> SamePlace(x, y)
  BY DEF SamePlace
<1>4. \A x, y \in Since(i)' : SamePlace(x, y)' => x = y
  BY <1>2, <1>3 DEF Recent
<1>5. ASSUME NEW x \in Since(i)', Precedes(framestore[x].pid, q)' PROVE FALSE
  <2>1. PICK p : p = framestore[x].pid /\ p = framestore'[x].pid
    OBVIOUS
  <2>2. p \in Pids /\ Precedes(p, q)'
    BY <1>2, <1>5, <2>1 DEF FlatIInv, Stored
  <2>3. Precedes(p, q) /\ p # cpu.pid
    BY <1>1, <2>2, RequeueOrder
  <2> QED
    BY <1>2, <2>1, <2>3 DEF Recent
<1> QED
  BY <1>4, <1>5 DEF Recent

\* The turns stay in step when a process goes back after lines that bring it to
\* the next turn.
LEMMA RequeueInStep ==
    ASSUME FlatIInv, status = "ok", cpu.policy = "RR", cpu.pid # 0, Requeue, executed' = executed,
           DOMAIN pcb' = DOMAIN pcb,
           \/ Ran(cpu.pid) = Begun(cpu.pid) + 2
           \/ Early(cpu.pid) = 6 /\ Ran(cpu.pid) >= 6
    PROVE  InStep'
<1>1. IInv /\ InStep /\ cpu.pid \in DOMAIN pcb /\ Ran(cpu.pid) \in Nat /\ LinesNow \in 0..2
      /\ DOMAIN pcb = Waiting \cup {cpu.pid} /\ cpu.pid \notin Waiting
  BY TurnLines, InHand DEF FlatIInv
<1>2. PICK p : p = cpu.pid
  OBVIOUS
<1>3. PICK e \in Nat, b \in Int : e = Ran(p) /\ b = Begun(p) /\ b = e - LinesNow
  <2>1. Ran(p) \in Nat /\ Begun(p) = Ran(p) - LinesNow
    BY <1>1, <1>2 DEF Begun
  <2> QED
    BY <2>1, <1>1
<1>4. /\ cpu'.pid = 0
      /\ \A x \in Pids : \A q : Precedes(x, q)' =>
                 x \in Waiting /\ x # cpu.pid /\ ((q \in Waiting /\ Precedes(x, q)) \/ q = cpu.pid)
  BY RequeueOrder
<1>5. ASSUME NEW q \in DOMAIN pcb PROVE q \in Pids /\ q # 0 /\ Begun(q)' = Ran(q)
  <2>1. q \in Pids /\ q # 0
    BY <1>1, PCBNumbers
  <2> QED
    BY <2>1, <1>4 DEF Begun, Ran
<1>6. ASSUME NEW q \in Waiting PROVE Early(q)' = Early(q) /\ q # p /\ q \in DOMAIN pcb
  <2>1. q # p /\ q \in DOMAIN pcb
    BY <1>1, <1>2
  <2>2. Begun(q) = Ran(q)
    BY <2>1, <1>2 DEF Begun
  <2> QED
    BY <2>1, <2>2, <1>5 DEF Early
<1>7. PICK a, c \in Int : a = Early(p) /\ c = Early(p)' /\ a \in {0, 2, 4, 6}
                          /\ a = (IF b < 6 THEN b ELSE 6) /\ c = (IF e < 6 THEN e ELSE 6)
  <2>1. Early(p) = IF b < 6 THEN b ELSE 6
    BY <1>3 DEF Early
  <2>2. Early(p)' = IF e < 6 THEN e ELSE 6
    <3>1. Begun(p)' = e
      BY <1>1, <1>2, <1>3, <1>5
    <3> QED
      BY <3>1 DEF Early
  <2> QED
    BY <2>1, <2>2, <1>1, <1>2, <1>3 DEF InStep
<1>8. c \in {0, 2, 4, 6} /\ (c = a + 2 \/ (a = 6 /\ c = 6))
  <2>1. e = b + 2 \/ (a = 6 /\ e >= 6)
    BY <1>2, <1>3, <1>7
  <2>2. CASE a = 6 /\ e >= 6
    BY <2>2, <1>7
  <2>3. CASE e = b + 2
    BY <2>3, <1>3, <1>7
  <2> QED
    BY <2>1, <2>2, <2>3
<1>9. ASSUME NEW x \in DOMAIN pcb, NEW q \in DOMAIN pcb, Precedes(x, q)'
      PROVE  Early(x)' <= Early(q)' /\ Early(q)' <= Early(x)' + 2
  <2>1. x \in Waiting /\ ((q \in Waiting /\ Precedes(x, q)) \/ q = p)
    BY <1>2, <1>4, <1>5, <1>9
  <2>2. CASE q \in Waiting /\ Precedes(x, q)
    BY <2>1, <2>2, <1>1, <1>6 DEF InStep
  <2>3. CASE q = p
    <3>1. Precedes(p, x)
      BY <2>1, <1>2 DEF Precedes
    <3>2. PICK y \in {0, 2, 4, 6} : y = Early(x)
      BY <1>1 DEF InStep
    <3>3. a <= y /\ y <= a + 2
      BY <3>1, <3>2, <1>1, <1>2, <1>7 DEF InStep
    <3>4. y <= c /\ c <= y + 2
      BY <3>2, <3>3, <1>7, <1>8
    <3>5. Early(x)' = y
      BY <2>1, <3>2, <1>6
    <3>6. Early(q)' = c
      <4>1. Begun(q)' = Ran(q) /\ Begun(p)' = Ran(p) /\ Ran(q) = Ran(p)
        BY <2>3, <1>1, <1>2, <1>5
      <4> QED
        BY <4>1, <1>7 DEF Early
    <3> QED
      BY <3>4, <3>5, <3>6
  <2> QED
    BY <2>1, <2>2, <2>3
<1>10. ASSUME NEW q \in DOMAIN pcb PROVE Early(q)' \in {0, 2, 4, 6}
  <2>1. CASE q \in Waiting
    BY <2>1, <1>1, <1>6 DEF InStep
  <2>2. CASE q = p
    <3>1. Begun(q)' = Ran(q) /\ Begun(p)' = Ran(p) /\ Ran(q) = Ran(p)
      BY <2>2, <1>1, <1>2, <1>5
    <3>2. Early(q)' = Early(p)'
      BY <3>1 DEF Early
    <3> QED
      BY <3>2, <1>7, <1>8
  <2> QED
    BY <2>1, <2>2, <1>1, <1>2
<1> QED
  BY <1>4, <1>9, <1>10 DEF InStep

\* What the memory holds after a process has moved behind a line.
LEMMA AdvanceStore ==
    ASSUME FlatIInv, Advance
    PROVE  /\ cpu.pid # 0 /\ cpu.pid \in DOMAIN pcb /\ DOMAIN pcb' = DOMAIN pcb
           /\ \A q \in DOMAIN pcb : q # cpu.pid => pcb'[q] = pcb[q]
           /\ pcb'[cpu.pid].num_pages = Current.num_pages /\ pcb'[cpu.pid].pagetable = Current.pagetable
           /\ pcb'[cpu.pid].curr_page >= Current.curr_page
           /\ Position(pcb'[cpu.pid]) = Position(Current) + 1
           /\ Texts' /\ Stored' /\ PagesAhead'
           /\ \A b : Batch(b) => Batch(b)'
           /\ \A q \in DOMAIN pcb : ~InLine(q)' => Follows(q)'
           /\ Used' = Used /\ Pids' = Pids
<1>1. /\ status = "ok" /\ cpu.at = "advance"
      /\ pcb' = [pcb EXCEPT ![cpu.pid].curr_line = IF Current.curr_line = 2 THEN 0 ELSE Current.curr_line + 1,
                            ![cpu.pid].curr_page = IF Current.curr_line = 2 THEN Current.curr_page + 1
                                                                           ELSE Current.curr_page]
      /\ UNCHANGED <<framestore, timer, pid_counter, status, text, executed>>
  BY DEF Advance, Current
<1>2. IInv /\ cpu.pid # 0 /\ Texts /\ Stored /\ PagesAhead
  BY <1>1, NoOneInHand DEF FlatIInv
<1>3. PICK p : p = cpu.pid
  OBVIOUS
<1>4. p \in DOMAIN pcb /\ p \in Pids /\ ~page_fault
  BY <1>1, <1>2, <1>3, InHand DEF IInv, ThreadInHand
<1>5. PICK c : c = pcb[p] /\ c = Current
  BY <1>3 DEF Current
<1>6. /\ c.curr_page \in Nat /\ c.curr_line \in 0..2 /\ c.num_pages \in Nat
      /\ Position(c) = 3 * c.curr_page + c.curr_line /\ Position(c) \in Nat
      /\ c = [pagetable |-> c.pagetable, num_pages |-> c.num_pages, curr_page |-> c.curr_page,
              curr_line |-> c.curr_line, fp |-> c.fp]
  BY <1>2, <1>4, <1>5, PCBNumbers
<1>7. PICK d : d = pcb'[p]
  OBVIOUS
<1>8. PICK l, k : l = (IF c.curr_line = 2 THEN 0 ELSE c.curr_line + 1)
                  /\ k = (IF c.curr_line = 2 THEN c.curr_page + 1 ELSE c.curr_page)
  OBVIOUS
<1>9. /\ DOMAIN pcb' = DOMAIN pcb /\ \A q \in DOMAIN pcb : q # p => pcb'[q] = pcb[q]
      /\ d.num_pages = c.num_pages /\ d.pagetable = c.pagetable /\ d.fp = c.fp
      /\ d.curr_page = k /\ d.curr_line = l
  <2>1. pcb' = [pcb EXCEPT ![p].curr_line = l, ![p].curr_page = k]
    BY <1>1, <1>3, <1>5, <1>8
  <2>2. DOMAIN pcb' = DOMAIN pcb /\ (\A q \in DOMAIN pcb : q # p => pcb'[q] = pcb[q])
        /\ pcb'[p] = [c EXCEPT !.curr_line = l, !.curr_page = k]
    BY <2>1, <1>4, <1>5
  <2>3. c \in [pagetable : {c.pagetable}, num_pages : {c.num_pages}, curr_page : {c.curr_page},
               curr_line : {c.curr_line}, fp : {c.fp}]
    BY <1>6
  <2> QED
    BY <2>2, <2>3, <1>7
<1>10. k >= c.curr_page /\ Position(d) = Position(c) + 1 /\ k \in Nat /\ l \in 0..2
  BY <1>6, <1>8, <1>9 DEF Position
<1>11. Used' = Used /\ Pids' = Pids
  BY <1>1 DEF Used, FreeFrames, Pids
<1>12. Texts'
  BY <1>1, <1>2, <1>9, <1>11 DEF Texts, Ran
<1>13. Stored'
  <2>1. \A q \in DOMAIN pcb : pcb'[q].num_pages = pcb[q].num_pages
    BY <1>5, <1>7, <1>9
  <2> QED
    BY <2>1, <1>1, <1>2, <1>9, <1>11 DEF Stored
<1>14. PagesAhead'
  <2>1. ASSUME NEW q \in DOMAIN pcb
        PROVE  /\ pcb'[q].num_pages = pcb[q].num_pages /\ pcb'[q].pagetable = pcb[q].pagetable /\ pcb'[q].fp = pcb[q].fp
               /\ \A j \in pcb'[q].curr_page..(pcb'[q].num_pages - 1) : j \in pcb[q].curr_page..(pcb[q].num_pages - 1)
    <3>1. CASE q = p
      BY <3>1, <1>5, <1>6, <1>7, <1>9, <1>10
    <3>2. CASE q # p
      BY <3>2, <1>9
    <3> QED
      BY <3>1, <3>2
  <2> QED
    BY <2>1, <1>1, <1>2, <1>9 DEF PagesAhead
<1>15. ASSUME NEW b, Batch(b) PROVE Batch(b)'
  BY <1>1, <1>9, <1>11, <1>15 DEF Batch, Starters
<1>16. ASSUME NEW q \in DOMAIN pcb, ~InLine(q)' PROVE Follows(q)'
  <2>1. Follows(q) /\ Ran(q)' = Ran(q)
    BY <1>1 DEF FlatIInv, Ran
  <2>2. CASE q = p
    <3>1. Ran(p) = Position(c) + 1 /\ OnTime(c, text[p])
      BY <2>1, <2>2, <1>1, <1>3, <1>5 DEF Follows, InLine
    <3>2. c.curr_page < c.num_pages
      BY <1>4, <1>5, <1>6 DEF page_fault
    <3>3. Position(d) \in Nat /\ Position(d) <= 3 * c.num_pages
      BY <3>2, <1>6, <1>10
    <3>4. OnTime(d, text[p])
      BY <3>1, <3>3, <1>6, <1>9, <1>10 DEF OnTime
    <3>5. Ran(q)' = Position(pcb'[q]) + 0 /\ OnTime(pcb'[q], text'[q])
      BY <2>1, <2>2, <3>1, <3>3, <3>4, <1>1, <1>7, <1>10
    <3> QED
      BY <3>5, <1>16 DEF Follows
  <2>3. CASE q # p
    <3>1. ~InLine(q) /\ pcb'[q] = pcb[q]
      BY <2>3, <1>3, <1>9 DEF InLine
    <3> QED
      BY <2>1, <3>1, <1>1, <1>16 DEF Follows
  <2> QED
    BY <2>2, <2>3
<1> QED
  BY <1>2, <1>3, <1>4, <1>5, <1>7, <1>9, <1>10, <1>11, <1>12, <1>13, <1>14, <1>15, <1>16

\* The page of the line that a process has just run is the only one it will run
\* of those loaded, from its fourth line on.
LEMMA LastPage ==
    ASSUME FlatIInv, Advance, Ran(cpu.pid) >= 4, NEW k \in ToRun(pcb'[cpu.pid])
    PROVE  pcb'[cpu.pid].pagetable[k] = CurrentFrame /\ Newest(CurrentFrame) /\ CurrentFrame \in Used
           /\ framestore[CurrentFrame].pid = cpu.pid
<1>0. PICK p : p = cpu.pid
  OBVIOUS
<1>1. status = "ok" /\ cpu.at = "advance" /\ cpu.pid # 0 /\ IInv /\ Turns
  BY NoOneInHand DEF Advance, FlatIInv
<1>2. ~page_fault /\ p \in DOMAIN pcb
  BY <1>0, <1>1, InHand DEF IInv, ThreadInHand
<1>3. Newest(CurrentFrame) /\ CurrentFrame \in Used /\ framestore[CurrentFrame].pid = p
  BY <1>0, <1>1, <1>2, NextLine DEF Turns
<1>4. PICK c, d : c = pcb[p] /\ d = pcb'[p]
  OBVIOUS
<1>5. /\ c.curr_page \in Nat /\ c.curr_line \in 0..2 /\ c.num_pages \in Nat
      /\ Position(c) = 3 * c.curr_page + c.curr_line /\ Position(c) \in Nat
  BY <1>1, <1>2, <1>4, PCBNumbers
<1>6. d.num_pages = c.num_pages /\ d.pagetable = c.pagetable /\ d.curr_page >= c.curr_page
      /\ Position(d) = Position(c) + 1
  BY <1>0, <1>4, AdvanceStore DEF Current
<1>7. Ran(p) = Position(c) + 1 /\ OnTime(c, text[p])
  <2>1. Follows(p) /\ InLine(p)
    BY <1>0, <1>1, <1>2 DEF FlatIInv, InLine
  <2> QED
    BY <2>1, <1>4 DEF Follows
<1>8. d.curr_page \in Nat /\ d.curr_line \in 0..2
  <2>1. IInv' /\ p \in DOMAIN pcb'
    BY <1>0, AdvanceStore, AdvanceIInv DEF FlatIInv
  <2>2. IsPCB(pcb[p])'
    BY <2>1 DEF IInv, QueueIntegrity, TypeOK
  <2>3. IsPCB(d)
    BY <2>2, <1>4 DEF IsPCB, Line, Frames
  <2> QED
    BY <2>3 DEF IsPCB
<1>9. k \in d.curr_page..(c.num_pages - 1) /\ Position(d) = 3 * d.curr_page + d.curr_line
  <2>1. k \in pcb'[p].curr_page..(pcb'[p].num_pages - 1)
    BY <1>0 DEF ToRun
  <2> QED
    BY <2>1, <1>4, <1>6 DEF Position
<1>10. Position(c) >= 3
  <2>1. Ran(p) >= 4
    BY <1>0
  <2> QED
    BY <2>1, <1>5, <1>7
<1>11. k = c.curr_page
  <2>1. c.num_pages > 2 => 3 * (c.num_pages - 1) <= Position(c)
    BY <1>7 DEF OnTime
  <2>2. c.curr_page < c.num_pages
    BY <1>0, <1>2, <1>4, <1>5 DEF page_fault, Current
  <2>3. CASE c.num_pages > 2
    <3>1. c.curr_page = c.num_pages - 1
      BY <2>1, <2>2, <2>3, <1>5
    <3> QED
      BY <3>1, <1>5, <1>6, <1>8, <1>9
  <2>4. CASE c.num_pages <= 2
    <3>1. c.curr_page = 1 /\ c.num_pages = 2
      BY <2>2, <2>4, <1>5, <1>10
    <3> QED
      BY <3>1, <1>5, <1>6, <1>8, <1>9
  <2> QED
    BY <2>3, <2>4, <1>5
<1> QED
  BY <1>0, <1>3, <1>4, <1>6, <1>11 DEF CurrentFrame, Current

\* parseInput has returned.
LEMMA AdvanceFlat == ASSUME FlatIInv, Advance PROVE FlatIInv'
<1>1. /\ status = "ok" /\ cpu.at = "advance" /\ UNCHANGED <<framestore, timer, pid_counter, status, text, executed>>
      /\ IF cpu.quanta = 1
         THEN Requeue
         ELSE /\ cpu' = [cpu EXCEPT !.at = "execute", !.quanta = cpu.quanta - 1, !.cmd = NoCommand]
              /\ UNCHANGED ready
  BY DEF Advance
<1>2. IInv' /\ IInv /\ Turns /\ cpu.pid # 0
  BY <1>1, AdvanceIInv, NoOneInHand DEF FlatIInv
<1>3. PICK p : p = cpu.pid
  OBVIOUS
<1>4. /\ p \in DOMAIN pcb /\ DOMAIN pcb' = DOMAIN pcb
      /\ \A q \in DOMAIN pcb : q # p => pcb'[q] = pcb[q]
      /\ Texts' /\ Stored' /\ PagesAhead' /\ (\A b : Batch(b) => Batch(b)') /\ Pids' = Pids /\ Used' = Used
      /\ \A q \in DOMAIN pcb : ~InLine(q)' => Follows(q)'
  BY <1>3, AdvanceStore
<1>5. /\ cpu'.at \in {"execute", "schedule"} /\ cpu'.policy = cpu.policy
      /\ cpu.quanta # 1 => cpu'.at = "execute" /\ cpu'.pid = cpu.pid /\ cpu'.quanta = cpu.quanta - 1
      /\ cpu.quanta = 1 => cpu'.pid = 0
  <2>1. cpu \in [at : {"prompt", "command", "schedule", "execute", "advance"}, pid : Pids \cup {0},
                 quanta : 0..MAX_INT, policy : Policies, cmd : {cpu.cmd}]
    BY <1>2 DEF IInv, QueueIntegrity, TypeOK
  <2>2. CASE cpu.quanta = 1
    <3>1. cpu' = [cpu EXCEPT !.at = "schedule", !.pid = 0, !.quanta = 0, !.cmd = NoCommand]
      BY <1>1, <2>2 DEF Requeue, Rescheduled
    <3> QED
      BY <2>1, <2>2, <3>1
  <2>3. CASE cpu.quanta # 1
    <3>1. cpu' = [cpu EXCEPT !.at = "execute", !.quanta = cpu.quanta - 1, !.cmd = NoCommand]
      BY <1>1, <2>3
    <3> QED
      BY <2>1, <2>3, <3>1
  <2> QED
    BY <2>2, <2>3
<1>6. \A q \in DOMAIN pcb : Follows(q)'
  BY <1>4, <1>5 DEF InLine
<1>7. p \notin Waiting /\ DOMAIN pcb = Waiting \cup {p}
  BY <1>1, <1>2, <1>3, InHand
<1>8. ASSUME cpu.policy = "RR", cpu.quanta = 1 PROVE InStep' /\ UsedLately'
  <2>1. InStep /\ UsedLately /\ LinesNow = 2 - cpu.quanta + 1 /\ Ran(p) \in Nat
    BY <1>1, <1>2, <1>3, <1>8, TurnLines
  <2>2. Ran(p) = Begun(p) + 2
    <3>1. Begun(p) = Ran(p) - 2
      BY <1>3, <1>8, <2>1 DEF Begun
    <3> QED
      BY <2>1, <3>1
  <2>3. InStep'
    BY <2>2, <1>1, <1>2, <1>3, <1>4, <1>8, RequeueInStep
  <2>4. ASSUME NEW q \in Waiting', NEW k, NEW i, Ran(q)' >= 4, k \in ToRun(pcb[q])', i = pcb'[q].pagetable[k]
        PROVE  Recent(i, q)'
    <3>1. Ran(q) >= 4 /\ k \in ToRun(pcb'[q])
      BY <1>1, <2>4 DEF Ran, ToRun
    <3>2. CASE q \in Waiting
      <4>1. pcb'[q] = pcb[q]
        BY <1>4, <1>7, <3>2
      <4>2. Recent(i, q)
        BY <2>1, <2>4, <3>1, <3>2, <4>1 DEF UsedLately
      <4> QED
        BY <4>2, <3>2, <1>1, <1>2, <1>8, RequeueRecent
    <3>3. CASE q = p
      <4>1. i = CurrentFrame /\ Newest(i) /\ i \in Used /\ framestore[i].pid = p
        BY <1>3, <2>4, <3>1, <3>3, LastPage
      <4>2. Since(i)' = {i}
        <5>1. Since(i) = {i}
          <6>0. \A j \in Used : framestore[j].last_used \in Nat
            BY <1>2, UsedFrame
          <6>1. ASSUME NEW j \in Used, j # i PROVE ~(framestore[j].last_used >= framestore[i].last_used)
            <7>1. framestore[j].last_used < framestore[i].last_used
              BY <4>1, <6>1 DEF Newest
            <7>2. framestore[j].last_used \in Nat /\ framestore[i].last_used \in Nat
              BY <4>1, <6>0
            <7> QED
              BY <7>1, <7>2
          <6>2. framestore[i].last_used >= framestore[i].last_used
            <7>1. framestore[i].last_used \in Nat
              BY <4>1, <6>0
            <7> QED
              BY <7>1
          <6> QED
            BY <4>1, <6>1, <6>2 DEF Since
        <5> QED
          BY <5>1, <1>1, <1>4 DEF Since
      <4>3. ~Precedes(framestore[i].pid, q)'
        <5>1. PICK x : x = framestore[i].pid /\ x = framestore'[i].pid
          BY <1>1
        <5>2. x = p /\ p \in Pids
          BY <1>2, <1>4, <4>1, <5>1, PCBNumbers
        <5>3. ~Precedes(x, q)'
          BY <1>1, <1>2, <1>3, <1>8, <5>2, RequeueOrder
        <5> QED
          BY <5>1, <5>3
      <4> QED
        BY <4>2, <4>3 DEF Recent
    <3> QED
      BY <1>1, <1>2, <1>3, <1>8, <2>4, <3>2, <3>3, RequeueOrder
  <2>5. UsedLately'
    BY <2>4, LatelyNext
  <2> QED
    BY <2>3, <2>5
<1>9. ASSUME cpu.policy = "RR", cpu.quanta # 1 PROVE InStep' /\ UsedLately'
  <2>1. cpu.quanta = 2 /\ LinesNow = 1 /\ Quanta = 2
    BY <1>1, <1>2, <1>9, TurnLines
  <2>2. cpu'.quanta = 1 /\ LinesNow' = 1
    BY <1>5, <1>9, <2>1 DEF LinesNow, Quanta
  <2>3. \A q \in Waiting : pcb'[q] = pcb[q]
    BY <1>4, <1>7
  <2> QED
    BY <2>1, <2>2, <2>3, <1>1, <1>2, <1>4, <1>5, <1>9, SameTurns
<1>10. cpu.policy # "RR" => \A x, y \in DOMAIN pcb' : x = y
  BY <1>2, <1>4 DEF Turns
<1>11. \E b \in Pids' \cup {pid_counter'} : Batch(b)'
  BY <1>1, <1>2, <1>4 DEF Turns
<1>12. Turns'
  BY <1>5, <1>8, <1>9, <1>10, <1>11 DEF Turns
<1> QED
  BY <1>1, <1>2, <1>4, <1>6, <1>12 DEF FlatIInv

-----------------------------------------------------------------------------
(* A page is fetched.                                                      *)

\* A part of a text.
LEMMA PartOf ==
    ASSUME NEW s \in Seq(Line), NEW a \in Nat, NEW e \in Nat, e <= Len(s),
           NEW p, p = SubSeq(s, a + 1, e), NEW l \in Nat, l = IF a <= e THEN e - a ELSE 0
    PROVE  p \in Seq(Line) /\ Len(p) = l /\ \A i \in 1..l : p[i] = s[a + i]
<1>1. PICK m \in Nat : m = Len(s) /\ DOMAIN s = 1..m
  BY LenProperties
<1>3. /\ p \in Seq(Line) /\ Len(p) = (IF a + 1 <= e THEN e - (a + 1) + 1 ELSE 0)
      /\ \A i \in 1..(e - (a + 1) + 1) : p[i] = s[a + 1 + i - 1]
  <2>1. a + 1 \in Nat /\ e \in Nat /\ \A i \in (a + 1)..e : s[i] \in Line
    <3>1. \A i \in (a + 1)..e : i \in 1..m
      BY <1>1
    <3> QED
      BY <3>1, <1>1, ElementOfSeq
  <2> QED
    BY <2>1, SubSeqProperties
<1>4. ASSUME NEW i \in 1..l PROVE p[i] = s[a + i]
  <2>1. i \in 1..(e - (a + 1) + 1) /\ a + 1 + i - 1 = a + i
    BY <1>3
  <2> QED
    BY <1>3, <2>1
<1> QED
  BY <1>3, <1>4

\* What fgets reads of the open file: the next page of the text.
LEMMA NextChunk ==
    ASSUME NEW t \in Seq(Line), NEW n \in Nat, 3 * n < Len(t)
    PROVE  /\ Chunk(After(t, 3 * n), 0) = Chunk(t, n)
           /\ After(After(t, 3 * n), Len(Chunk(t, n))) = After(t, 3 * (n + 1))
<1>1. PICK m \in Nat : m = Len(t) /\ 3 * n < m
  BY LenProperties
<1>2. PICK k \in Nat, k3 \in Nat, r \in Nat : k = 3 * n /\ k3 = 3 * (n + 1) /\ k3 = k + 3 /\ r = m - k /\ r >= 1
  <2>1. PICK k \in Nat : k = 3 * n
    OBVIOUS
  <2>2. 3 * (n + 1) = k + 3 /\ k + 3 \in Nat
    BY <2>1
  <2>3. m - k \in Nat /\ m - k >= 1
    BY <1>1, <2>1
  <2> QED
    BY <2>1, <2>2, <2>3
<1>3. PICK l \in Nat, e \in Nat : l = (IF r < 3 THEN r ELSE 3) /\ e = k + l /\ e <= m /\ l <= r
                                 /\ e = (IF m < k + 3 THEN m ELSE k + 3) /\ k <= e /\ l = e - k
  <2>1. CASE r < 3
    <3>1. m = k + r /\ m < k + 3
      BY <1>2, <2>1
    <3> QED
      BY <3>1, <2>1
  <2>2. CASE ~(r < 3)
    <3>1. m >= k + 3
      BY <1>2, <2>2
    <3> QED
      BY <3>1, <2>2
  <2> QED
    BY <2>1, <2>2
<1>0. PICK a : a = After(t, k) /\ a = SubSeq(t, k + 1, m)
  BY <1>1 DEF After
<1>4. a \in Seq(Line) /\ Len(a) = r /\ \A i \in 1..r : a[i] = t[k + i]
  <2>1. m <= Len(t) /\ r = IF k <= m THEN m - k ELSE 0
    BY <1>1, <1>2
  <2> QED
    BY <2>1, <1>0, PartOf
<1>5. PICK c : c = Chunk(t, n) /\ c = SubSeq(t, k + 1, e)
  <2>1. Chunk(t, n) = SubSeq(t, k + 1, IF m < k + 3 THEN m ELSE k + 3)
    BY <1>1, <1>2 DEF Chunk
  <2> QED
    BY <2>1, <1>3
<1>6. c \in Seq(Line) /\ Len(c) = l /\ \A i \in 1..l : c[i] = t[k + i]
  <2>1. e <= Len(t) /\ l = IF k <= e THEN e - k ELSE 0
    BY <1>1, <1>3
  <2> QED
    BY <2>1, <1>5, PartOf
<1>7. PICK d : d = Chunk(a, 0) /\ d = SubSeq(a, 0 + 1, l)
  <2>1. Chunk(a, 0) = SubSeq(a, 3 * 0 + 1, IF r < 3 * 0 + 3 THEN r ELSE 3 * 0 + 3)
    BY <1>4 DEF Chunk
  <2>2. 3 * 0 + 1 = 0 + 1 /\ 3 * 0 + 3 = 3
    OBVIOUS
  <2> QED
    BY <2>1, <2>2, <1>3
<1>8. d \in Seq(Line) /\ Len(d) = l /\ \A i \in 1..l : d[i] = a[0 + i]
  <2>1. PICK z \in Nat : z = 0
    OBVIOUS
  <2>2. a \in Seq(Line) /\ d = SubSeq(a, z + 1, l)
    BY <1>4, <1>7, <2>1
  <2>3. l <= Len(a) /\ l = (IF z <= l THEN l - z ELSE 0)
    BY <1>3, <1>4, <2>1
  <2> QED
    BY <2>1, <2>2, <2>3, PartOf
<1>9. d = c
  <2>1. ASSUME NEW i \in 1..l PROVE d[i] = c[i]
    <3>1. 0 + i = i /\ i \in 1..r
      BY <1>3
    <3> QED
      BY <3>1, <1>4, <1>6, <1>8
  <2> QED
    BY <2>1, <1>6, <1>8, SeqEqual
<1>10. PICK x : x = After(a, l) /\ x = SubSeq(a, l + 1, r)
  BY <1>4 DEF After
<1>11. PICK u \in Nat : u = r - l
  BY <1>3
<1>12. x \in Seq(Line) /\ Len(x) = u /\ \A i \in 1..u : x[i] = a[l + i]
  <2>1. r <= Len(a) /\ u = IF l <= r THEN r - l ELSE 0
    BY <1>3, <1>4, <1>11
  <2>2. a \in Seq(Line)
    BY <1>4
  <2> QED
    BY <2>1, <2>2, <1>10, PartOf
<1>13. PICK y : y = After(t, k3) /\ y = SubSeq(t, k3 + 1, m)
  BY <1>1 DEF After
<1>14. y \in Seq(Line) /\ Len(y) = u /\ \A i \in 1..u : y[i] = t[k3 + i]
  <2>1. m <= Len(t) /\ m = k + r
    BY <1>1, <1>2
  <2>2. u = IF k3 <= m THEN m - k3 ELSE 0
    BY <2>1, <1>2, <1>3, <1>11
  <2> QED
    BY <2>1, <2>2, <1>13, PartOf
<1>15. x = y
  <2>1. ASSUME NEW i \in 1..u PROVE x[i] = y[i]
    <3>1. l = 3 /\ l + i \in 1..r /\ k + (l + i) = k3 + i
      BY <1>2, <1>3, <1>11
    <3>2. x[i] = a[l + i] /\ a[l + i] = t[k + (l + i)]
      BY <3>1, <1>4, <1>12
    <3>3. y[i] = t[k3 + i]
      BY <1>14
    <3> QED
      BY <3>1, <3>2, <3>3
  <2> QED
    BY <2>1, <1>12, <1>14, SeqEqual
<1> QED
  BY <1>0, <1>2, <1>5, <1>6, <1>7, <1>9, <1>10, <1>13, <1>15

\* A page fault: the process has run all pages it has, two at least, and under
\* RR every other process has run as many lines.
Faults(n) ==
    /\ status = "ok" /\ cpu.at = "execute" /\ cpu.pid \in DOMAIN pcb
    /\ n \in Nat /\ n >= 2 /\ Current.num_pages = n /\ Current.curr_page = n
    /\ Position(Current) = 3 * n /\ Ran(cpu.pid) = 3 * n /\ 3 * n < Len(text[cpu.pid])
    /\ cpu.policy = "RR" => /\ LinesNow \in {0, 1} /\ Early(cpu.pid) = 6
                            /\ \A q \in Waiting : Ran(q) >= 6

LEMMA FaultLate ==
    ASSUME FlatIInv, fetch_a_page
    PROVE  \E n : Faults(n)
<1>1. status = "ok" /\ cpu.at = "execute" /\ page_fault /\ Current.fp # <<>>
  BY DEF fetch_a_page, Executing
<1>2. IInv /\ Turns /\ cpu.pid # 0
  BY <1>1, NoOneInHand DEF FlatIInv
<1>3. cpu.pid \in DOMAIN pcb /\ cpu.pid \in Pids /\ cpu.pid \notin Waiting /\ DOMAIN pcb = Waiting \cup {cpu.pid}
  BY <1>1, <1>2, InHand
<1>4. PICK p, c : p = cpu.pid /\ c = Current /\ c = pcb[p]
  BY DEF Current
<1>5. PICK t \in Seq(Line), e \in Nat : t = text[p] /\ e = Ran(p)
  BY <1>2, <1>3, <1>4, TextFacts DEF FlatIInv
<1>6. PICK n \in Nat : n = c.num_pages
  BY <1>2, <1>3, <1>4, PCBNumbers
<1>7. c.curr_page = n /\ Position(c) = 3 * n /\ e = 3 * n
  <2>1. /\ c.curr_page \in Nat /\ c.curr_line \in 0..2 /\ c.curr_page <= n
        /\ Position(c) = 3 * c.curr_page + c.curr_line
    BY <1>2, <1>3, <1>4, <1>6, PCBNumbers
  <2>2. c.curr_page = n
    BY <2>1, <1>1, <1>4, <1>6 DEF page_fault
  <2>3. Follows(p) /\ ~InLine(p)
    BY <1>1, <1>3, <1>4 DEF FlatIInv, InLine
  <2>4. Position(c) <= 3 * n /\ e = Position(c) + 0
    BY <2>3, <1>4, <1>5, <1>6 DEF Follows, OnTime
  <2> QED
    BY <2>1, <2>2, <2>4
<1>8. 3 * n < Len(t) /\ n >= 2
  <2>1. c.fp = After(t, 3 * n)
    BY <1>3, <1>4, <1>5, <1>6, AheadPages DEF FlatIInv
  <2>2. 3 * n < Len(t)
    <3>1. 3 * n \in Nat /\ Len(t) \in Nat
      BY LenProperties
    <3> QED
      BY <3>1, <2>1, <1>1, <1>4, NothingAfter
  <2>3. n >= 2
    <3>1. n >= 2 \/ Len(t) <= 3 * n
      BY <1>3, <1>4, <1>5, <1>6 DEF FlatIInv, Follows, OnTime
    <3>2. Len(t) \in Nat
      BY LenProperties
    <3> QED
      BY <3>1, <3>2, <2>2
  <2> QED
    BY <2>2, <2>3
<1>9. cpu.policy = "RR" => /\ LinesNow \in {0, 1} /\ Early(p) = 6
                           /\ \A q \in Waiting : Ran(q) >= 6
  <2> SUFFICES ASSUME cpu.policy = "RR"
               PROVE  LinesNow \in {0, 1} /\ Early(p) = 6 /\ \A q \in Waiting : Ran(q) >= 6
    OBVIOUS
  <2>1. InStep /\ cpu.quanta \in {1, 2} /\ LinesNow = 2 - cpu.quanta
    BY <1>1, <1>2, TurnLines
  <2>2. LinesNow \in {0, 1}
    BY <2>1
  <2>3. PICK b \in Int : b = Begun(p) /\ b >= 5
    <3>1. Begun(p) = e - LinesNow
      BY <1>4, <1>5 DEF Begun
    <3> QED
      BY <3>1, <2>2, <1>7, <1>8
  <2>4. Early(p) = 6
    <3>1. Early(p) = (IF b < 6 THEN b ELSE 6) /\ Early(p) \in {0, 2, 4, 6}
      BY <2>1, <2>3, <1>3, <1>4 DEF Early, InStep
    <3> QED
      BY <3>1, <2>3
  <2>5. ASSUME NEW q \in Waiting PROVE Ran(q) >= 6
    <3>1. q # p /\ q \in DOMAIN pcb /\ Precedes(p, q)
      BY <1>3, <1>4 DEF Precedes
    <3>2. 6 <= Early(q) /\ Early(q) \in {0, 2, 4, 6}
      BY <3>1, <2>1, <2>4, <1>3, <1>4 DEF InStep
    <3>3. Begun(q) = Ran(q) /\ Ran(q) \in Nat
      <4>1. q \in Pids
        BY <3>1, <1>2, PCBNumbers
      <4> QED
        BY <3>1, <4>1, <1>2, <1>4, TextFacts DEF Begun, FlatIInv
    <3> QED
      BY <3>2, <3>3 DEF Early
  <2> QED
    BY <2>2, <2>4, <2>5
<1>10. Faults(n)
  BY <1>1, <1>3, <1>4, <1>5, <1>6, <1>7, <1>8, <1>9 DEF Faults
<1> QED
  BY <1>10

\* The frames used since a waiting process used the page it will run cannot be
\* all: each holds the first even or odd page of a process that this command
\* started, or one in its place, and there is none for the page that is due.
LEMMA SomeOlder ==
    ASSUME FlatIInv, cpu.policy = "RR", NEW n, Faults(n), NEW q \in Waiting, NEW i \in Used,
           framestore[i].pid = q, Recent(i, q), Since(i) = Frames
    PROVE  FALSE
<1>1. IInv /\ Turns /\ Stored /\ Used = Frames
  BY DEF FlatIInv, Faults, Since, Used
<1>2. PICK p : p = cpu.pid
  OBVIOUS
<1>3. /\ p \in DOMAIN pcb /\ p \in Pids /\ Precedes(p, q) /\ q \in DOMAIN pcb
      /\ n \in Nat /\ n >= 2 /\ Ran(p) = 3 * n /\ 3 * n < Len(text[p]) /\ LinesNow \in {0, 1}
  BY <1>1, <1>2, PCBNumbers DEF Faults, Precedes, IInv, QueueIntegrity
<1>4. PICK b \in Nat : Batch(b)
  BY <1>1 DEF Turns, Faults, FlatIInv, IInv, QueueIntegrity, TypeOK, Pids
<1>5. b <= q /\ b <= p /\ pid_counter \in Nat
  BY <1>1, <1>3, <1>4 DEF Batch, IInv, QueueIntegrity, TypeOK
<1>6. ASSUME NEW x \in Frames
      PROVE  /\ framestore[x].pid \in b..(pid_counter - 1) /\ framestore[x].page_number \in Nat
             /\ 3 * framestore[x].page_number < Len(text[framestore[x].pid])
             /\ Len(text[framestore[x].pid]) \in Nat
  <2>1. /\ framestore[x].pid \in Pids /\ framestore[x].page_number \in Nat
        /\ 3 * framestore[x].page_number < Len(text[framestore[x].pid])
    BY <1>1, <1>6 DEF Stored
  <2>2. Len(text[framestore[x].pid]) \in Nat
    BY <1>1, <2>1, TextFacts DEF FlatIInv
  <2>3. ~(framestore[x].pid < b)
    <3>1. framestore[x].last_used \in Nat /\ framestore[i].last_used \in Nat
      BY <1>1, <1>6, UsedFrame
    <3>2. framestore[x].last_used >= framestore[i].last_used
      BY <1>6 DEF Since
    <3>3. framestore[x].pid < b => framestore[x].last_used < framestore[i].last_used
      BY <1>1, <1>4, <1>5, <1>6 DEF Batch
    <3> QED
      BY <3>1, <3>2, <3>3
  <2> QED
    BY <2>1, <2>2, <2>3, <1>5 DEF Pids
<1> DEFINE h == [x \in Frames |-> <<framestore[x].pid, framestore[x].page_number % 2>>]
           due == <<p, n % 2>>
<1>7. ASSUME NEW x \in Frames PROVE h[x] \in Starters(b)
  <2>1. PICK k \in Nat, m \in Nat : /\ k = framestore[x].page_number /\ m = Len(text[framestore[x].pid])
                                    /\ 3 * k < m
    BY <1>6
  <2>2. k % 2 \in {0, 1} /\ 3 * (k % 2) < m
    BY <2>1
  <2>3. h[x] \in (b..(pid_counter - 1)) \X {0, 1} /\ h[x][1] = framestore[x].pid /\ h[x][2] = k % 2
    BY <2>1, <2>2, <1>6
  <2> QED
    BY <2>1, <2>2, <2>3 DEF Starters
<1>8. ASSUME NEW x \in Frames PROVE h[x] # due
  <2> SUFFICES ASSUME h[x] = due PROVE FALSE
    OBVIOUS
  <2>1. framestore[x].pid = p /\ framestore[x].page_number % 2 = n % 2
    OBVIOUS
  <2>2. PICK m \in 1..LinesNow : framestore[x].page_number = (Ran(cpu.pid) - m) \div 3
    BY <1>3, <1>8, <2>1 DEF Recent
  <2>3. m = 1 /\ framestore[x].page_number = (3 * n - 1) \div 3
    BY <1>2, <1>3, <2>2
  <2>4. (3 * n - 1) \div 3 = n - 1 /\ (n - 1) % 2 # n % 2
    BY <1>3
  <2> QED
    BY <2>1, <2>3, <2>4
<1>9. \A x, y \in Frames : h[x] = h[y] => x = y
  <2>1. \A x, y \in Frames : h[x] = h[y] => SamePlace(x, y)
    BY DEF SamePlace
  <2>2. \A x, y \in Frames : SamePlace(x, y) => x = y
    BY DEF Recent
  <2> QED
    BY <2>1, <2>2
<1>10. due \in Starters(b)
  <2>1. p \in b..(pid_counter - 1)
    BY <1>3, <1>5 DEF Pids
  <2>2. PICK m \in Nat : m = Len(text[p]) /\ 3 * n < m
    BY <1>1, <1>3, TextFacts DEF FlatIInv
  <2>3. n % 2 \in {0, 1} /\ 3 * (n % 2) < m
    BY <2>2, <1>3
  <2>4. due \in (b..(pid_counter - 1)) \X {0, 1} /\ due[1] = p /\ due[2] = n % 2
    BY <2>1, <2>3
  <2> QED
    BY <2>2, <2>3, <2>4 DEF Starters
<1>11. IsFiniteSet(Starters(b))
  <2>1. IsFiniteSet(b..(pid_counter - 1)) /\ IsFiniteSet({0, 1})
    <3>1. b \in Int /\ pid_counter - 1 \in Int
      BY <1>5
    <3>2. IsFiniteSet({0, 1})
      <4>1. PICK z \in Int, o \in Int : z = 0 /\ o = 1
        OBVIOUS
      <4>2. z..o = {0, 1}
        BY <4>1
      <4>3. IsFiniteSet(z..o)
        BY FS_Interval
      <4> QED
        BY <4>2, <4>3, Zenon
    <3> QED
      BY <3>1, <3>2, FS_Interval
  <2>2. IsFiniteSet((b..(pid_counter - 1)) \X {0, 1})
    BY <2>1, FS_Product
  <2> QED
    BY <2>2, FS_Subset DEF Starters
<1>12. Cardinality(Frames) < Cardinality(Starters(b))
  <2> HIDE DEF h, due
  <2> QED
    BY <1>7, <1>8, <1>9, <1>10, <1>11, OneMissed
<1>13. Cardinality(Frames) = FRAMESTORE_LENGTH
  <2>1. FRAMESTORE_LENGTH \in Nat /\ FRAMESTORE_LENGTH >= 1
    BY FramesAssumption
  <2>2. Cardinality(0..(FRAMESTORE_LENGTH - 1)) =
           IF 0 > FRAMESTORE_LENGTH - 1 THEN 0 ELSE FRAMESTORE_LENGTH - 1 - 0 + 1
    BY <2>1, FS_Interval
  <2> QED
    BY <2>1, <2>2 DEF Frames
<1>14. Cardinality(Starters(b)) \in Nat /\ Cardinality(Starters(b)) <= FRAMESTORE_LENGTH
  BY <1>4, <1>11, FS_CardinalityType DEF Batch
<1> QED
  BY <1>12, <1>13, <1>14, FramesAssumption

\* The frame a page is fetched into holds no page that a waiting process will
\* run.
LEMMA FrameSafe ==
    ASSUME FlatIInv, NEW n, Faults(n), NEW q \in Waiting, NEW k \in ToRun(pcb[q]), NEW f,
           f = IF get_free_page_space = -1 THEN get_victim_page_index ELSE get_free_page_space
    PROVE  pcb[q].pagetable[k] # f
<1>1. IInv /\ Turns /\ StoreOK
  BY Parts DEF FlatIInv, Faults
<1>2. cpu.pid \notin Waiting /\ cpu.pid \in DOMAIN pcb /\ q \in DOMAIN pcb /\ q # cpu.pid
  BY <1>1 DEF Faults, IInv, QueueIntegrity
<1>3. cpu.policy = "RR"
  BY <1>1, <1>2 DEF Turns
<1>4. PICK i : i = pcb[q].pagetable[k]
  OBVIOUS
<1>5. i \in Used /\ i \in Frames /\ framestore[i].pid = q
  BY <1>2, <1>4, OwnPage
<1>6. CASE FreeFrames # {}
  <2>1. f \in FreeFrames
    BY <1>1, <1>6, FrameFound
  <2> QED
    BY <2>1, <1>4, <1>5 DEF Used
<1>7. CASE FreeFrames = {}
  <2>1. f \in Frames /\ f = get_victim_page_index /\ Used = Frames
        /\ \A j \in Frames : framestore[f].last_used <= framestore[j].last_used
    BY <1>1, <1>7, FrameFound DEF Used
  <2>2. ASSUME i = f PROVE FALSE
    <3>1. Since(i) = Frames
      <4>1. ASSUME NEW j \in Frames PROVE framestore[j].last_used >= framestore[i].last_used
        <5>1. framestore[i].last_used \in Nat /\ framestore[j].last_used \in Nat
          BY <1>1, <2>1, <1>5, UsedFrame
        <5> QED
          BY <5>1, <2>1, <2>2
      <4> QED
        BY <4>1, <2>1 DEF Since
    <3>2. Ran(q) >= 6 /\ UsedLately
      BY <1>1, <1>3 DEF Faults, Turns
    <3>3. Ran(q) \in Nat
      BY <1>1, <1>2, PCBNumbers, TextFacts DEF FlatIInv
    <3>4. Recent(i, q)
      BY <3>2, <3>3, <1>4 DEF UsedLately
    <3> QED
      BY <3>1, <3>4, <1>3, <1>5, SomeOlder
  <2> QED
    BY <2>2, <1>4
<1> QED
  BY <1>6, <1>7

\* The frame and the PCB after a page has been fetched.
LEMMA FetchStore ==
    ASSUME FlatIInv, fetch_a_page, NEW n, Faults(n)
    PROVE  \E f \in Frames :
             /\ f = (IF get_free_page_space = -1 THEN get_victim_page_index ELSE get_free_page_space)
             /\ Uses(f, n) /\ framestore'[f] = set_page(n, cpu.pid, Chunk(text[cpu.pid], n), timer)
             /\ DOMAIN pcb' = DOMAIN pcb /\ \A q \in DOMAIN pcb : q # cpu.pid => pcb'[q] = pcb[q]
             /\ pcb'[cpu.pid].num_pages = n + 1 /\ pcb'[cpu.pid].pagetable[n] = f
             /\ pcb'[cpu.pid].curr_page = n /\ pcb'[cpu.pid].curr_line = Current.curr_line
             /\ pcb'[cpu.pid].fp = After(text[cpu.pid], 3 * (n + 1))
             /\ Requeue /\ UNCHANGED <<pid_counter, status, text, executed>>
<1>1. IInv /\ StoreOK /\ cpu.pid \in DOMAIN pcb /\ cpu.pid \in Pids
  BY Parts, PCBNumbers DEF FlatIInv, Faults
<1>2. PICK p, c, f, table2 :
        /\ p = cpu.pid /\ c = Current
        /\ f = (IF get_free_page_space = -1 THEN get_victim_page_index ELSE get_free_page_space)
        /\ table2 = [k \in DOMAIN [k \in DOMAIN Current.pagetable |->
                             IF get_free_page_space = -1 /\ k = get_victim_page_index THEN -1
                             ELSE Current.pagetable[k]] \cup {Current.num_pages} |->
                       IF k = Current.num_pages
                       THEN (IF get_free_page_space = -1 THEN get_victim_page_index ELSE get_free_page_space)
                       ELSE [j \in DOMAIN Current.pagetable |->
                               IF get_free_page_space = -1 /\ j = get_victim_page_index THEN -1
                               ELSE Current.pagetable[j]][k]]
  OBVIOUS
<1>3. PICK t \in Seq(Line) : t = text[p]
  BY <1>1, <1>2, TextFacts DEF FlatIInv
<1>4. n \in Nat /\ 3 * n < Len(t) /\ c.num_pages = n /\ c.curr_page = n /\ c = pcb[p]
  BY <1>2, <1>3 DEF Faults, Current
<1>5. c = [pagetable |-> c.pagetable, num_pages |-> c.num_pages, curr_page |-> c.curr_page,
           curr_line |-> c.curr_line, fp |-> c.fp]
  BY <1>1, <1>2, <1>4, PCBNumbers
<1>6. c.fp = After(t, 3 * n)
  BY <1>1, <1>2, <1>3, <1>4, AheadPages DEF FlatIInv
<1>7. Chunk(c.fp, 0) = Chunk(t, n) /\ After(c.fp, Len(Chunk(c.fp, 0))) = After(t, 3 * (n + 1))
  BY <1>4, <1>6, NextChunk
<1>8. /\ framestore' = [framestore EXCEPT ![f] = set_page(c.curr_page, p, Chunk(c.fp, 0), timer)]
      /\ timer' = timer + 1 /\ Requeue /\ UNCHANGED <<pid_counter, status, text, executed>>
  BY <1>2, Zenon DEF fetch_a_page
<1>9. pcb' = [pcb EXCEPT ![p] = [c EXCEPT !.fp = After(c.fp, Len(Chunk(c.fp, 0))),
                                          !.num_pages = c.num_pages + 1, !.pagetable = table2]]
  BY <1>2 DEF fetch_a_page, Current
<1>10. f \in Frames
  BY <1>1, <1>2, FrameFound
<1>11. table2[n] = f
  BY <1>2, <1>4
<1>12. PICK r, d : r = After(t, 3 * (n + 1)) /\ d = pcb'[p]
  OBVIOUS
<1>13. /\ DOMAIN pcb' = DOMAIN pcb /\ \A q \in DOMAIN pcb : q # p => pcb'[q] = pcb[q]
       /\ d = [c EXCEPT !.fp = r, !.num_pages = n + 1, !.pagetable = table2]
  <2>1. pcb' = [pcb EXCEPT ![p] = [c EXCEPT !.fp = r, !.num_pages = n + 1, !.pagetable = table2]]
    BY <1>4, <1>7, <1>9, <1>12
  <2>2. p \in DOMAIN pcb
    BY <1>1, <1>2
  <2> QED
    BY <2>1, <2>2, <1>12
<1>14. d.fp = r /\ d.num_pages = n + 1 /\ d.pagetable = table2 /\ d.curr_page = n /\ d.curr_line = c.curr_line
  <2>1. c \in [pagetable : {c.pagetable}, num_pages : {n}, curr_page : {n}, curr_line : {c.curr_line}, fp : {c.fp}]
    BY <1>4, <1>5
  <2> QED
    BY <2>1, <1>13
<1>15. framestore'[f] = set_page(n, p, Chunk(t, n), timer) /\ \A j \in Frames : j # f => framestore'[j] = framestore[j]
  <2>1. framestore \in [Frames -> Page]
    BY <1>1 DEF StoreOK
  <2>2. framestore' = [framestore EXCEPT ![f] = set_page(n, p, Chunk(t, n), timer)]
    BY <1>4, <1>7, <1>8
  <2> QED
    BY <2>1, <2>2, <1>10
<1>16. Uses(f, n)
  <2>1. timer \in Nat
    BY <1>1 DEF StoreOK
  <2>2. /\ framestore'[f].pid = p /\ framestore'[f].page_number = n /\ framestore'[f].available = FALSE
        /\ framestore'[f].last_used = timer
    BY <1>15 DEF set_page
  <2> QED
    BY <2>1, <2>2, <1>2, <1>4, <1>8, <1>10, <1>15 DEF Uses
<1> QED
  BY <1>2, <1>3, <1>8, <1>10, <1>11, <1>12, <1>13, <1>14, <1>15, <1>16

\* fetch_a_page.
LEMMA FetchFlat == ASSUME FlatIInv, fetch_a_page PROVE FlatIInv'
<1>1. PICK n : Faults(n)
  BY FaultLate
<1>2. PICK f \in Frames :
             /\ f = (IF get_free_page_space = -1 THEN get_victim_page_index ELSE get_free_page_space)
             /\ Uses(f, n) /\ framestore'[f] = set_page(n, cpu.pid, Chunk(text[cpu.pid], n), timer)
             /\ DOMAIN pcb' = DOMAIN pcb /\ \A q \in DOMAIN pcb : q # cpu.pid => pcb'[q] = pcb[q]
             /\ pcb'[cpu.pid].num_pages = n + 1 /\ pcb'[cpu.pid].pagetable[n] = f
             /\ pcb'[cpu.pid].curr_page = n /\ pcb'[cpu.pid].curr_line = Current.curr_line
             /\ pcb'[cpu.pid].fp = After(text[cpu.pid], 3 * (n + 1))
             /\ Requeue /\ UNCHANGED <<pid_counter, status, text, executed>>
  BY <1>1, FetchStore
<1>3. IInv' /\ IInv /\ Turns /\ Texts /\ Stored /\ PagesAhead /\ status = "ok" /\ cpu.at = "execute" /\ cpu.pid # 0
  BY <1>1, FetchIInv, NoOneInHand DEF FlatIInv, Faults
<1>4. PICK p, c, d : p = cpu.pid /\ c = Current /\ c = pcb[p] /\ d = pcb'[p]
  BY DEF Current
<1>5. p \in DOMAIN pcb /\ p \in Pids /\ p \notin Waiting /\ DOMAIN pcb = Waiting \cup {p}
  BY <1>3, <1>4, InHand
<1>6. PICK t \in Seq(Line) : t = text[p] /\ 3 * n < Len(t) /\ Len(t) \in Nat
  BY <1>1, <1>3, <1>4, <1>5, TextFacts, LenProperties DEF Faults
<1>7. n \in Nat /\ n >= 2 /\ c.num_pages = n /\ c.curr_page = n /\ Position(c) = 3 * n /\ Ran(p) = 3 * n
      /\ c.curr_line \in 0..2
  BY <1>1, <1>3, <1>4, <1>5, PCBNumbers DEF Faults
<1>8. d.num_pages = n + 1 /\ d.pagetable[n] = f /\ d.curr_page = n /\ d.fp = After(t, 3 * (n + 1))
      /\ Position(d) = Position(c)
  BY <1>2, <1>4, <1>6, <1>7 DEF Position
<1>9. cpu'.at = "schedule" /\ cpu'.pid = 0 /\ cpu'.policy = cpu.policy
  BY <1>2, <1>3 DEF Requeue, Rescheduled, IInv, QueueIntegrity, TypeOK
<1>10. Pids' = Pids
  BY <1>2 DEF Pids
<1>11. \A y \in Used : y # f /\ framestore[y].pid = p => framestore[y].page_number # n
  <2>1. \A y \in Used : framestore[y].pid = p => framestore[y].page_number \in Nat /\ framestore[y].page_number < n
    BY <1>3, <1>4, <1>5, <1>7 DEF Stored
  <2> QED
    BY <2>1, <1>7
<1>12. Stored'
  <2>1. \A k \in Nat : k < c.num_pages => k < d.num_pages
    BY <1>7, <1>8
  <2>2. n < d.num_pages
    BY <1>7, <1>8
  <2> QED
    BY <2>1, <2>2, <1>2, <1>3, <1>4, <1>5, <1>6, <1>11, UsesStored
<1>13. Texts'
  BY <1>2, <1>3, <1>10 DEF Texts, Ran
<1>14. PagesAhead'
  <2>1. ASSUME NEW q \in DOMAIN pcb, q # p, NEW k \in ToRun(pcb[q]), NEW i, i = pcb[q].pagetable[k]
        PROVE  framestore'[i] = framestore[i]
    <3>1. i # f /\ i \in Frames
      BY <2>1, <1>1, <1>2, <1>5, FrameSafe, OwnPage
    <3> QED
      BY <3>1, <1>2 DEF Uses
  <2>2. ASSUME NEW q \in DOMAIN pcb', NEW k \in pcb'[q].curr_page..(pcb'[q].num_pages - 1)
        PROVE  framestore'[pcb'[q].pagetable[k]] =
                  set_page(k, q, Chunk(text'[q], k), framestore'[pcb'[q].pagetable[k]].last_used)
    <3>1. CASE q = p
      <4>1. k \in d.curr_page..(d.num_pages - 1)
        BY <2>2, <3>1, <1>4
      <4>2. k = n
        BY <4>1, <1>7, <1>8
      <4>3. pcb'[q].pagetable[k] = f
        BY <3>1, <4>2, <1>4, <1>8
      <4>4. framestore'[f] = set_page(n, p, Chunk(t, n), timer)
        BY <1>2, <1>4, <1>6
      <4>5. framestore'[f].last_used = timer
        BY <4>4 DEF set_page
      <4>6. text' = text
        BY <1>2
      <4> QED
        BY <3>1, <4>2, <4>3, <4>4, <4>5, <4>6, <1>6
    <3>2. CASE q # p
      <4>1. q \in DOMAIN pcb /\ pcb'[q] = pcb[q] /\ k \in ToRun(pcb[q]) /\ text' = text
        BY <2>2, <3>2, <1>2, <1>4 DEF ToRun
      <4>2. PICK i : i = pcb[q].pagetable[k]
        OBVIOUS
      <4>3. framestore'[i] = framestore[i]
        BY <2>1, <3>2, <4>1, <4>2
      <4>4. framestore[i] = set_page(k, q, Chunk(text[q], k), framestore[i].last_used)
        BY <1>3, <4>1, <4>2, AheadPages
      <4> QED
        BY <4>1, <4>2, <4>3, <4>4
    <3> QED
      BY <3>1, <3>2
  <2>3. ASSUME NEW q \in DOMAIN pcb' PROVE pcb'[q].fp = After(text'[q], 3 * pcb'[q].num_pages)
    <3>1. CASE q = p
      <4>1. text' = text
        BY <1>2
      <4> QED
        BY <3>1, <4>1, <1>4, <1>6, <1>8
    <3>2. CASE q # p
      <4>1. text' = text /\ q \in DOMAIN pcb /\ pcb'[q] = pcb[q]
        BY <1>2, <1>4, <3>2
      <4>2. pcb[q].fp = After(text[q], 3 * pcb[q].num_pages)
        BY <4>1, <1>3, AheadPages
      <4> QED
        BY <4>1, <4>2
    <3> QED
      BY <3>1, <3>2
  <2> QED
    BY <2>2, <2>3 DEF PagesAhead
<1>15. ASSUME NEW q \in DOMAIN pcb' PROVE Follows(q)'
  <2>1. Ran(q)' = Ran(q) /\ Follows(q) /\ ~InLine(q) /\ ~InLine(q)' /\ text' = text /\ q \in DOMAIN pcb
    BY <1>2, <1>3, <1>9 DEF FlatIInv, Ran, InLine
  <2>2. CASE q = p
    <3>1. OnTime(d, t)
      <4>1. /\ Position(d) = 3 * n /\ d.num_pages = n + 1
            /\ 3 * n <= 3 * (n + 1) /\ 3 * (n + 1) < Len(t) + 3 /\ n + 1 >= 2 /\ 3 * ((n + 1) - 1) <= 3 * n
        BY <1>6, <1>7, <1>8
      <4> QED
        BY <4>1 DEF OnTime
    <3>2. Ran(p) = Position(d) + 0
      BY <1>7, <1>8
    <3> QED
      BY <2>1, <2>2, <3>1, <3>2, <1>4, <1>6 DEF Follows
  <2>3. CASE q # p
    <3>1. pcb'[q] = pcb[q]
      BY <2>3, <1>2, <1>4
    <3> QED
      BY <2>1, <3>1 DEF Follows
  <2> QED
    BY <2>2, <2>3
<1>16. cpu.policy = "RR" => InStep' /\ UsedLately'
  <2> SUFFICES ASSUME cpu.policy = "RR" PROVE InStep' /\ UsedLately'
    OBVIOUS
  <2>1. InStep /\ UsedLately /\ Early(p) = 6 /\ Ran(p) >= 6
    <3>1. 3 * n >= 6
      BY <1>7
    <3> QED
      BY <3>1, <1>1, <1>3, <1>4, <1>7, TurnLines DEF Faults
  <2>2. InStep'
    BY <2>1, <1>2, <1>3, <1>4, RequeueInStep
  <2>3. ASSUME NEW q \in Waiting', NEW k, NEW i, Ran(q)' >= 4, k \in ToRun(pcb[q])', i = pcb'[q].pagetable[k]
        PROVE  Recent(i, q)'
    <3>1. Ran(q) >= 4 /\ k \in ToRun(pcb'[q])
      BY <1>2, <2>3 DEF Ran, ToRun
    <3>2. CASE q \in Waiting
      <4>1. pcb'[q] = pcb[q] /\ q \in DOMAIN pcb /\ q # p
        BY <1>2, <1>4, <1>5, <3>2
      <4>2. Recent(i, q)
        BY <2>1, <2>3, <3>1, <3>2, <4>1 DEF UsedLately
      <4>3. i # f
        BY <2>3, <3>1, <3>2, <4>1, <1>1, <1>2, FrameSafe
      <4>4. i \in Used
        BY <2>3, <3>1, <4>1, OwnPage
      <4>5. \A x \in Pids : Precedes(x, q)' => Precedes(x, q) /\ x # cpu.pid
        BY <4>1, <1>2, <1>3, <1>4, RequeueOrder
      <4>6. n = Ran(cpu.pid) \div 3
        BY <1>4, <1>7
      <4> QED
        BY <3>2, <4>2, <4>3, <4>4, <4>5, <4>6, <1>2, <1>3, <1>4, <1>11, UsesRecent
    <3>3. CASE q = p
      <4>1. k = n
        <5>1. k \in d.curr_page..(d.num_pages - 1)
          BY <3>1, <3>3, <1>4 DEF ToRun
        <5> QED
          BY <5>1, <1>7, <1>8
      <4>2. i = f
        BY <2>3, <3>3, <4>1, <1>4, <1>8
      <4>3. Since(f)' = {f}
        BY <1>2, <1>3, UsesNewest
      <4>4. Since(i)' = {f}
        BY <4>2, <4>3 DEF Since
      <4>5. ~Precedes(framestore[f].pid, q)'
        <5>1. PICK x : x = framestore'[f].pid /\ x = p
          BY <1>2, <1>4 DEF Uses
        <5>2. ~Precedes(x, q)'
          BY <5>1, <1>2, <1>3, <1>4, <1>5, RequeueOrder
        <5> QED
          BY <5>1, <5>2
      <4> QED
        BY <4>4, <4>5 DEF Recent
    <3> QED
      BY <1>2, <1>3, <1>4, <2>3, <3>2, <3>3, RequeueOrder
  <2>4. UsedLately'
    BY <2>3, LatelyNext
  <2> QED
    BY <2>2, <2>4
<1>17. cpu.policy # "RR" => \A x, y \in DOMAIN pcb' : x = y
  BY <1>2, <1>3 DEF Turns
<1>18. \E b \in Pids' \cup {pid_counter'} : Batch(b)'
  <2>1. PICK b \in Pids \cup {pid_counter} : Batch(b)
    BY <1>3 DEF Turns
  <2>2. b \in Nat
    BY <1>3 DEF IInv, QueueIntegrity, TypeOK, Pids
  <2>3. Batch(b)'
    BY <2>1, <2>2, <1>2, <1>3, <1>4, <1>5, UsesBatch
  <2> QED
    BY <2>1, <2>3, <1>2, <1>10
<1>19. Turns'
  BY <1>9, <1>16, <1>17, <1>18 DEF Turns
<1> QED
  BY <1>2, <1>3, <1>12, <1>13, <1>14, <1>15, <1>19 DEF FlatIInv


-----------------------------------------------------------------------------
(* Scripts are loaded: every page of theirs once.                          *)

\* The fields of a page that is loaded.
LEMMA PageFields ==
    ASSUME NEW texts, NEW i, NEW k, NEW t
    PROVE  /\ PageFor(texts, i, k, t).pid = pid_counter + i - 1
           /\ PageFor(texts, i, k, t).page_number = k
           /\ PageFor(texts, i, k, t).last_used = t
           /\ PageFor(texts, i, k, t).available = FALSE
  BY DEF PageFor, set_page

\* A round loads one page for each process.
LEMMA RoundOnce ==
    ASSUME NEW texts \in Seq(Seq(Line)), pid_counter \in Nat, NEW k, NEW t
    PROVE  \A c, d \in 1..Len(Round(k, texts, t)) :
              Round(k, texts, t)[c].pid = Round(k, texts, t)[d].pid => c = d
<1> DEFINE R == Round(k, texts, t)
           some == {i \in DOMAIN texts : Has(texts, i, k)}
           n == Cardinality(some)
<1>1. PICK l \in Nat : DOMAIN texts = 1..l
  BY LenProperties
<1>2. some \in SUBSET (0..l)
  BY <1>1
<1>3. R = [c \in 1..n |-> PageFor(texts, Nth(some, c), k, t)]
  BY Zenon DEF Round, PageFor, Has
<1>4. DOMAIN R = 1..Len(R) /\ Len(R) \in Nat
  BY RoundPages
<1> HIDE DEF some, n, R
<1>5. \A c \in 1..n : Nth(some, c) \in some /\ Place(some, Nth(some, c)) = c
  BY <1>2, NthPlace DEF n
<1>6. 1..Len(R) = 1..n /\ \A c \in 1..n : R[c].pid = pid_counter + Nth(some, c) - 1
  <2>1. DOMAIN R = 1..n
    BY <1>3
  <2>2. ASSUME NEW c \in 1..n PROVE R[c].pid = pid_counter + Nth(some, c) - 1
    <3>1. R[c] = PageFor(texts, Nth(some, c), k, t)
      BY <1>3
    <3> QED
      BY <3>1 DEF PageFor, set_page
  <2> QED
    BY <2>1, <2>2, <1>4
<1>7. ASSUME NEW c \in 1..n, NEW d \in 1..n, R[c].pid = R[d].pid PROVE c = d
  <2>0. \A x \in some : x \in Nat
    BY <1>2
  <2>1. PICK a \in Nat, b \in Nat : a = Nth(some, c) /\ b = Nth(some, d)
    BY <2>0, <1>5
  <2>2. pid_counter + a - 1 = pid_counter + b - 1
    BY <1>6, <1>7, <2>1
  <2>3. a = b
    BY <2>2
  <2> QED
    BY <2>1, <2>3, <1>5
<1> QED
  BY <1>6, <1>7 DEF R

\* The loaders load no page twice.
LEMMA LoadsOnce ==
    ASSUME NEW texts \in Seq(Seq(Line)), pid_counter \in Nat, timer \in Nat
    PROVE  \A c, d \in 1..Len(Loads(texts)) :
              Loads(texts)[c].pid = Loads(texts)[d].pid /\ Loads(texts)[c].page_number = Loads(texts)[d].page_number
              => c = d
<1> DEFINE Q == Round(0, texts, timer)
           R == Round(1, texts, timer + 1)
           L == Loads(texts)
           T == {Q[c] : c \in DOMAIN Q} \cup {R[c] : c \in DOMAIN R}
<1>1. /\ DOMAIN Q = 1..Len(Q) /\ Len(Q) \in Nat /\ Q \in Seq({Q[c] : c \in DOMAIN Q})
      /\ \A c \in 1..Len(Q) : \E i \in DOMAIN texts : Has(texts, i, 0) /\ Q[c] = PageFor(texts, i, 0, timer)
      /\ \A i \in DOMAIN texts : Has(texts, i, 0) => \E c \in 1..Len(Q) : Q[c] = PageFor(texts, i, 0, timer)
  BY RoundPages
<1>2. /\ DOMAIN R = 1..Len(R) /\ Len(R) \in Nat /\ R \in Seq({R[c] : c \in DOMAIN R})
      /\ \A c \in 1..Len(R) : \E i \in DOMAIN texts : Has(texts, i, 1) /\ R[c] = PageFor(texts, i, 1, timer + 1)
      /\ \A i \in DOMAIN texts : Has(texts, i, 1) => \E c \in 1..Len(R) : R[c] = PageFor(texts, i, 1, timer + 1)
  BY RoundPages, ZenonT(60)
<1>3. L = Q \o R
  BY DEF Loads
<1>a. \A c, d \in 1..Len(Q) : Q[c].pid = Q[d].pid => c = d
  BY RoundOnce
<1>b. \A c, d \in 1..Len(R) : R[c].pid = R[d].pid => c = d
  BY RoundOnce, ZenonT(60)
<1> HIDE DEF Q, R, L
<1>4. Q \in Seq(T) /\ R \in Seq(T)
  BY <1>1, <1>2, SeqMonotonic
<1> HIDE DEF T
<1>5. /\ Len(L) = Len(Q) + Len(R)
      /\ \A c \in 1..Len(Q) + Len(R) : L[c] = IF c <= Len(Q) THEN Q[c] ELSE R[c - Len(Q)]
  BY <1>3, <1>4, ConcatProperties
<1>6. PICK q \in Nat, r \in Nat : q = Len(Q) /\ r = Len(R)
  BY <1>1, <1>2
<1>7. ASSUME NEW c \in 1..q PROVE Q[c].page_number = 0
  <2>1. PICK i \in DOMAIN texts : Q[c] = PageFor(texts, i, 0, timer)
    BY <1>1, <1>6
  <2> QED
    BY <2>1 DEF PageFor, set_page
<1>8. ASSUME NEW c \in 1..r PROVE R[c].page_number = 1
  <2>1. PICK i \in DOMAIN texts : R[c] = PageFor(texts, i, 1, timer + 1)
    BY <1>2, <1>6
  <2> QED
    BY <2>1 DEF PageFor, set_page
<1>9. ASSUME NEW c \in 1..(q + r)
      PROVE  \/ c \in 1..q /\ L[c] = Q[c] /\ L[c].page_number = 0
             \/ c - q \in 1..r /\ L[c] = R[c - q] /\ L[c].page_number = 1
  <2>1. CASE c <= q
    <3>1. c \in 1..q /\ L[c] = Q[c]
      BY <2>1, <1>5, <1>6
    <3> QED
      BY <3>1, <1>7
  <2>2. CASE ~(c <= q)
    <3>1. c - q \in 1..r /\ L[c] = R[c - q]
      BY <2>2, <1>5, <1>6
    <3> QED
      BY <3>1, <1>8
  <2> QED
    BY <2>1, <2>2
<1>10. ASSUME NEW c \in 1..(q + r), NEW d \in 1..(q + r), L[c].pid = L[d].pid,
              L[c].page_number = L[d].page_number
       PROVE  c = d
  <2>1. CASE L[c].page_number = 0
    <3>1. c \in 1..q /\ d \in 1..q /\ Q[c].pid = Q[d].pid
      BY <2>1, <1>9, <1>10
    <3> QED
      BY <3>1, <1>a, <1>6
  <2>2. CASE L[c].page_number = 1
    <3>1. c - q \in 1..r /\ d - q \in 1..r /\ R[c - q].pid = R[d - q].pid
      BY <2>2, <1>9, <1>10
    <3>2. c - q = d - q
      BY <3>1, <1>b, <1>6
    <3> QED
      BY <3>2
  <2> QED
    BY <2>1, <2>2, <1>9
<1>11. Len(L) = q + r
  BY <1>5, <1>6
<1>12. 1..Len(L) = 1..(q + r)
  BY <1>11
<1>13. \A c, d \in 1..Len(L) : L[c].pid = L[d].pid /\ L[c].page_number = L[d].page_number => c = d
  BY <1>10, <1>12
<1> QED
  BY <1>13 DEF L


\* The loaders put the first two pages of each script, and nothing else, into
\* the free frames N, each page once.
Brings(fs, texts, N) ==
    /\ N \subseteq FreeFrames /\ fs = [f \in Frames |-> fs[f]]
    /\ \A f \in Frames \ N : fs[f] = framestore[f]
    /\ \A f \in N : \E i \in DOMAIN texts, k \in {0, 1} :
          Has(texts, i, k) /\ fs[f] = PageFor(texts, i, k, timer + k) /\ k < Len(Loads(texts))
    /\ \A i \in DOMAIN texts, k \in {0, 1} : Has(texts, i, k) =>
          \E f \in N : fs[f] = PageFor(texts, i, k, timer + k)
    /\ \A f, g \in N : fs[f].pid = fs[g].pid /\ fs[f].page_number = fs[g].page_number => f = g

LEMMA LoadedOnce ==
    ASSUME TypeOK, NEW texts \in Seq(Seq(Line)), Len(Loads(texts)) <= Cardinality(FreeFrames)
    PROVE  \E N : Brings(Loaded(Loads(texts)), texts, N)
<1> DEFINE L == Loads(texts)
           fs == Loaded(L)
           N == {f \in FreeFrames : Turn(f) <= Len(L)}
<1>1. timer \in Nat /\ pid_counter \in Nat
  BY DEF TypeOK
<1>2. /\ DOMAIN L = 1..Len(L) /\ Len(L) \in Nat
      /\ \A c \in 1..Len(L) : \E i \in DOMAIN texts, k \in {0, 1} :
             /\ Has(texts, i, k) /\ L[c] = PageFor(texts, i, k, timer + k) /\ k <= Len(L)
      /\ \A i \in DOMAIN texts, k \in {0, 1} : Has(texts, i, k) =>
             \E c \in 1..Len(L) : L[c] = PageFor(texts, i, k, timer + k)
  BY <1>1, LoadsPages
<1>3. \A c, d \in 1..Len(L) : L[c].pid = L[d].pid /\ L[c].page_number = L[d].page_number => c = d
  BY <1>1, LoadsOnce
<1>4. PICK m \in Nat : m = Len(L)
  BY <1>2
<1>5. \A f \in Frames : fs[f] = IF f \in FreeFrames /\ Turn(f) <= m THEN L[Turn(f)] ELSE framestore[f]
  BY <1>4, Zenon DEF Loaded
<1>6. fs = [f \in Frames |-> fs[f]]
  BY Zenon DEF Loaded
<1>7. PICK b \in Nat : FreeFrames \in SUBSET (0..b) /\ FreeFrames \in SUBSET Frames
  <2>1. FRAMESTORE_LENGTH - 1 \in Nat
    BY FramesAssumption
  <2> QED
    BY <2>1 DEF FreeFrames, Frames
<1>8. m <= Cardinality(FreeFrames) /\ Cardinality(FreeFrames) \in Nat
  BY <1>4, <1>7, Places
<1> HIDE DEF L, fs
<1>9. \A f \in FreeFrames : Turn(f) \in 1..Cardinality(FreeFrames)
  BY <1>7, Places DEF Turn
<1>10. \A f, g \in FreeFrames : Turn(f) = Turn(g) => f = g
  BY <1>7, NthPlace, Zenon DEF Turn
<1>11. \A c \in 1..m : \E f \in FreeFrames : Turn(f) = c
  <2>1. \A c \in 1..m : c \in 1..Cardinality(FreeFrames)
    BY <1>8
  <2> QED
    BY <2>1, <1>7, PlaceTaken DEF Turn
<1>12. ASSUME NEW f \in N PROVE f \in Frames /\ Turn(f) \in 1..m /\ fs[f] = L[Turn(f)]
  <2>1. f \in FreeFrames /\ f \in Frames /\ Turn(f) <= m
    BY <1>4, <1>7
  <2> QED
    BY <2>1, <1>5, <1>8, <1>9
<1>13. \A c \in 1..m : \E f \in N : Turn(f) = c
  BY <1>4, <1>11
<1>14. \A f \in Frames \ N : fs[f] = framestore[f]
  BY <1>4, <1>5
<1>15. N \subseteq FreeFrames
  OBVIOUS
<1> HIDE DEF N
<1>16. ASSUME NEW c \in 1..m
       PROVE  \E i \in DOMAIN texts, k \in {0, 1} :
                 Has(texts, i, k) /\ L[c] = PageFor(texts, i, k, timer + k) /\ k < m
  <2>1. PICK i \in DOMAIN texts, k \in {0, 1} : Has(texts, i, k) /\ L[c] = PageFor(texts, i, k, timer + k)
    BY <1>2, <1>4
  <2>2. k < m
    <3>1. CASE k = 0
      BY <3>1
    <3>2. CASE k = 1
      <4>1. Has(texts, i, 0)
        <5>1. PICK l \in Nat : l = Len(texts[i])
          BY LenProperties, ElementOfSeq
        <5>2. l > 3 * 1 => l > 3 * 0
          OBVIOUS
        <5> QED
          BY <5>1, <5>2, <2>1, <3>2 DEF Has
      <4>2. PICK d \in 1..m : L[d] = PageFor(texts, i, 0, timer + 0)
        BY <4>1, <1>2, <1>4
      <4>3. L[d].page_number = 0 /\ L[c].page_number = 1
        BY <4>2, <2>1, <3>2 DEF PageFor, set_page
      <4>4. c # d
        BY <4>3
      <4> QED
        BY <4>4, <3>2
    <3> QED
      BY <3>1, <3>2
  <2> QED
    BY <2>1, <2>2
<1>17. \A f \in N : \E i \in DOMAIN texts, k \in {0, 1} :
          Has(texts, i, k) /\ fs[f] = PageFor(texts, i, k, timer + k) /\ k < m
  BY <1>12, <1>16
<1>18. ASSUME NEW i \in DOMAIN texts, NEW k \in {0, 1}, Has(texts, i, k)
       PROVE  \E f \in N : fs[f] = PageFor(texts, i, k, timer + k)
  <2>1. PICK c \in 1..m : L[c] = PageFor(texts, i, k, timer + k)
    BY <1>2, <1>4, <1>18
  <2>2. PICK f \in N : Turn(f) = c
    BY <1>13
  <2> QED
    BY <2>1, <2>2, <1>12
<1>19. \A f, g \in N : fs[f].pid = fs[g].pid /\ fs[f].page_number = fs[g].page_number => f = g
  <2>1. SUFFICES ASSUME NEW f \in N, NEW g \in N, fs[f].pid = fs[g].pid, fs[f].page_number = fs[g].page_number
                 PROVE  f = g
    OBVIOUS
  <2>2. Turn(f) = Turn(g)
    BY <2>1, <1>3, <1>4, <1>12
  <2> QED
    BY <2>2, <1>10, <1>15
<1>20. Brings(fs, texts, N)
  BY <1>4, <1>6, <1>14, <1>15, <1>17, <1>18, <1>19 DEF Brings, L
<1> QED
  BY <1>20 DEF fs, L


\* What the loaders do when there is a frame for each page.
Starts(texts, ticks) ==
    /\ Admit(texts, texts, ticks) /\ texts \in Seq(Seq(Line)) /\ ticks \in Nat
    /\ Len(Loads(texts)) <= Cardinality(FreeFrames) /\ (ticks >= 2 \/ ticks >= Len(Loads(texts)))
    /\ DOMAIN pcb = {} /\ cpu.pid = 0 /\ cpu'.pid = 0

\* The process of the i-th script.
PidOf(i) == pid_counter + i - 1

\* The new processes have the scripts for texts and have run nothing.
LEMMA StartTexts ==
    ASSUME IInv, Texts, NEW texts, NEW ticks, Starts(texts, ticks)
    PROVE  /\ Texts'
           /\ \A p \in Pids : p \in Pids' /\ p \notin DOMAIN pcb' /\ text'[p] = text[p]
           /\ \A i \in DOMAIN texts : text'[PidOf(i)] = texts[i] /\ executed'[PidOf(i)] = <<>>
           /\ \A p \in Pids' : p \notin Pids => \E i \in DOMAIN texts : p = PidOf(i)
           /\ \A i \in DOMAIN texts : PidOf(i) \in Pids' /\ PidOf(i) \in DOMAIN pcb' /\ PidOf(i) >= pid_counter
           /\ \A p \in DOMAIN pcb' : \E i \in DOMAIN texts : p = PidOf(i)
<1> DEFINE none == [i \in DOMAIN texts |-> <<>>]
<1>1. PICK pc \in Nat : pc = pid_counter /\ pc >= 1
  BY DEF IInv, QueueIntegrity, TypeOK
<1>2. PICK n \in Nat : n = Len(texts) /\ DOMAIN texts = 1..n /\ texts \in [1..n -> Seq(Line)]
  BY LenProperties DEF Starts
<1>3. /\ text' = text \o texts /\ executed' = executed \o none
      /\ pid_counter' = pc + n
      /\ DOMAIN pcb' = pc..(pc + n - 1)
  <2>1. ~(Len(Loads(texts)) > Cardinality(FreeFrames))
    <3>1. FreeFrames \in SUBSET (0..FRAMESTORE_LENGTH) /\ FRAMESTORE_LENGTH \in Nat
      BY FramesAssumption DEF FreeFrames, Frames
    <3>2. Cardinality(FreeFrames) \in Nat
      BY <3>1, Places
    <3>3. Len(Loads(texts)) \in Nat
      BY LoadsPages DEF Starts, IInv, QueueIntegrity, TypeOK
    <3> QED
      BY <3>2, <3>3 DEF Starts
  <2>2. /\ text' = text \o texts /\ executed' = executed \o none
        /\ pid_counter' = pid_counter + Len(texts)
        /\ DOMAIN pcb' = DOMAIN pcb \cup pid_counter..(pid_counter + Len(texts) - 1)
    BY <2>1 DEF Starts, Admit
  <2> QED
    BY <2>2, <1>1, <1>2 DEF Starts
<1>4. none \in Seq(Seq(Line)) /\ Len(none) = n /\ \A i \in 1..n : none[i] = <<>>
  <2>1. <<>> \in Seq(Line)
    BY EmptySeq
  <2> QED
    BY <2>1, <1>2
<1> HIDE DEF none
<1>5. text \in Seq(Seq(Line)) /\ executed \in Seq(Seq(Line)) /\ Len(text) = pc - 1 /\ Len(executed) = pc - 1
  BY <1>1 DEF Texts
<1>6. texts \in Seq(Seq(Line))
  BY DEF Starts
<1>7. /\ text' \in Seq(Seq(Line)) /\ Len(text') = (pc - 1) + n
      /\ \A j \in 1..(pc - 1) + n : text'[j] = IF j <= pc - 1 THEN text[j] ELSE texts[j - (pc - 1)]
  <2>1. /\ text \o texts \in Seq(Seq(Line)) /\ Len(text \o texts) = Len(text) + Len(texts)
        /\ \A j \in 1..Len(text) + Len(texts) :
              (text \o texts)[j] = IF j <= Len(text) THEN text[j] ELSE texts[j - Len(text)]
    BY <1>5, <1>6, ConcatProperties, ZenonT(60)
  <2> QED
    BY <2>1, <1>2, <1>3, <1>5
<1>8. /\ executed' \in Seq(Seq(Line)) /\ Len(executed') = (pc - 1) + n
      /\ \A j \in 1..(pc - 1) + n : executed'[j] = IF j <= pc - 1 THEN executed[j] ELSE none[j - (pc - 1)]
  <2>1. /\ executed \o none \in Seq(Seq(Line)) /\ Len(executed \o none) = Len(executed) + Len(none)
        /\ \A j \in 1..Len(executed) + Len(none) :
              (executed \o none)[j] = IF j <= Len(executed) THEN executed[j] ELSE none[j - Len(executed)]
    BY <1>4, <1>5, ConcatProperties, ZenonT(60)
  <2> QED
    BY <2>1, <1>4, <1>3, <1>5
<1>9. Pids = 1..(pc - 1) /\ Pids' = 1..((pc - 1) + n)
  BY <1>1, <1>2, <1>3 DEF Pids
<1>10. ASSUME NEW p \in Pids
       PROVE  /\ p \in Pids' /\ p \notin DOMAIN pcb' /\ text'[p] = text[p] /\ executed'[p] = executed[p]
              /\ Ran(p)' = Ran(p) /\ Ran(p) = Len(text[p])
  <2>1. p \in 1..(pc - 1) + n /\ p <= pc - 1 /\ p \notin pc..(pc + n - 1)
    BY <1>1, <1>9
  <2>2. text'[p] = text[p] /\ executed'[p] = executed[p] /\ p \notin DOMAIN pcb'
    BY <2>1, <1>3, <1>7, <1>8
  <2>3. Ran(p) = Len(text[p])
    BY DEF Texts, Starts
  <2> QED
    BY <2>1, <2>2, <2>3, <1>9 DEF Ran
<1>11. ASSUME NEW i \in 1..n
       PROVE  /\ text'[PidOf(i)] = texts[i] /\ executed'[PidOf(i)] = <<>>
              /\ PidOf(i) >= pid_counter
              /\ PidOf(i) \in Pids' /\ PidOf(i) \in DOMAIN pcb' /\ PidOf(i) \notin Pids
  <2>1. PidOf(i) = pc + i - 1
    BY <1>1 DEF PidOf
  <2>2. /\ pc + i - 1 \in 1..(pc - 1) + n /\ ~(pc + i - 1 <= pc - 1) /\ (pc + i - 1) - (pc - 1) = i
        /\ pc + i - 1 \in pc..(pc + n - 1) /\ pc + i - 1 >= pc
    BY <1>1
  <2>3. text'[pc + i - 1] = texts[i] /\ executed'[pc + i - 1] = <<>>
    BY <2>2, <1>4, <1>7, <1>8
  <2> QED
    BY <2>1, <2>2, <2>3, <1>1, <1>3, <1>9
<1>12. ASSUME NEW p \in Pids', p \notin Pids PROVE \E i \in 1..n : p = PidOf(i)
  <2>1. p - (pc - 1) \in 1..n /\ p = pc + (p - (pc - 1)) - 1
    BY <1>1, <1>9, <1>12
  <2> QED
    BY <2>1, <1>1 DEF PidOf
<1>13. ASSUME NEW p \in DOMAIN pcb' PROVE \E i \in 1..n : p = PidOf(i)
  <2>1. p \in Pids' /\ p \notin Pids
    BY <1>3, <1>9, <1>1
  <2> QED
    BY <2>1, <1>12
<1>14. Texts'
  <2>1. ASSUME NEW p \in Pids'
        PROVE  /\ Len(executed'[p]) <= Len(text'[p])
               /\ \A i \in 1..Len(executed'[p]) : executed'[p][i] = text'[p][i]
               /\ p \notin DOMAIN pcb' => Len(executed'[p]) = Len(text'[p])
    <3>1. CASE p \in Pids
      BY <3>1, <1>10 DEF Texts, Ran
    <3>2. CASE p \notin Pids
      <4>1. PICK i \in 1..n : p = PidOf(i)
        BY <3>2, <1>12
      <4>2. text'[p] = texts[i] /\ executed'[p] = <<>> /\ p \in DOMAIN pcb'
        BY <4>1, <1>11
      <4>3. Len(texts[i]) \in Nat /\ Len(executed'[p]) = 0
        BY <4>2, <1>2, LenProperties
      <4> QED
        BY <4>2, <4>3
    <3> QED
      BY <3>1, <3>2
  <2>2. Len(text') = pid_counter' - 1 /\ Len(executed') = pid_counter' - 1
    BY <1>1, <1>3, <1>7, <1>8
  <2> QED
    BY <2>1, <2>2, <1>7, <1>8 DEF Texts, Ran
<1> QED
  BY <1>2, <1>10, <1>11, <1>12, <1>13, <1>14


\* The equations of Starts, once there is a frame for each page.
LEMMA StartStep ==
    ASSUME IInv, NEW texts, NEW ticks, Starts(texts, ticks)
    PROVE  /\ framestore' = Loaded(Loads(texts)) /\ timer' = timer + ticks
           /\ pid_counter' = pid_counter + Len(texts) /\ status' = status
           /\ ready' = ready \o [i \in DOMAIN texts |-> PidOf(i)]
           /\ \A i \in DOMAIN texts :
                 pcb'[PidOf(i)] = makePCB(get_page_table(framestore', PidOf(i)), After(texts[i], 6))
<1>1. PICK pc \in Nat : pc = pid_counter
  BY DEF IInv, QueueIntegrity, TypeOK
<1>2. PICK n \in Nat : n = Len(texts) /\ DOMAIN texts = 1..n
  BY LenProperties DEF Starts
<1>3. ~(Len(Loads(texts)) > Cardinality(FreeFrames))
  <2>1. FreeFrames \in SUBSET (0..FRAMESTORE_LENGTH) /\ FRAMESTORE_LENGTH \in Nat
    BY FramesAssumption DEF FreeFrames, Frames
  <2>2. Cardinality(FreeFrames) \in Nat
    BY <2>1, Places
  <2>3. Len(Loads(texts)) \in Nat
    BY LoadsPages DEF Starts, IInv, QueueIntegrity, TypeOK
  <2> QED
    BY <2>2, <2>3 DEF Starts
<1> DEFINE pids == pid_counter..(pid_counter + Len(texts) - 1)
           new(p) == makePCB(get_page_table(framestore', p), After(texts[p - pid_counter + 1], 6))
<1>4. /\ framestore' = Loaded(Loads(texts)) /\ timer' = timer + ticks
      /\ pid_counter' = pid_counter + Len(texts) /\ status' = status
      /\ ready' = ready \o [i \in DOMAIN texts |-> pid_counter + i - 1]
      /\ pcb' = [p \in DOMAIN pcb \cup pids |-> IF p \in pids THEN new(p) ELSE pcb[p]]
  BY <1>3 DEF Starts, Admit
<1> HIDE DEF new
<1>5. ASSUME NEW i \in 1..n PROVE pcb'[PidOf(i)] = makePCB(get_page_table(framestore', PidOf(i)), After(texts[i], 6))
  <2>1. PidOf(i) \in pids /\ PidOf(i) - pid_counter + 1 = i
    BY <1>1, <1>2 DEF PidOf
  <2>2. pcb'[PidOf(i)] = new(PidOf(i))
    BY <2>1, <1>4
  <2>3. new(PidOf(i)) = makePCB(get_page_table(framestore', PidOf(i)), After(texts[PidOf(i) - pid_counter + 1], 6))
    BY DEF new
  <2> QED
    BY <2>1, <2>2, <2>3
<1> QED
  BY <1>2, <1>4, <1>5 DEF PidOf

\* Each new process starts with the first two pages of its script.
LEMMA StartTables ==
    ASSUME IInv, Texts, NEW texts, NEW ticks, Starts(texts, ticks),
           NEW N, Brings(framestore', texts, N), NEW i \in DOMAIN texts
    PROVE  LET c == pcb'[PidOf(i)]
           IN  /\ c.curr_page = 0 /\ c.curr_line = 0 /\ c.fp = After(texts[i], 6)
               /\ c.num_pages \in 0..2
               /\ \A k : k \in 0..(c.num_pages - 1) <=> k \in {0, 1} /\ Has(texts, i, k)
               /\ \A k \in 0..(c.num_pages - 1) :
                     c.pagetable[k] \in N /\ framestore'[c.pagetable[k]] = PageFor(texts, i, k, timer + k)
<1> DEFINE fs == framestore'
           p == PidOf(i)
           own == {f \in Frames : fs[f].pid = p}
           K == {fs[f].page_number : f \in own}
           T == get_page_table(fs, p)
<1>1. pcb'[p] = makePCB(T, After(texts[i], 6))
  BY StartStep
<1>2. PICK n \in Nat : DOMAIN texts = 1..n
  BY LenProperties DEF Starts
<1>3. PICK pc \in Nat : pc = pid_counter /\ pc >= 1
  BY DEF IInv, QueueIntegrity, TypeOK
<1>4. ASSUME NEW j \in 1..n, PidOf(j) = p PROVE j = i
  <2>1. pc + j - 1 = pc + i - 1 /\ i \in 1..n
    BY <1>2, <1>3, <1>4 DEF PidOf
  <2> QED
    BY <2>1
<1>5. ASSUME NEW f \in own
      PROVE  f \in N /\ \E k \in {0, 1} : Has(texts, i, k) /\ fs[f] = PageFor(texts, i, k, timer + k) /\ fs[f].page_number = k
  <2>1. f \in N
    <3>1. SUFFICES ASSUME f \notin N PROVE FALSE
      OBVIOUS
    <3>2. fs[f] = framestore[f] /\ fs[f].pid = p
      BY <3>1 DEF Brings
    <3>3. framestore[f].pid \in Pids \cup {-1}
      BY DEF IInv, QueueIntegrity, TypeOK, Page
    <3>4. p \notin Pids \cup {-1}
      BY <1>2, <1>3 DEF PidOf, Pids
    <3> QED
      BY <3>2, <3>3, <3>4
  <2>2. PICK j \in 1..n, k \in {0, 1} : Has(texts, j, k) /\ fs[f] = PageFor(texts, j, k, timer + k)
    BY <2>1, <1>2 DEF Brings
  <2>3. fs[f].pid = PidOf(j) /\ fs[f].page_number = k
    BY <2>2 DEF PageFor, set_page, PidOf
  <2>4. j = i
    BY <2>3, <1>4
  <2> QED
    BY <2>1, <2>2, <2>3, <2>4
<1>6. ASSUME NEW k \in {0, 1}, Has(texts, i, k) PROVE \E f \in own : fs[f].page_number = k
  <2>1. PICK f \in N : fs[f] = PageFor(texts, i, k, timer + k)
    BY <1>6 DEF Brings
  <2>2. f \in Frames
    BY DEF Brings, FreeFrames
  <2>3. fs[f].pid = p /\ fs[f].page_number = k
    BY <2>1 DEF PageFor, set_page, PidOf
  <2> QED
    BY <2>2, <2>3
<1>7. K = {k \in {0, 1} : Has(texts, i, k)}
  BY <1>5, <1>6
<1>8. Cardinality(DOMAIN T) \in Nat /\ T \in [0..(Cardinality(DOMAIN T) - 1) -> Frames]
  <2>1. texts \in Seq(Seq(Line))
    BY DEF Starts
  <2> QED
    BY <2>1, <1>7, TableType
<1>9. T = [k \in K |-> CHOOSE f \in own : fs[f].page_number = k]
  BY Zenon DEF get_page_table
<1>10. PICK m \in Nat : m = Cardinality(DOMAIN T) /\ DOMAIN T = 0..(m - 1)
  BY <1>8
<1>11. 0..(m - 1) = K
  BY <1>9, <1>10
<1>12. m \in 0..2
  <2>1. 2 \notin K
    BY <1>7
  <2> HIDE DEF K
  <2>2. 2 \notin 0..(m - 1)
    BY <2>1, <1>11
  <2> QED
    BY <2>2
<1>13. \A k : k \in 0..(m - 1) <=> k \in {0, 1} /\ Has(texts, i, k)
  BY <1>7, <1>11
<1>14. ASSUME NEW k \in 0..(m - 1) PROVE T[k] \in N /\ fs[T[k]] = PageFor(texts, i, k, timer + k)
  <2>1. k \in {0, 1} /\ Has(texts, i, k) /\ k \in K
    BY <1>11, <1>13
  <2>2. T[k] = CHOOSE f \in own : fs[f].page_number = k
    BY <2>1, <1>9
  <2>3. T[k] \in own /\ fs[T[k]].page_number = k
    BY <2>1, <2>2, <1>6
  <2>4. PICK l \in {0, 1} : fs[T[k]] = PageFor(texts, i, l, timer + l) /\ fs[T[k]].page_number = l
    BY <2>3, <1>5
  <2> QED
    BY <2>3, <2>4, <1>5
<1> HIDE DEF T, K, own, p
<1>15. pcb'[p] = [pagetable |-> T, num_pages |-> m, curr_page |-> 0, curr_line |-> 0, fp |-> After(texts[i], 6)]
  BY <1>1, <1>10 DEF makePCB
<1> QED
  BY <1>12, <1>13, <1>14, <1>15 DEF p


\* A new process starts on time.
LEMMA StartFollows ==
    ASSUME IInv, Texts, NEW texts, NEW ticks, Starts(texts, ticks),
           NEW N, Brings(framestore', texts, N), NEW p \in DOMAIN pcb'
    PROVE  /\ Follows(p)' /\ executed'[p] = <<>>
           /\ \A k \in pcb'[p].curr_page..(pcb'[p].num_pages - 1) :
                framestore'[pcb'[p].pagetable[k]] =
                  set_page(k, p, Chunk(text'[p], k), framestore'[pcb'[p].pagetable[k]].last_used)
           /\ pcb'[p].fp = After(text'[p], 3 * pcb'[p].num_pages)
<1>1. PICK i \in DOMAIN texts : p = PidOf(i)
  BY StartTexts
<1>2. text'[p] = texts[i] /\ executed'[p] = <<>>
  BY <1>1, StartTexts
<1>3. PICK c : c = pcb'[p]
  OBVIOUS
<1>4. /\ c.curr_page = 0 /\ c.curr_line = 0 /\ c.fp = After(texts[i], 6) /\ c.num_pages \in 0..2
      /\ \A k : k \in 0..(c.num_pages - 1) <=> k \in {0, 1} /\ Has(texts, i, k)
      /\ \A k \in 0..(c.num_pages - 1) :
            c.pagetable[k] \in N /\ framestore'[c.pagetable[k]] = PageFor(texts, i, k, timer + k)
  BY <1>1, <1>3, StartTables
<1>5. PICK t : t = texts[i] /\ t \in Seq(Line)
  BY ElementOfSeq, LenProperties DEF Starts
<1>6. PICK l \in Nat : l = Len(t)
  BY <1>5, LenProperties
<1>7. PICK m \in 0..2 : m = c.num_pages
  BY <1>4
<1>8. \A k : k \in 0..(m - 1) <=> k \in {0, 1} /\ l > 3 * k
  BY <1>4, <1>5, <1>6, <1>7 DEF Has
<1>9. 3 * m < l + 3 /\ (m >= 2 \/ l <= 3 * m)
  <2>1. /\ 0 \in 0..(m - 1) <=> 0 \in {0, 1} /\ l > 3 * 0
        /\ 1 \in 0..(m - 1) <=> 1 \in {0, 1} /\ l > 3 * 1
    BY <1>8, Zenon
  <2> QED
    BY <2>1
<1>10. Position(c) = 0
  BY <1>4 DEF Position
<1>11. OnTime(c, t)
  BY <1>6, <1>7, <1>9, <1>10 DEF OnTime
<1>12. Follows(p)'
  <2>1. Len(executed'[p]) = 0
    BY <1>2
  <2>2. p # 0
    <3>1. p \in Pids' /\ pid_counter' \in Nat
      <4>1. Pids' = 1..(pid_counter' - 1)
        BY DEF Pids
      <4>2. pid_counter' = pid_counter + Len(texts) /\ pid_counter \in Nat /\ Len(texts) \in Nat
        BY StartStep, LenProperties DEF Starts, IInv, QueueIntegrity, TypeOK
      <4> QED
        BY <1>1, <4>2, StartTexts
    <3> QED
      BY <3>1 DEF Pids
  <2>3. ~InLine(p)'
    BY <2>2 DEF InLine, Starts
  <2> QED
    BY <2>1, <2>3, <1>2, <1>3, <1>5, <1>10, <1>11 DEF Follows, Ran
<1>13. c.fp = After(t, 3 * m)
  <2>1. CASE m = 2
    BY <2>1, <1>4, <1>5
  <2>2. CASE m # 2
    <3>1. l <= 3 * m /\ l <= 6 /\ 3 * m \in Nat
      BY <2>2, <1>9
    <3>2. After(t, 6) = <<>> /\ After(t, 3 * m) = <<>>
      BY <3>1, <1>5, <1>6, NothingAfter
    <3> QED
      BY <3>2, <1>4, <1>5
  <2> QED
    BY <2>1, <2>2
<1>14. ASSUME NEW k \in 0..(m - 1)
       PROVE  framestore'[c.pagetable[k]] = set_page(k, p, Chunk(t, k), framestore'[c.pagetable[k]].last_used)
  <2>1. framestore'[c.pagetable[k]] = set_page(k, p, Chunk(t, k), timer + k)
    BY <1>1, <1>4, <1>5, <1>7 DEF PageFor, PidOf
  <2>2. set_page(k, p, Chunk(t, k), timer + k).last_used = timer + k
    BY DEF set_page
  <2> QED
    BY <2>1, <2>2
<1> QED
  BY <1>2, <1>3, <1>4, <1>5, <1>7, <1>12, <1>13, <1>14

\* The store keeps its pages apart, and all of them older than the clock.
LEMMA StartStored ==
    ASSUME IInv, Texts, Stored, NEW texts, NEW ticks, Starts(texts, ticks),
           NEW N, Brings(framestore', texts, N)
    PROVE  /\ Stored' /\ Used' = Used \cup N
           /\ \A i \in Used : i \notin N /\ framestore'[i] = framestore[i] /\ framestore[i].pid \in Pids
                              /\ framestore[i].last_used < timer
           /\ \A i \in N : \E j \in DOMAIN texts, k \in {0, 1} :
                 framestore'[i] = PageFor(texts, j, k, timer + k)
<1>1. PICK tm \in Nat, ts \in Nat : tm = timer /\ ts = ticks /\ timer' = tm + ts
  BY StartStep DEF Starts, IInv, QueueIntegrity, TypeOK
<1>2. /\ N \subseteq FreeFrames
      /\ \A f \in Frames \ N : framestore'[f] = framestore[f]
      /\ \A f \in N : \E i \in DOMAIN texts, k \in {0, 1} :
            Has(texts, i, k) /\ framestore'[f] = PageFor(texts, i, k, timer + k) /\ k < Len(Loads(texts))
      /\ \A f, g \in N : framestore'[f].pid = framestore'[g].pid /\ framestore'[f].page_number = framestore'[g].page_number => f = g
  BY DEF Brings
<1>3. \A i \in Used : i \notin N /\ framestore'[i] = framestore[i]
  BY <1>2 DEF Used
<1>4. ASSUME NEW i \in N
      PROVE  \E j \in DOMAIN texts, k \in {0, 1} :
                /\ Has(texts, j, k) /\ framestore'[i] = PageFor(texts, j, k, timer + k)
                /\ framestore'[i].pid = PidOf(j) /\ framestore'[i].page_number = k
                /\ framestore'[i].last_used = tm + k /\ framestore'[i].available = FALSE
                /\ tm + k < tm + ts
  <2>1. PICK j \in DOMAIN texts, k \in {0, 1} :
           Has(texts, j, k) /\ framestore'[i] = PageFor(texts, j, k, timer + k) /\ k < Len(Loads(texts))
    BY <1>2
  <2>2. /\ framestore'[i].pid = PidOf(j) /\ framestore'[i].page_number = k
        /\ framestore'[i].last_used = tm + k /\ framestore'[i].available = FALSE
    BY <2>1, <1>1 DEF PageFor, set_page, PidOf
  <2>3. Len(Loads(texts)) \in Nat
    BY LoadsPages DEF Starts, IInv, QueueIntegrity, TypeOK
  <2>4. k < ts
    BY <2>1, <2>3, <1>1 DEF Starts
  <2> QED
    BY <2>1, <2>2, <2>4, <1>1
<1>5. Used' = Used \cup N
  <2>1. \A i \in Frames : i \in Used' <=> ~framestore'[i].available
    BY DEF Used, FreeFrames
  <2>2. \A i \in Frames : i \in Used <=> ~framestore[i].available
    BY DEF Used, FreeFrames
  <2>3. \A i \in N : ~framestore'[i].available
    BY <1>4
  <2>4. Used \subseteq Frames /\ Used' \subseteq Frames /\ N \subseteq Frames
    BY <1>2 DEF Used, FreeFrames
  <2> QED
    BY <1>2, <2>1, <2>2, <2>3, <2>4
<1>6. ASSUME NEW i \in Used
      PROVE  /\ framestore[i].pid \in Pids /\ framestore[i].page_number \in Nat
             /\ 3 * framestore[i].page_number < Len(text[framestore[i].pid])
             /\ framestore[i].last_used < timer /\ framestore[i].last_used \in Nat
  BY UsedFrame DEF Stored
<1>7. ASSUME NEW i \in Used'
      PROVE  /\ framestore'[i].pid \in Pids' /\ framestore'[i].page_number \in Nat
             /\ 3 * framestore'[i].page_number < Len(text'[framestore'[i].pid])
             /\ framestore'[i].pid \in DOMAIN pcb' => framestore'[i].page_number < pcb'[framestore'[i].pid].num_pages
             /\ framestore'[i].last_used < timer'
  <2>1. CASE i \in Used
    <3>1. framestore'[i] = framestore[i]
      BY <2>1, <1>3
    <3>2. PICK p \in Pids : p = framestore[i].pid
      BY <2>1, <1>6
    <3>3. p \in Pids' /\ p \notin DOMAIN pcb' /\ text'[p] = text[p]
      BY StartTexts
    <3>4. framestore[i].last_used < timer'
      BY <2>1, <1>1, <1>6
    <3> QED
      BY <2>1, <3>1, <3>2, <3>3, <3>4, <1>6
  <2>2. CASE i \in N
    <3>1. PICK j \in DOMAIN texts, k \in {0, 1} :
                /\ Has(texts, j, k) /\ framestore'[i].pid = PidOf(j) /\ framestore'[i].page_number = k
                /\ framestore'[i].last_used < timer'
      BY <2>2, <1>1, <1>4
    <3>2. text'[PidOf(j)] = texts[j] /\ PidOf(j) \in Pids'
      BY StartTexts
    <3>3. 3 * k < Len(texts[j])
      <4>1. Len(texts[j]) > 3 * k
        BY <3>1 DEF Has
      <4>2. Len(texts[j]) \in Nat
        BY ElementOfSeq, LenProperties DEF Starts
      <4> QED
        BY <4>1, <4>2
    <3>4. k < pcb'[PidOf(j)].num_pages
      <4>1. k \in 0..(pcb'[PidOf(j)].num_pages - 1) /\ pcb'[PidOf(j)].num_pages \in 0..2
        BY <3>1, StartTables
      <4> QED
        BY <4>1
    <3> QED
      BY <3>1, <3>2, <3>3, <3>4
  <2> QED
    BY <2>1, <2>2, <1>5
<1>8. ASSUME NEW i \in Used', NEW j \in Used', framestore'[i].pid = framestore'[j].pid,
             framestore'[i].page_number = framestore'[j].page_number
      PROVE  i = j
  <2>1. \A x \in Used : framestore'[x].pid \in Pids
    BY <1>3, <1>6
  <2>2. ASSUME NEW x \in N PROVE framestore'[x].pid \notin Pids
    <3>1. PICK d \in DOMAIN texts : framestore'[x].pid = PidOf(d)
      BY <1>4
    <3>2. PidOf(d) \in DOMAIN pcb'
      BY StartTexts
    <3> QED
      BY <3>1, <3>2, StartTexts
  <2>3. CASE i \in Used /\ j \in Used
    BY <2>3, <1>3, <1>8 DEF Stored
  <2>4. CASE i \in N /\ j \in N
    BY <2>4, <1>2, <1>8
  <2> QED
    BY <2>1, <2>2, <2>3, <2>4, <1>5, <1>8
<1>9. Stored'
  BY <1>7, <1>8 DEF Stored
<1> QED
  BY <1>3, <1>4, <1>5, <1>6, <1>9


\* The processes of a command are its batch.
LEMMA StartBatch ==
    ASSUME IInv, Texts, Stored, NEW texts, NEW ticks, Starts(texts, ticks),
           NEW N, Brings(framestore', texts, N), NEW b, b = pid_counter
    PROVE  Batch(b)' /\ b \in Pids' \cup {pid_counter'}
<1>1. PICK n \in Nat : n = Len(texts) /\ DOMAIN texts = 1..n
  BY LenProperties DEF Starts
<1>2. b \in Nat /\ b >= 1 /\ pid_counter' = b + n /\ timer \in Nat
  <2>1. pid_counter \in Nat \ {0} /\ timer \in Nat
    BY DEF IInv, QueueIntegrity, TypeOK
  <2>2. pid_counter' = pid_counter + Len(texts)
    BY StartStep
  <2> QED
    BY <2>1, <2>2, <1>1
<1>3. \A i \in 1..n : PidOf(i) = b + i - 1 /\ PidOf(i) >= b
  BY <1>2 DEF PidOf
<1>4. \A p \in DOMAIN pcb' : b <= p
  BY <1>1, <1>3, StartTexts
<1>5. b \in Pids' \cup {pid_counter'}
  BY <1>2 DEF Pids
<1> DEFINE S == {x \in (b..(pid_counter' - 1)) \X {0, 1} : 3 * x[2] < Len(text'[x[1]])}
           At(x, f) == framestore'[f].pid = x[1] /\ framestore'[f].page_number = x[2]
           g == [x \in S |-> CHOOSE f \in Frames : At(x, f)]
<1>6. ASSUME NEW x \in S PROVE \E f \in Frames : At(x, f)
  <2>1. PICK p \in b..(pid_counter' - 1), k \in {0, 1} : p = x[1] /\ k = x[2] /\ x = <<p, k>>
    OBVIOUS
  <2>2. PICK i \in 1..n : p = b + i - 1
    <3>1. p - b + 1 \in 1..n /\ p = b + (p - b + 1) - 1
      BY <1>2
    <3> QED
      BY <3>1
  <2>3. p = PidOf(i) /\ i \in DOMAIN texts
    BY <2>2, <1>1, <1>3
  <2>4. Has(texts, i, k)
    <3>1. 3 * k < Len(texts[i])
      BY <2>1, <2>3, StartTexts
    <3>2. Len(texts[i]) \in Nat
      BY <2>3, ElementOfSeq, LenProperties DEF Starts
    <3> QED
      BY <3>1, <3>2 DEF Has
  <2>5. PICK f \in N : framestore'[f] = PageFor(texts, i, k, timer + k)
    BY <2>3, <2>4 DEF Brings
  <2>6. f \in Frames
    BY DEF Brings, FreeFrames
  <2>7. framestore'[f].pid = p /\ framestore'[f].page_number = k
    BY <2>3, <2>5 DEF PageFor, set_page, PidOf
  <2> QED
    BY <2>1, <2>6, <2>7
<1>7. ASSUME NEW x \in S PROVE g[x] \in Frames /\ At(x, g[x])
  BY <1>6
<1>8. ASSUME NEW x \in S, NEW y \in S, g[x] = g[y] PROVE x = y
  <2>1. x[1] = y[1] /\ x[2] = y[2]
    <3>1. PICK f : f = g[x] /\ f = g[y]
      BY <1>8
    <3>2. At(x, f) /\ At(y, f)
      BY <3>1, <1>7
    <3> QED
      BY <3>2
  <2>2. x = <<x[1], x[2]>> /\ y = <<y[1], y[2]>>
    OBVIOUS
  <2> QED
    BY <2>1, <2>2
<1> HIDE DEF At
<1>9. g \in Injection(S, Frames)
  <2>1. g \in [S -> Frames]
    BY <1>7
  <2> HIDE DEF g
  <2> QED
    BY <2>1, <1>8 DEF Injection, IsInjective
<1>10. IsFiniteSet(Frames) /\ Cardinality(Frames) = FRAMESTORE_LENGTH
  <2>1. IsFiniteSet(0..(FRAMESTORE_LENGTH - 1))
    BY FramesAssumption, FS_Interval
  <2>2. Cardinality(0..(FRAMESTORE_LENGTH - 1)) = IF 0 > FRAMESTORE_LENGTH - 1 THEN 0 ELSE (FRAMESTORE_LENGTH - 1) - 0 + 1
    BY FramesAssumption, FS_Interval
  <2>3. (IF 0 > FRAMESTORE_LENGTH - 1 THEN 0 ELSE (FRAMESTORE_LENGTH - 1) - 0 + 1) = FRAMESTORE_LENGTH
    BY FramesAssumption
  <2> QED
    BY <2>1, <2>2, <2>3 DEF Frames
<1> HIDE DEF S, g
<1>11. Cardinality(S) <= FRAMESTORE_LENGTH
  BY <1>9, <1>10, FS_Injection
<1>12. Starters(b)' = S
  BY DEF Starters, S
<1>13. ASSUME NEW i \in Used', NEW j \in Used', framestore'[i].pid < b, b <= framestore'[j].pid
       PROVE  framestore'[i].last_used < framestore'[j].last_used
  <2>1. i \in Used
    <3>1. ASSUME i \in N PROVE FALSE
      <4>1. PICK d \in 1..n, k \in {0, 1} : framestore'[i] = PageFor(texts, d, k, timer + k)
        BY <3>1, <1>1, StartStored
      <4>2. framestore'[i].pid = b + d - 1
        BY <4>1 DEF PageFor, set_page
      <4>3. ~(b + d - 1 < b)
        BY <1>2
      <4> QED
        BY <4>2, <4>3, <1>13
    <3> QED
      BY <3>1, <1>13, StartStored
  <2>2. j \in N
    <3>1. ASSUME j \in Used PROVE FALSE
      <4>1. framestore'[j].pid \in Pids
        BY <3>1, StartStored
      <4> QED
        BY <4>1, <1>2, <1>13 DEF Pids
    <3> QED
      BY <3>1, <1>13, StartStored
  <2>3. PICK d \in DOMAIN texts, k \in {0, 1} : framestore'[j] = PageFor(texts, d, k, timer + k)
    BY <2>2, StartStored
  <2>4. framestore'[j].last_used = timer + k
    BY <2>3 DEF PageFor, set_page
  <2>5. framestore'[i].last_used < timer /\ framestore'[i].last_used \in Nat
    BY <2>1, StartStored, UsedFrame
  <2> QED
    BY <2>4, <2>5, <1>2
<1> QED
  BY <1>4, <1>5, <1>11, <1>12, <1>13 DEF Batch

\* A command has started its processes.
LEMMA StartFlat ==
    ASSUME FlatIInv, IInv', status = "ok", NEW texts, NEW ticks, Starts(texts, ticks),
           cpu'.at = "schedule", cpu'.policy = "RR" \/ Len(texts) <= 1
    PROVE  FlatIInv'
<1>1. IInv /\ Texts /\ Stored
  BY DEF FlatIInv
<1>2. texts \in Seq(Seq(Line)) /\ Len(Loads(texts)) <= Cardinality(FreeFrames) /\ cpu'.pid = 0
  BY DEF Starts
<1>3. TypeOK
  BY <1>1 DEF IInv, QueueIntegrity
<1>4. PICK N : Brings(framestore', texts, N)
  BY <1>1, <1>2, <1>3, LoadedOnce, StartStep
<1>5. Texts' /\ Stored'
  BY <1>1, <1>4, StartTexts, StartStored
<1>6. ASSUME NEW p \in DOMAIN pcb'
      PROVE  /\ Follows(p)' /\ Ran(p)' = 0 /\ p # 0
             /\ \A k \in pcb'[p].curr_page..(pcb'[p].num_pages - 1) :
                  framestore'[pcb'[p].pagetable[k]] =
                    set_page(k, p, Chunk(text'[p], k), framestore'[pcb'[p].pagetable[k]].last_used)
             /\ pcb'[p].fp = After(text'[p], 3 * pcb'[p].num_pages)
  <2>1. executed'[p] = <<>>
    BY <1>1, <1>4, StartFollows
  <2>2. Ran(p)' = 0
    BY <2>1 DEF Ran
  <2>3. p # 0
    <3>1. p \in Pids' /\ pid_counter' \in Nat
      BY DEF IInv, QueueIntegrity, TypeOK
    <3> QED
      BY <3>1 DEF Pids
  <2> QED
    BY <2>2, <2>3, <1>1, <1>4, StartFollows
<1>7. PagesAhead'
  BY <1>6 DEF PagesAhead
<1>8. \A p \in DOMAIN pcb' : Follows(p)'
  BY <1>6
<1>9. status' = "ok"
  BY <1>1, StartStep
<1>10. \E b \in Pids' \cup {pid_counter'} : Batch(b)'
  <2>1. PICK b : b = pid_counter
    OBVIOUS
  <2> QED
    BY <2>1, <1>1, <1>4, StartBatch
<1>11. CASE cpu'.policy = "RR"
  <2>1. \A p \in DOMAIN pcb' : Early(p)' = 0
    BY <1>2, <1>6 DEF Early, Begun
  <2>2. InStep'
    BY <2>1, <1>2 DEF InStep
  <2>3. DOMAIN pcb' = Waiting'
    BY <1>2, <1>9 DEF IInv, QueueIntegrity
  <2>4. UsedLately'
    <3>1. \A q \in Waiting' : ~(Ran(q)' >= 4)
      BY <2>3, <1>6
    <3> QED
      BY <3>1 DEF UsedLately
  <2>5. Turns'
    BY <1>2, <1>10, <1>11, <2>2, <2>4 DEF Turns
  <2> QED
    BY <2>5, <1>5, <1>7, <1>8, <1>9 DEF FlatIInv
<1>12. CASE cpu'.policy # "RR"
  <2>1. \A p, q \in DOMAIN pcb' : p = q
    <3>1. PICK n \in Nat : n = Len(texts) /\ DOMAIN texts = 1..n /\ n <= 1
      BY <1>2, <1>12, LenProperties
    <3>2. \A p \in DOMAIN pcb' : \E i \in 1..n : p = PidOf(i)
      BY <1>1, <3>1, StartTexts
    <3>3. \A i \in 1..n : i = 1
      BY <3>1
    <3> QED
      BY <3>2, <3>3
  <2>2. Turns'
    BY <1>2, <1>10, <1>12, <2>1 DEF Turns
  <2> QED
    BY <2>2, <1>5, <1>7, <1>8, <1>9 DEF FlatIInv
<1> QED
  BY <1>11, <1>12


\* A command that starts no process.
LEMMA NoneStartFlat ==
    ASSUME FlatIInv, IInv', status = "ok", DOMAIN pcb = {}, cpu.cmd \in UserCommands,
           cpu.cmd.op \in {"run", "exec"}, cpu'.at = "schedule", cpu'.pid = 0, cpu'.cmd = cpu.cmd,
           UNCHANGED <<framestore, timer, pid_counter, pcb, ready, text, executed>>,
           status' = "ub" \/ (status' = status /\ cpu'.policy # "RR")
    PROVE  FlatIInv'
<1>1. Texts' /\ Stored' /\ PagesAhead' /\ (\A b : Batch(b) => Batch(b)') /\ Pids' = Pids
  BY SameStore
<1>2. DOMAIN pcb' = {} /\ Turns
  BY DEF FlatIInv
<1>3. CASE status' = "ub"
  BY <1>1, <1>2, <1>3 DEF FlatIInv
<1>4. CASE status' = "ok" /\ cpu'.policy # "RR"
  <2>1. \E b \in Pids' \cup {pid_counter'} : Batch(b)'
    BY <1>1, <1>2 DEF Turns
  <2>2. Turns'
    BY <1>2, <1>4, <2>1 DEF Turns
  <2> QED
    BY <1>1, <1>2, <1>4, <2>2 DEF FlatIInv
<1> QED
  BY <1>3, <1>4

\* Loaders that find a frame for each page, or do not.
LEMMA AdmitFlat ==
    ASSUME FlatIInv, IInv', status = "ok", DOMAIN pcb = {}, cpu.cmd \in UserCommands, cpu.pid = 0,
           cpu.cmd.op \in {"run", "exec"}, cpu'.at = "schedule", cpu'.pid = 0, cpu'.cmd = cpu.cmd,
           NEW texts \in Seq(Seq(Line)), NEW ticks \in Nat, Admit(texts, texts, ticks),
           ticks >= 2 \/ ticks >= Len(Loads(texts)), cpu'.policy = "RR" \/ Len(texts) <= 1
    PROVE  FlatIInv'
<1>1. CASE Len(Loads(texts)) > Cardinality(FreeFrames)
  <2>1. status' = "ub" /\ UNCHANGED <<framestore, timer, pid_counter, pcb, ready, text, executed>>
    BY <1>1 DEF Admit
  <2> QED
    BY <2>1, NoneStartFlat
<1>2. CASE ~(Len(Loads(texts)) > Cardinality(FreeFrames))
  <2>1. FreeFrames \in SUBSET (0..FRAMESTORE_LENGTH) /\ FRAMESTORE_LENGTH \in Nat
    BY FramesAssumption DEF FreeFrames, Frames
  <2>2. Cardinality(FreeFrames) \in Nat
    BY <2>1, Places
  <2>3. Len(Loads(texts)) \in Nat
    BY LoadsPages DEF FlatIInv, IInv, QueueIntegrity, TypeOK
  <2>4. Starts(texts, ticks)
    BY <1>2, <2>2, <2>3 DEF Starts
  <2> QED
    BY <2>4, StartFlat
<1> QED
  BY <1>1, <1>2

\* A line of a script starts no process, so the command was typed at the prompt.
LEMMA TypedAtPrompt ==
    ASSUME FlatIInv, status = "ok", cpu.at = "command", cpu.cmd.op \in {"run", "exec"}, NEW policy, Return(policy)
    PROVE  /\ cpu.pid = 0 /\ DOMAIN pcb = {} /\ cpu.cmd \in UserCommands
           /\ cpu'.at = "schedule" /\ cpu'.pid = 0 /\ cpu'.cmd = cpu.cmd /\ cpu'.policy = policy
<1>1. cpu.pid = 0 /\ DOMAIN pcb = {} /\ cpu.cmd \in UserCommands
  BY DEF FlatIInv, Turns
<1>2. cpu' = [cpu EXCEPT !.at = "schedule", !.policy = policy]
  BY <1>1 DEF Return, in_background
<1>3. cpu \in [at : {"prompt", "command", "schedule", "execute", "advance"}, pid : Pids \cup {0},
                quanta : 0..MAX_INT, policy : Policies, cmd : {cpu.cmd}]
  BY DEF FlatIInv, IInv, QueueIntegrity, TypeOK
<1> QED
  BY <1>1, <1>2, <1>3

\* run: one process, alone.
LEMMA RunFlat == ASSUME FlatIInv, run PROVE FlatIInv'
<1> DEFINE f == cpu.cmd.args[1]
           texts == <<LinesOf(f)>>
<1>1. /\ status = "ok" /\ cpu.at = "command" /\ cpu.cmd.op \in {"run", "exec"}
      /\ process_initialize(f) /\ Return("FCFS")
  BY DEF run
<1>2. IInv' /\ IInv
  BY RunIInv DEF FlatIInv
<1>3. /\ cpu.pid = 0 /\ DOMAIN pcb = {} /\ cpu.cmd \in UserCommands
      /\ cpu'.at = "schedule" /\ cpu'.pid = 0 /\ cpu'.cmd = cpu.cmd /\ cpu'.policy = "FCFS"
  BY <1>1, TypedAtPrompt
<1>4. CASE f \in DOMAIN Script
  <2>1. LinesOf(f) \in Seq(Line)
    BY <1>4, LinesType
  <2>2. texts \in Seq(Seq(Line)) /\ Len(texts) <= 1
    BY <2>1
  <2>3. Admit(texts, texts, Len(Loads(texts)))
    BY <1>1, <1>4 DEF process_initialize
  <2> HIDE DEF texts
  <2>4. PICK ticks \in Nat : ticks = Len(Loads(texts))
    BY <1>2, <2>2, LoadsPages DEF IInv, QueueIntegrity, TypeOK
  <2>5. Admit(texts, texts, ticks) /\ ticks >= Len(Loads(texts))
    BY <2>3, <2>4
  <2> QED
    BY <1>1, <1>2, <1>3, <2>2, <2>5, AdmitFlat
<1>5. CASE f \notin DOMAIN Script
  <2>1. UNCHANGED <<framestore, timer, pid_counter, pcb, ready, text, executed>> /\ status' = status
    BY <1>1, <1>5 DEF process_initialize, kernelVars
  <2> QED
    BY <1>1, <1>2, <1>3, <2>1, NoneStartFlat
<1> QED
  BY <1>4, <1>5

\* exec: the loader sees all of a script that fits into the buffer.
LEMMA ExecFlat == ASSUME AllFlat, FlatIInv, exec PROVE FlatIInv'
<1> DEFINE fs == cpu.cmd.args
           whole == [i \in DOMAIN fs |-> LinesOf(fs[i])]
           seen == [i \in DOMAIN fs |-> SubSeq(whole[i], 1, IF Len(whole[i]) < StdioLines
                                                            THEN Len(whole[i]) ELSE StdioLines)]
<1>1. /\ status = "ok" /\ cpu.at = "command" /\ cpu.cmd.op \in {"run", "exec"}
      /\ initialize_multiple_process(fs) /\ Return("RR")
  BY DEF exec
<1>2. IInv' /\ IInv
  BY ExecIInv DEF FlatIInv
<1>3. /\ cpu.pid = 0 /\ DOMAIN pcb = {} /\ cpu.cmd \in UserCommands
      /\ cpu'.at = "schedule" /\ cpu'.pid = 0 /\ cpu'.cmd = cpu.cmd /\ cpu'.policy = "RR"
  BY <1>1, TypedAtPrompt
<1>4. CASE \A i \in DOMAIN fs : fs[i] \in DOMAIN Script
  <2>1. Admit(whole, seen, 2)
    BY <1>1, <1>4, Zenon DEF initialize_multiple_process
  <2>2. PICK n \in Nat : DOMAIN fs = 1..n
    <3>1. fs \in Seq({fs[i] : i \in DOMAIN fs})
      BY <1>2, Parts DEF CpuOK, IsCommand, IsSequence
    <3> HIDE DEF fs
    <3> QED
      BY <3>1, LenProperties
  <2>3. ASSUME NEW i \in 1..n PROVE whole[i] \in Seq(Line) /\ seen[i] = whole[i]
    <3>1. whole[i] = LinesOf(fs[i]) /\ fs[i] \in DOMAIN Script
      BY <1>4, <2>2
    <3>2. whole[i] \in Seq(Line)
      BY <3>1, LinesType
    <3> DEFINE w == whole[i]
    <3>3. PICK l \in Nat : l = Len(w) /\ DOMAIN w = 1..l
      BY <3>2, LenProperties
    <3>4. l <= StdioLines
      <4>1. Len(Script[fs[i]]) <= StdioLines
        BY <3>1 DEF AllFlat
      <4>2. DOMAIN Script[fs[i]] = 1..l
        BY <3>1, <3>3 DEF LinesOf
      <4>3. Script[fs[i]] \in Seq({Script[fs[i]][j] : j \in DOMAIN Script[fs[i]]})
        BY <3>1, ScriptAssumption DEF IsSequence
      <4>4. Len(Script[fs[i]]) = l
        BY <4>2, <4>3, LenProperties
      <4> QED
        BY <4>1, <4>4
    <3>5. seen[i] = SubSeq(w, 1, IF l < StdioLines THEN l ELSE StdioLines)
      BY <2>2, <3>3, Zenon
    <3>6. (IF l < StdioLines THEN l ELSE StdioLines) = l
      BY <3>4, StdioAssumption
    <3> HIDE DEF w, seen
    <3>7. SubSeq(w, 1, l) = w
      <4>1. w \in Seq(Line) /\ l = Len(w)
        BY <3>2, <3>3 DEF w
      <4>2. 0 + 1 = 1 /\ 0 \in Nat /\ 0 <= l /\ l - 0 = l
        OBVIOUS
      <4>3. PICK x : x = SubSeq(w, 0 + 1, l)
        OBVIOUS
      <4>4. x \in Seq(Line) /\ Len(x) = l /\ \A j \in 1..l : x[j] = w[0 + j]
        <5>1. l = IF 0 <= l THEN l - 0 ELSE 0
          BY <4>2
        <5> QED
          BY <4>1, <4>3, <5>1, PartOf, SMTT(30)
      <4>5. \A j \in 1..l : x[j] = w[j]
        BY <4>4
      <4> QED
        BY <4>1, <4>3, <4>4, <4>5, SeqEqual
    <3> QED
      BY <3>2, <3>5, <3>6, <3>7 DEF w
  <2>4. seen = whole
    <3>1. seen = [i \in 1..n |-> seen[i]] /\ whole = [i \in 1..n |-> whole[i]]
      BY <2>2
    <3> HIDE DEF seen, whole
    <3> QED
      BY <2>3, <3>1
  <2>5. whole \in Seq(Seq(Line))
    <3>1. whole = [i \in 1..n |-> whole[i]]
      BY <2>2
    <3>2. PICK w : w = whole
      OBVIOUS
    <3> HIDE DEF whole, seen
    <3>3. w = [i \in 1..n |-> w[i]] /\ \A i \in 1..n : w[i] \in Seq(Line)
      BY <2>3, <3>1, <3>2
    <3>4. w \in Seq(Seq(Line))
      BY <3>3
    <3> QED
      BY <3>2, <3>4
  <2> HIDE DEF seen, whole
  <2>6. Admit(whole, whole, 2) /\ 2 \in Nat /\ 2 >= 2
    BY <2>1, <2>4
  <2> QED
    BY <1>1, <1>2, <1>3, <2>5, <2>6, AdmitFlat
<1>5. CASE ~(\A i \in DOMAIN fs : fs[i] \in DOMAIN Script)
  <2>1. UNCHANGED <<framestore, timer, pid_counter, pcb, ready, text, executed>> /\ status' = "ub"
    BY <1>1, <1>5 DEF initialize_multiple_process
  <2> QED
    BY <1>1, <1>2, <1>3, <2>1, NoneStartFlat
<1> QED
  BY <1>4, <1>5


-----------------------------------------------------------------------------
(* The invariant of flat scripts, and what follows from it.                *)

\* The shell as it starts.
LEMMA InitFlat == Init => FlatIInv
<1> SUFFICES ASSUME Init PROVE FlatIInv
  OBVIOUS
<1>1. IInv
  BY InitIInv
<1>2. /\ pid_counter = 1 /\ status = "ok" /\ cpu = Prompt /\ text = <<>> /\ executed = <<>>
      /\ framestore = [i \in Frames |-> EmptyPage]
  BY DEF Init
<1>3. DOMAIN pcb = {}
  BY DEF Init
<1>4. Pids = {} /\ 1..(pid_counter - 1) = {}
  BY <1>2 DEF Pids
<1>5. Used = {}
  BY <1>2 DEF Used, FreeFrames, EmptyPage
<1>6. Texts
  <2>1. text \in Seq(Seq(Line)) /\ executed \in Seq(Seq(Line)) /\ Len(text) = 0 /\ Len(executed) = 0
    BY <1>2
  <2> QED
    BY <2>1, <1>2, <1>4 DEF Texts
<1>7. Stored
  BY <1>5 DEF Stored
<1>8. PagesAhead
  BY <1>3 DEF PagesAhead
<1>9. Batch(pid_counter)
  <2>1. Starters(pid_counter) = {}
    <3>1. pid_counter..(pid_counter - 1) = {}
      BY <1>2
    <3> QED
      BY <3>1 DEF Starters
  <2>2. Cardinality(Starters(pid_counter)) <= FRAMESTORE_LENGTH
    BY <2>1, FS_EmptySet, FramesAssumption
  <2> QED
    BY <2>2, <1>3, <1>5 DEF Batch
<1>10. cpu.at = "prompt" /\ cpu.pid = 0 /\ cpu.policy = "FCFS"
  BY <1>2 DEF Prompt
<1>11. Turns
  BY <1>3, <1>9, <1>10 DEF Turns
<1> QED
  BY <1>1, <1>2, <1>3, <1>6, <1>7, <1>8, <1>11 DEF FlatIInv

\* A step that changes nothing.
LEMMA StutterFlat == ASSUME FlatIInv, UNCHANGED vars PROVE FlatIInv'
<1>1. UNCHANGED <<framestore, timer, pid_counter, pcb, ready, cpu, status, text, executed>>
  BY DEF vars
<1>2. IInv'
  <2>1. IInv /\ [Next]_vars
    BY DEF FlatIInv
  <2> QED
    BY <2>1, NextIInv
<1>3. Texts' /\ Stored' /\ PagesAhead' /\ (\A b : Batch(b) => Batch(b)') /\ Pids' = Pids /\ Used' = Used
  BY <1>1, SameStore
<1>4. \A p \in DOMAIN pcb' : Follows(p)'
  <2>1. ASSUME NEW p \in DOMAIN pcb' PROVE Follows(p)'
    <3>1. p \in DOMAIN pcb /\ (InLine(p)' <=> InLine(p))
      BY <1>1 DEF InLine
    <3> QED
      BY <3>1, <1>1, SameStore
  <2> QED
    BY <2>1
<1>5. ASSUME status = "ok" PROVE Turns'
  <2>1. Turns
    BY <1>5 DEF FlatIInv
  <2>2. \E b \in Pids' \cup {pid_counter'} : Batch(b)'
    BY <1>1, <1>3, <2>1 DEF Turns
  <2>3. cpu.pid # 0 /\ cpu.at \in {"command", "advance"} => Newest(CurrentFrame)'
    BY <1>1, <1>3, <2>1 DEF Turns, Newest, CurrentFrame, Current
  <2>4. ASSUME cpu.policy = "RR" PROVE InStep' /\ UsedLately'
    <3>1. LinesNow' = LinesNow
      BY <1>1 DEF LinesNow, Quanta
    <3>2. cpu.pid # 0 => cpu'.quanta \in {1, 2}
      BY <2>1, <2>4, <1>1 DEF Turns, InStep
    <3> QED
      BY <3>1, <3>2, <2>4, <1>1, <1>5, SameTurns
  <2> QED
    BY <2>1, <2>2, <2>3, <2>4, <1>1 DEF Turns
<1> QED
  BY <1>1, <1>2, <1>3, <1>4, <1>5 DEF FlatIInv

\* A write past the allocation of a page table changes none of this.
LEMMA PastTableFlat == ASSUME FlatIInv, FetchPastTable PROVE FlatIInv'
<1>1. /\ UNCHANGED <<framestore, timer, pid_counter, pcb, ready, cpu, text, executed>>
      /\ status' = "ub" /\ cpu.at = "execute"
  BY DEF FetchPastTable, Executing
<1>2. IInv'
  BY PastTableIInv DEF FlatIInv
<1>3. Texts' /\ Stored' /\ PagesAhead'
  BY <1>1, SameStore
<1>4. ASSUME NEW p \in DOMAIN pcb' PROVE Follows(p)'
  <2>1. p \in DOMAIN pcb /\ (InLine(p)' <=> InLine(p))
    BY <1>1 DEF InLine
  <2> QED
    BY <2>1, <1>1, SameStore
<1> QED
  BY <1>1, <1>2, <1>3, <1>4 DEF FlatIInv

\* Every step keeps the invariant.
LEMMA NextFlat == ASSUME AllFlat PROVE FlatIInv /\ [Next]_vars => FlatIInv'
<1> SUFFICES ASSUME FlatIInv, [Next]_vars PROVE FlatIInv'
  OBVIOUS
<1>1. ASSUME NEW c \in UserCommands, Type(c) PROVE FlatIInv'
  BY <1>1, TypeFlat
<1>2. CASE run
  BY <1>2, RunFlat
<1>3. CASE exec
  BY <1>3, ExecFlat
<1>4. CASE quit
  BY <1>4, QuitFlat
<1>5. CASE echo
  BY <1>5, EchoFlat
<1>6. CASE Dispatch
  BY <1>6, DispatchFlat
<1>7. CASE SchedulerReturns
  BY <1>7, SchedulerReturnsFlat
<1>8. CASE fetch_a_page
  BY <1>8, FetchFlat
<1>9. CASE EndOfFile
  BY <1>9, EndOfFileFlat
<1>10. CASE NoneLine
  BY <1>10, NoneLineFlat
<1>11. CASE get_line
  BY <1>11, GetLineFlat
<1>12. CASE Advance
  BY <1>12, AdvanceFlat
<1>14. CASE FetchPastTable
  BY <1>14, PastTableFlat
<1>13. CASE UNCHANGED vars
  BY <1>13, StutterFlat
<1> QED
  BY <1>1, <1>2, <1>3, <1>4, <1>5, <1>6, <1>7, <1>8, <1>9, <1>10, <1>11, <1>12, <1>13, <1>14 DEF Next, Kernel

\* Scripts that start no others and fit into one stdio buffer: the invariant
\* that says which lines each process has run, where the pages of those it has
\* yet to run are, and why the page that LRU takes is none of them.
THEOREM FlatInvariance == ASSUME AllFlat PROVE Spec => []FlatIInv
<1>1. Init => FlatIInv
  BY InitFlat
<1>2. FlatIInv /\ [Next]_vars => FlatIInv'
  BY NextFlat
<1> QED
  BY <1>1, <1>2, PTL DEF Spec, SafetySpec


\* LRU replacement never takes a page its owner has yet to execute: what a page
\* table leads to, from the page in hand on, is the owner's text.
THEOREM LRUSparesPages == ASSUME AllFlat PROVE Spec => []PagesAhead
<1>1. FlatIInv => PagesAhead
  BY DEF FlatIInv
<1> QED
  BY <1>1, FlatInvariance, PTL

\* A process interprets the lines of its own script, in order, and all of them
\* before terminate_process.
THEOREM ScriptsRun == ASSUME AllFlat PROVE Spec => []ExecutesScript
<1>1. ASSUME FlatIInv PROVE ExecutesScript
  <2>1. ASSUME NEW p \in Pids
        PROVE  /\ executed[p] = SubSeq(text[p], 1, Len(executed[p]))
               /\ p \notin DOMAIN pcb => Len(executed[p]) >= Len(text[p])
    <3>1. IInv /\ Texts
      BY <1>1 DEF FlatIInv
    <3>2. PICK t \in Seq(Line), e \in Seq(Line) : t = text[p] /\ e = executed[p]
      BY <3>1, TextFacts
    <3>3. PICK m \in Nat, n \in Nat : m = Len(t) /\ n = Len(e) /\ DOMAIN e = 1..n
      BY LenProperties
    <3>4. n <= m /\ (\A i \in 1..n : e[i] = t[i]) /\ (p \notin DOMAIN pcb => n = m)
      BY <3>1, <3>2, <3>3 DEF Texts, Ran
    <3>5. PICK x : x = SubSeq(t, 0 + 1, n)
      OBVIOUS
    <3>6. x \in Seq(Line) /\ Len(x) = n /\ \A i \in 1..n : x[i] = t[0 + i]
      <4>1. n = (IF 0 <= n THEN n - 0 ELSE 0) /\ 0 \in Nat /\ n <= Len(t)
        BY <3>3, <3>4
      <4> QED
        BY <3>5, <4>1, PartOf, SMTT(30)
    <3>7. \A i \in 1..n : x[i] = e[i]
      <4>1. \A i \in 1..n : 0 + i = i
        OBVIOUS
      <4> QED
        BY <3>4, <3>6, <4>1
    <3>8. x = e
      BY <3>3, <3>6, <3>7, SeqEqual
    <3>9. SubSeq(t, 1, n) = e
      BY <3>5, <3>8
    <3> QED
      BY <3>2, <3>3, <3>4, <3>9
  <2> QED
    BY <2>1 DEF ExecutesScript
<1> QED
  BY <1>1, FlatInvariance, PTL

\* The first two pages of each script, by the script's place and the page's
\* number, and the scripts of a command.
FirstPages(texts) == {x \in (DOMAIN texts) \X {0, 1} : Len(texts[x[1]]) > 3 * x[2]}
ScriptsOf(c) == [i \in DOMAIN c.args |-> LinesOf(c.args[i])]

\* The loaders take a frame for each of them.
LEMMA LoadsLength ==
    ASSUME NEW texts, NEW l \in Nat, DOMAIN texts = 1..l
    PROVE  Len(Loads(texts)) = Cardinality(FirstPages(texts))
<1> DEFINE some(k) == {i \in DOMAIN texts : Len(texts[i]) > 3 * k}
           A == some(0) \X {0}
           B == some(1) \X {1}
<1>1. ASSUME NEW k \in {0, 1}, NEW t
      PROVE  /\ Len(Round(k, texts, t)) = Cardinality(some(k)) /\ IsFiniteSet(some(k)) /\ Cardinality(some(k)) \in Nat
             /\ \E S : Round(k, texts, t) \in Seq(S)
  <2>1. some(k) \in SUBSET (0..l)
    OBVIOUS
  <2>2. PICK n \in Nat : n = Cardinality(some(k)) /\ IsFiniteSet(some(k))
    BY <2>1, Places
  <2>3. PICK R : R = Round(k, texts, t)
    OBVIOUS
  <2>4. DOMAIN R = 1..n /\ R = [c \in 1..n |-> R[c]]
    <3>1. R = [c \in 1..Cardinality(some(k)) |-> set_page(k, pid_counter + Nth(some(k), c) - 1,
                                                        Chunk(texts[Nth(some(k), c)], k), t)]
      BY <2>3, Zenon DEF Round
    <3> HIDE DEF some
    <3> QED
      BY <3>1, <2>2
  <2>5. R \in Seq({R[c] : c \in 1..n}) /\ Len(R) = n
    BY <2>4
  <2> QED
    BY <2>2, <2>3, <2>5
<1> HIDE DEF some
<1>2. Len(Loads(texts)) = Cardinality(some(0)) + Cardinality(some(1))
  <2>1. PICK Q, R : Q = Round(0, texts, timer) /\ R = Round(1, texts, timer + 1)
    OBVIOUS
  <2>2. Len(Q) = Cardinality(some(0)) /\ Len(R) = Cardinality(some(1)) /\ Len(Q) \in Nat /\ Len(R) \in Nat
        /\ (\E S : Q \in Seq(S)) /\ \E S : R \in Seq(S)
    BY <1>1, <2>1
  <2>3. PICK S, T : Q \in Seq(S) /\ R \in Seq(T)
    BY <2>2
  <2>4. Q \in Seq(S \cup T) /\ R \in Seq(S \cup T)
    BY <2>3, SeqMonotonic
  <2>5. Len(Q \o R) = Len(Q) + Len(R)
    BY <2>4, ConcatProperties
  <2> QED
    BY <2>1, <2>2, <2>5 DEF Loads
<1>3. IsFiniteSet(A) /\ Cardinality(A) = Cardinality(some(0)) /\ IsFiniteSet(B) /\ Cardinality(B) = Cardinality(some(1))
  <2>1. ASSUME NEW k \in {0, 1}
        PROVE  IsFiniteSet(some(k) \X {k}) /\ Cardinality(some(k) \X {k}) = Cardinality(some(k))
    <3>1. IsFiniteSet({k}) /\ Cardinality({k}) = 1
      BY FS_Singleton
    <3>2. IsFiniteSet(some(k)) /\ Cardinality(some(k)) \in Nat
      BY <1>1
    <3>3. IsFiniteSet(some(k) \X {k}) /\ Cardinality(some(k) \X {k}) = Cardinality(some(k)) * Cardinality({k})
      BY <3>1, <3>2, FS_Product
    <3> QED
      BY <3>1, <3>2, <3>3
  <2> QED
    BY <2>1
<1>4. A \cap B = {}
  OBVIOUS
<1>5. FirstPages(texts) = A \cup B
  BY DEF FirstPages, some
<1> HIDE DEF A, B
<1>6. Cardinality(A \cup B) = Cardinality(A) + Cardinality(B)
  <2>1. Cardinality(A \cup B) = Cardinality(A) + Cardinality(B) - Cardinality(A \cap B)
    BY <1>3, FS_Union
  <2>2. Cardinality(A \cap B) = 0
    BY <1>4, FS_EmptySet
  <2>3. Cardinality(A) \in Nat /\ Cardinality(B) \in Nat
    BY <1>3, FS_CardinalityType
  <2> QED
    BY <2>1, <2>2, <2>3
<1> QED
  BY <1>2, <1>3, <1>5, <1>6

\* An empty store has a frame for each first page of a command's scripts.
AllFit == \A c \in UserCommands : c.op \in {"run", "exec"} =>
              Cardinality(FirstPages(ScriptsOf(c))) <= FRAMESTORE_LENGTH

\* When a loader finds no frame although the store is large enough for the
\* command, it is the pages of completed processes that are in the way.
THEOREM OnlyDeadPages == ASSUME AllFlat, AllFit PROVE Spec => []DeadPagesInTheWay
<1>1. ASSUME FlatIInv PROVE DeadPagesInTheWay
  <2>1. SUFFICES ASSUME status = "ub", cpu.at # "execute"
                 PROVE  Len(Loads(ScriptsOf(cpu.cmd))) <=
                          Cardinality({i \in Frames : framestore[i].pid \in Pids \ DOMAIN pcb} \cup FreeFrames)
    BY DEF DeadPagesInTheWay, ScriptsOf
  <2>2. IInv /\ Stored /\ DOMAIN pcb = {} /\ cpu.cmd \in UserCommands /\ cpu.cmd.op \in {"run", "exec"}
    BY <1>1, <2>1 DEF FlatIInv
  <2>3. {i \in Frames : framestore[i].pid \in Pids \ DOMAIN pcb} \cup FreeFrames = Frames
    <3>1. \A i \in Used : framestore[i].pid \in Pids
      BY <2>2 DEF Stored
    <3> QED
      BY <3>1, <2>2 DEF Used, FreeFrames
  <2>4. Cardinality(Frames) = FRAMESTORE_LENGTH
    <3>1. Cardinality(0..(FRAMESTORE_LENGTH - 1)) = IF 0 > FRAMESTORE_LENGTH - 1 THEN 0 ELSE (FRAMESTORE_LENGTH - 1) - 0 + 1
      BY FramesAssumption, FS_Interval
    <3>2. (IF 0 > FRAMESTORE_LENGTH - 1 THEN 0 ELSE (FRAMESTORE_LENGTH - 1) - 0 + 1) = FRAMESTORE_LENGTH
      BY FramesAssumption
    <3> QED
      BY <3>1, <3>2 DEF Frames
  <2>5. PICK l \in Nat : DOMAIN ScriptsOf(cpu.cmd) = 1..l
    <3>0. IsSequence(cpu.cmd.args)
      BY <2>2 DEF IInv, QueueIntegrity, TypeOK, IsCommand
    <3>1. PICK a : a = cpu.cmd.args /\ a \in Seq({a[i] : i \in DOMAIN a})
      BY <3>0 DEF IsSequence
    <3>2. PICK n \in Nat : DOMAIN a = 1..n
      BY <3>1, LenProperties
    <3> QED
      BY <3>1, <3>2 DEF ScriptsOf
  <2>6. Len(Loads(ScriptsOf(cpu.cmd))) = Cardinality(FirstPages(ScriptsOf(cpu.cmd)))
    BY <2>5, LoadsLength
  <2>7. Cardinality(FirstPages(ScriptsOf(cpu.cmd))) <= FRAMESTORE_LENGTH
    BY <2>2 DEF AllFit
  <2> QED
    BY <2>3, <2>4, <2>6, <2>7
<1> QED
  BY <1>1, FlatInvariance, PTL
=============================================================================
