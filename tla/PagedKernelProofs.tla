-------------------------- MODULE PagedKernelProofs --------------------------
(***************************************************************************)
(* Proofs about PagedKernel, for every number of frames, every set of      *)
(* scripts and every list of arguments.  The first part, with Invariance,  *)
(* QueueSound and ScanSound, holds whatever the commands of the scripts    *)
(* return.  The second assumes AllPlain, and ends in PlainInvariance and   *)
(* the properties of plain scripts.                                        *)
(***************************************************************************)
EXTENDS PagedKernel, CountingLemmas, SequenceTheorems

-----------------------------------------------------------------------------
(* Pages and PCBs.                                                         *)

\* All that a PCB can be.
PCBs == UNION {[size : Nat, page_table_size : {n}, source_file : Seq(Lines),
                page_table : [0..(n - 1) -> Pages], program_counter : [0..(n - 1) -> 0..3]] : n \in Nat}

\* The type invariant's test for PCBs is membership in that set.
LEMMA PCBsArePCBs == \A c : c \in PCBs <=> IsPCB(c)
<1> SUFFICES ASSUME NEW c PROVE c \in PCBs <=> IsPCB(c)
  OBVIOUS
<1>1. ASSUME c \in PCBs PROVE IsPCB(c)
  <2>1. PICK n \in Nat : c \in [size : Nat, page_table_size : {n}, source_file : Seq(Lines),
                page_table : [0..(n - 1) -> Pages], program_counter : [0..(n - 1) -> 0..3]]
    BY <1>1 DEF PCBs
  <2>2. c.page_table_size = n
    BY <2>1
  <2> QED
    BY <2>1, <2>2 DEF IsPCB
<1>2. ASSUME IsPCB(c) PROVE c \in PCBs
  <2>1. PICK n \in Nat : n = c.page_table_size
    BY <1>2 DEF IsPCB
  <2>2. c \in [size : Nat, page_table_size : {n}, source_file : Seq(Lines),
                page_table : [0..(n - 1) -> Pages], program_counter : [0..(n - 1) -> 0..3]]
    BY <2>1, <1>2 DEF IsPCB
  <2> QED
    BY <2>2 DEF PCBs
<1> QED
  BY <1>1, <1>2

\* What load_PAGE and PAGE_evict do to a PCB: one page changes, and perhaps
\* the position in the file.
OnePage(c, d, k) ==
    /\ d.size = c.size /\ d.page_table_size = c.page_table_size /\ d.program_counter = c.program_counter
    /\ DOMAIN d.page_table = DOMAIN c.page_table
    /\ \A j \in DOMAIN c.page_table : j # k => d.page_table[j] = c.page_table[j]

\* The fields of a PCB.
LEMMA PCBFields ==
    ASSUME NEW c, IsPCB(c)
    PROVE  /\ c.size \in Nat /\ c.page_table_size \in Nat /\ c.source_file \in Seq(Lines)
           /\ c.page_table \in [0..(c.page_table_size - 1) -> Pages]
           /\ c.program_counter \in [0..(c.page_table_size - 1) -> 0..3]
           /\ DOMAIN c.page_table = 0..(c.page_table_size - 1)
           /\ DOMAIN c.program_counter = 0..(c.page_table_size - 1)
  BY DEF IsPCB

\* What load_PAGE and PAGE_evict assign in a PCB.
PageSet(c, d, k, pg, file) == d = [c EXCEPT !.source_file = file, !.page_table[k] = pg]

\* Those assignments change one page, and the result is a PCB.
LEMMA PageChanges ==
    ASSUME NEW c, IsPCB(c), NEW k \in DOMAIN c.page_table, NEW pg \in Pages, NEW file \in Seq(Lines),
           NEW d, PageSet(c, d, k, pg, file)
    PROVE  IsPCB(d) /\ OnePage(c, d, k) /\ d.page_table[k] = pg /\ d.source_file = file
<1> DEFINE n == c.page_table_size
           t == [c.page_table EXCEPT ![k] = pg]
<1>1. n \in Nat /\ c \in [size : Nat, page_table_size : Nat, source_file : Seq(Lines),
              page_table : [0..(n - 1) -> Pages], program_counter : [0..(n - 1) -> 0..3]]
  BY DEF IsPCB
<1>2. t \in [0..(n - 1) -> Pages] /\ t[k] = pg /\ DOMAIN t = DOMAIN c.page_table
      /\ \A j \in DOMAIN c.page_table : j # k => t[j] = c.page_table[j]
  BY <1>1
<1>3. d = [c EXCEPT !.source_file = file, !.page_table = t]
  BY <1>1 DEF PageSet
<1> HIDE DEF t
<1>5. /\ d.size = c.size /\ d.page_table_size = n /\ d.program_counter = c.program_counter
      /\ d.page_table = t /\ d.source_file = file
      /\ d \in [size : Nat, page_table_size : Nat, source_file : Seq(Lines),
              page_table : [0..(n - 1) -> Pages], program_counter : [0..(n - 1) -> 0..3]]
  BY <1>1, <1>2, <1>3
<1>7. IsPCB(d)
  BY <1>1, <1>5, Zenon DEF IsPCB
<1>8. OnePage(c, d, k)
  BY <1>2, <1>5, Zenon DEF OnePage
<1> QED
  BY <1>2, <1>5, <1>7, <1>8

-----------------------------------------------------------------------------
(* Frames: frame_alloc, load_PAGE and PAGE_evict.                          *)

\* The set that load_PAGE and PAGE_evict work in: P are the processes, Q the
\* owners of frames.
States(P, Q) == [fr : [FrameSlots -> [owner : Q \cup {0}, line : Lines]], pcb : [P -> PCBs],
                 lru : Seq(P \X Nat), ok : BOOLEAN]

\* At most page k of process p is different.
Differs(a, b, p, k) ==
    /\ DOMAIN b = DOMAIN a
    /\ OnePage(a[p], b[p], k)
    /\ \A q \in DOMAIN a : q # p => b[q] = a[q]

\* frame_alloc finds three slots in front of the border.
LEMMA SpaceFound ==
    ASSUME NEW fr, Spaces(fr) # {}
    PROVE  /\ Lowest(Spaces(fr)) \in Nat
           /\ \A j \in 0..2 : Lowest(Spaces(fr)) + j \in FrameSlots
<1>1. Spaces(fr) \in SUBSET Nat
  BY StoreAssumption DEF Spaces, FrameSlots, FRAME_VAR_BORDER
<1>2. \E m \in Spaces(fr) : \A k \in Spaces(fr) : m <= k
  BY <1>1, LeastNat
<1>3. Lowest(Spaces(fr)) \in Spaces(fr)
  BY <1>2, Zenon DEF Lowest
<1>4. PICK b \in Nat : b = Lowest(Spaces(fr)) /\ b + 2 < FRAME_STORE_SIZE
  BY <1>1, <1>3 DEF Spaces, FRAME_VAR_BORDER
<1>5. \A j \in 0..2 : b + j \in 0..(FRAME_STORE_SIZE - 1)
  BY <1>4, StoreAssumption
<1> QED
  BY <1>4, <1>5 DEF FrameSlots, FRAME_VAR_BORDER

\* mem_set_value_at writes what frames hold.
LEMMA FrameWithType ==
    ASSUME NEW O, NEW fr \in [FrameSlots -> [owner : O, line : Lines]], NEW p \in O, NEW base \in Nat,
           NEW ls \in Seq(Lines)
    PROVE  FrameWith(fr, p, base, ls) \in [FrameSlots -> [owner : O, line : Lines]]
<1>1. PICK l \in Nat : l = Len(ls) /\ DOMAIN ls = 1..l /\ ls \in [1..l -> Lines]
  BY LenProperties
<1>2. ASSUME NEW i \in FrameSlots, i \in base..(base + 2), i - base < l
      PROVE  ls[i - base + 1] \in Lines
  <2>1. i - base + 1 \in 1..l
    BY <1>2, <1>1
  <2> QED
    BY <2>1, <1>1
<1>3. \A i \in FrameSlots : fr[i].line \in Lines /\ fr[i] \in [owner : O, line : Lines]
  OBVIOUS
<1>4. ASSUME NEW i \in FrameSlots
      PROVE  (IF i \in base..(base + 2)
              THEN [owner |-> p, line |-> IF i - base < Len(ls) THEN ls[i - base + 1] ELSE fr[i].line]
              ELSE fr[i]) \in [owner : O, line : Lines]
  BY <1>1, <1>2, <1>3
<1> QED
  BY <1>4, Zenon DEF FrameWith

\* The page that load_PAGE sets up.
LEMMA PageAtType ==
    ASSUME NEW base, \A j \in 0..2 : base + j \in FrameSlots, NEW n \in Nat
    PROVE  PageAt(base, n) \in Pages
<1>1. [j \in 0..2 |-> base + j] \in [0..2 -> FrameSlots \cup {1000}]
  OBVIOUS
<1>2. [j \in 0..2 |-> j < n] \in [0..2 -> BOOLEAN]
  OBVIOUS
<1> QED
  BY <1>1, <1>2, ZenonT(60) DEF PageAt, Pages

\* load_PAGE keeps the types and changes one page of one process.
LEMMA LoadPage ==
    ASSUME NEW P, NEW Q, NEW s \in States(P, Q), NEW p \in P, p \in Q,
           NEW k \in DOMAIN s.pcb[p].page_table
    PROVE  LET t == load_PAGE(s, p, k)
           IN  t \in States(P, Q) /\ t.lru = s.lru /\ Differs(s.pcb, t.pcb, p, k)
<1> DEFINE t == load_PAGE(s, p, k)
           c == s.pcb[p]
           file == c.source_file
           ls == SubSeq(file, 1, IF Len(file) < 3 THEN Len(file) ELSE 3)
           base == Lowest(Spaces(s.fr))
           O == Q \cup {0}
<1>1. /\ s.fr \in [FrameSlots -> [owner : O, line : Lines]] /\ s.pcb \in [P -> PCBs]
      /\ s.lru \in Seq(P \X Nat) /\ s.ok \in BOOLEAN
  BY DEF States
<1>2. IsPCB(c) /\ file \in Seq(Lines)
  <2>1. IsPCB(c)
    BY <1>1, PCBsArePCBs
  <2> QED
    BY <2>1, PCBFields
<1>3. CASE Spaces(s.fr) = {}
  <2>1. t = [s EXCEPT !.ok = FALSE]
    BY <1>3 DEF load_PAGE
  <2>2. t \in States(P, Q) /\ t.lru = s.lru /\ t.pcb = s.pcb
    BY <2>1 DEF States
  <2> HIDE DEF t
  <2>3. Differs(s.pcb, t.pcb, p, k)
    BY <2>2 DEF Differs, OnePage
  <2> QED
    BY <2>2, <2>3 DEF t
<1>4. CASE Spaces(s.fr) # {}
  <2> DEFINE d == WithPage(c, k, base, Len(ls))
  <2>0. t = [s EXCEPT !.fr = FrameWith(@, p, base, ls), !.pcb[p] = WithPage(@, k, base, Len(ls))]
    BY <1>4 DEF load_PAGE
  <2>1. t = [s EXCEPT !.fr = FrameWith(s.fr, p, base, ls), !.pcb = [s.pcb EXCEPT ![p] = d]]
    <3> HIDE DEF t, base, ls
    <3> QED
      BY <2>0, <1>1
  <2>2. base \in Nat /\ \A j \in 0..2 : base + j \in FrameSlots
    BY <1>4, SpaceFound
  <2>3. ls \in Seq(Lines) /\ Len(ls) \in Nat
    <3>1. PICK l \in Nat : l = Len(file) /\ DOMAIN file = 1..l /\ file \in [1..l -> Lines]
      BY <1>2, LenProperties
    <3>2. PICK m \in Nat : m = (IF l < 3 THEN l ELSE 3) /\ m <= l
      OBVIOUS
    <3>3. ls = SubSeq(file, 1, m)
      BY <3>1, <3>2
    <3>4. \A i \in 1..m : file[i] \in Lines
      BY <3>1, <3>2
    <3> HIDE DEF ls, file
    <3>5. ls \in Seq(Lines)
      BY <3>3, <3>4, SubSeqProperties
    <3> QED
      BY <3>5, LenProperties
  <2>4. SubSeq(file, Len(ls) + 1, Len(file)) \in Seq(Lines)
    <3>1. PICK l \in Nat : l = Len(file) /\ DOMAIN file = 1..l /\ file \in [1..l -> Lines]
      BY <1>2, LenProperties
    <3>2. PICK m \in Nat : m = Len(ls)
      BY <2>3
    <3>3. m + 1 \in Int /\ \A i \in (m + 1)..l : file[i] \in Lines
      BY <3>1
    <3> HIDE DEF ls, file
    <3>4. SubSeq(file, m + 1, l) \in Seq(Lines)
      BY <3>3, SubSeqProperties
    <3> QED
      BY <3>1, <3>2, <3>4
  <2>5. PageAt(base, Len(ls)) \in Pages
    BY <2>2, <2>3, PageAtType
  <2>6. PageSet(c, d, k, PageAt(base, Len(ls)), SubSeq(file, Len(ls) + 1, Len(file)))
    BY DEF WithPage, PageSet
  <2> HIDE DEF d, c, file, ls, base
  <2>7. IsPCB(d) /\ OnePage(c, d, k)
    <3>1. k \in DOMAIN c.page_table
      BY DEF c
    <3>2. PICK pg, u : /\ pg = PageAt(base, Len(ls)) /\ u = SubSeq(file, Len(ls) + 1, Len(file))
                       /\ pg \in Pages /\ u \in Seq(Lines) /\ PageSet(c, d, k, pg, u)
      BY <2>4, <2>5, <2>6, Zenon
    <3>3. IsPCB(c) /\ k \in DOMAIN c.page_table /\ pg \in Pages /\ u \in Seq(Lines) /\ PageSet(c, d, k, pg, u)
      BY <3>1, <3>2, <1>2, Zenon
    <3> QED
      BY <3>3, PageChanges
  <2>8. FrameWith(s.fr, p, base, ls) \in [FrameSlots -> [owner : O, line : Lines]]
    BY <1>1, <2>2, <2>3, FrameWithType
  <2>9. [s.pcb EXCEPT ![p] = d] \in [P -> PCBs]
    BY <1>1, <2>7, PCBsArePCBs
  <2>10. t \in States(P, Q) /\ t.lru = s.lru /\ t.pcb = [s.pcb EXCEPT ![p] = d]
    BY <2>1, <2>8, <2>9, <1>1 DEF States
  <2> HIDE DEF t
  <2>11. Differs(s.pcb, t.pcb, p, k)
    <3>1. t.pcb[p] = d /\ DOMAIN t.pcb = DOMAIN s.pcb /\ \A q \in DOMAIN s.pcb : q # p => t.pcb[q] = s.pcb[q]
      BY <2>10, <1>1
    <3> QED
      BY <3>1, <2>7 DEF Differs, c
  <2> QED
    BY <2>10, <2>11 DEF t
<1> QED
  BY <1>3, <1>4

\* A page none of whose lines is in a frame.
Invalid(pg) == \A j \in 0..2 : ~pg.valid_bit[j]

\* PAGE_evict keeps the types and makes one page of one process invalid.
LEMMA EvictPage ==
    ASSUME NEW P, NEW Q, NEW s \in States(P, Q), NEW p \in P,
           NEW k \in DOMAIN s.pcb[p].page_table
    PROVE  LET t == PAGE_evict(s, p, k)
           IN  /\ t \in States(P, Q) /\ t.lru = s.lru /\ Differs(s.pcb, t.pcb, p, k)
               /\ Invalid(t.pcb[p].page_table[k])
<1> DEFINE t == PAGE_evict(s, p, k)
           c == s.pcb[p]
           pg == [index |-> [j \in 0..2 |-> 0], valid_bit |-> [j \in 0..2 |-> FALSE]]
           d == [c EXCEPT !.page_table[k] = pg]
           O == Q \cup {0}
<1>1. /\ s.fr \in [FrameSlots -> [owner : O, line : Lines]] /\ s.pcb \in [P -> PCBs]
      /\ s.lru \in Seq(P \X Nat) /\ s.ok \in BOOLEAN
  BY DEF States
<1>2. IsPCB(c)
  BY <1>1, PCBsArePCBs
<1>3. pg \in Pages /\ Invalid(pg)
  <2>1. 0 \in FrameSlots
    BY StoreAssumption DEF FrameSlots, FRAME_VAR_BORDER
  <2> QED
    BY <2>1 DEF Pages, Invalid
<1>4. none \in [owner : O, line : Lines]
  BY DEF none, Lines
<1>5. Emptied(s, p, k) \in [FrameSlots -> [owner : O, line : Lines]]
  <2>1. \A i \in FrameSlots : s.fr[i] \in [owner : O, line : Lines]
    BY <1>1
  <2> QED
    BY <2>1, <1>4, Zenon DEF Emptied
<1>0. t = [s EXCEPT !.fr = Emptied(s, p, k), !.pcb[p].page_table[k] = pg]
  BY Zenon DEF PAGE_evict
<1> HIDE DEF t, pg
<1>6. t = [s EXCEPT !.fr = Emptied(s, p, k), !.pcb = [s.pcb EXCEPT ![p] = d]]
  BY <1>0, <1>1
<1>7. IsPCB(d) /\ OnePage(c, d, k) /\ d.page_table[k] = pg
  <2>1. k \in DOMAIN c.page_table /\ PageSet(c, d, k, pg, c.source_file)
    BY <1>2 DEF PageSet, IsPCB
  <2>2. c.source_file \in Seq(Lines)
    BY <1>2, PCBFields
  <2> HIDE DEF c, d
  <2> QED
    BY <2>1, <2>2, <1>2, <1>3, PageChanges
<1> HIDE DEF d
<1>9. [s.pcb EXCEPT ![p] = d] \in [P -> PCBs]
  BY <1>1, <1>7, PCBsArePCBs
<1>10. t \in States(P, Q) /\ t.lru = s.lru /\ t.pcb = [s.pcb EXCEPT ![p] = d]
  BY <1>5, <1>6, <1>9, <1>1 DEF States
<1>11. t.pcb[p] = d /\ DOMAIN t.pcb = DOMAIN s.pcb /\ \A q \in DOMAIN s.pcb : q # p => t.pcb[q] = s.pcb[q]
  BY <1>10, <1>1
<1>12. Differs(s.pcb, t.pcb, p, k)
  BY <1>11, <1>7 DEF Differs
<1>13. Invalid(t.pcb[p].page_table[k])
  BY <1>3, <1>7, <1>11
<1> QED
  BY <1>10, <1>12, <1>13 DEF t

-----------------------------------------------------------------------------
(* The LRU list.                                                           *)

\* Listed in terms of the set of the pages on the list.
LEMMA ListedRange ==
    ASSUME NEW list, NEW procs
    PROVE  Listed(list, procs) <=>
             /\ \A pg \in Range(list) : pg[2] \in DOMAIN procs[pg[1]].page_table
             /\ \A p \in DOMAIN procs : \A k \in DOMAIN procs[p].page_table :
                  ~Invalid(procs[p].page_table[k]) => <<p, k>> \in Range(list)
  BY DEF Listed, Range, Invalid

\* Where page tables have the same pages, the same pages must be listed.
LEMMA PageTaken ==
    ASSUME NEW a, NEW b, NEW list, NEW new, NEW P, NEW p \in P, NEW k,
           DOMAIN a = P, Range(list) \subseteq P \X Nat, k \in DOMAIN a[p].page_table,
           Listed(list, a), Differs(a, b, p, k),
           Range(new) = Range(list) \cup {<<p, k>>}
    PROVE  Listed(new, b)
<1>1. \A q \in P : DOMAIN b[q].page_table = DOMAIN a[q].page_table
  BY DEF Differs, OnePage
<1>2. \A q \in P : \A j \in DOMAIN a[q].page_table :
         q # p \/ j # k => b[q].page_table[j] = a[q].page_table[j]
  BY DEF Differs, OnePage
<1>3. /\ \A pg \in Range(list) : pg[2] \in DOMAIN a[pg[1]].page_table
      /\ \A q \in P : \A j \in DOMAIN a[q].page_table :
                  ~Invalid(a[q].page_table[j]) => <<q, j>> \in Range(list)
  BY ListedRange
<1>4. DOMAIN b = P
  BY DEF Differs
<1>5. ASSUME NEW pg \in Range(new) PROVE pg[2] \in DOMAIN b[pg[1]].page_table
  <2>1. CASE pg = <<p, k>>
    <3>1. pg[1] = p /\ pg[2] = k
      BY <2>1
    <3> QED
      BY <3>1, <1>1
  <2>2. CASE pg \in Range(list)
    <3>1. pg[1] \in P
      BY <2>2
    <3> QED
      BY <3>1, <2>2, <1>1, <1>3
  <2> QED
    BY <2>1, <2>2
<1>6. ASSUME NEW q \in P, NEW j \in DOMAIN b[q].page_table, ~Invalid(b[q].page_table[j])
      PROVE  <<q, j>> \in Range(new)
  <2>1. CASE q = p /\ j = k
    BY <2>1
  <2>2. CASE q # p \/ j # k
    BY <2>2, <1>1, <1>2, <1>3, <1>6
  <2> QED
    BY <2>1, <2>2
<1> QED
  BY <1>4, <1>5, <1>6, ListedRange

\* A page that is not valid any more can leave the list.
LEMMA PageLeft ==
    ASSUME NEW a, NEW b, NEW list, NEW new, NEW P, NEW p \in P, NEW k,
           DOMAIN a = P, Range(list) \subseteq P \X Nat, k \in DOMAIN a[p].page_table,
           Listed(list, a), Differs(a, b, p, k), Invalid(b[p].page_table[k]),
           Range(new) \subseteq Range(list), Range(list) \subseteq Range(new) \cup {<<p, k>>}
    PROVE  Listed(new, b)
<1>1. \A q \in P : DOMAIN b[q].page_table = DOMAIN a[q].page_table
  BY DEF Differs, OnePage
<1>2. \A q \in P : \A j \in DOMAIN a[q].page_table :
         q # p \/ j # k => b[q].page_table[j] = a[q].page_table[j]
  BY DEF Differs, OnePage
<1>3. /\ \A pg \in Range(list) : pg[2] \in DOMAIN a[pg[1]].page_table
      /\ \A q \in P : \A j \in DOMAIN a[q].page_table :
                  ~Invalid(a[q].page_table[j]) => <<q, j>> \in Range(list)
  BY ListedRange
<1>4. DOMAIN b = P
  BY DEF Differs
<1>5. ASSUME NEW pg \in Range(new) PROVE pg[2] \in DOMAIN b[pg[1]].page_table
  <2>1. pg \in Range(list) /\ pg[1] \in P
    OBVIOUS
  <2> QED
    BY <2>1, <1>1, <1>3
<1>6. ASSUME NEW q \in P, NEW j \in DOMAIN b[q].page_table, ~Invalid(b[q].page_table[j])
      PROVE  <<q, j>> \in Range(new)
  <2>1. q # p \/ j # k
    BY <1>6
  <2>2. <<q, j>> \in Range(list) /\ <<q, j>> # <<p, k>>
    BY <2>1, <1>1, <1>2, <1>3, <1>6
  <2> QED
    BY <2>2
<1> QED
  BY <1>4, <1>5, <1>6, ListedRange

\* Only the set of pages on the list and the page tables matter.
LEMMA SameListed ==
    ASSUME NEW a, NEW b, NEW list, NEW new, Listed(list, a), Range(new) = Range(list),
           DOMAIN b = DOMAIN a, \A p \in DOMAIN a : b[p].page_table = a[p].page_table,
           \A pg \in Range(list) : pg[1] \in DOMAIN a
    PROVE  Listed(new, b)
<1>3. /\ \A pg \in Range(list) : pg[2] \in DOMAIN a[pg[1]].page_table
      /\ \A q \in DOMAIN a : \A j \in DOMAIN a[q].page_table :
                  ~Invalid(a[q].page_table[j]) => <<q, j>> \in Range(list)
  BY ListedRange
<1>4. \A pg \in Range(new) : pg[2] \in DOMAIN b[pg[1]].page_table
  BY <1>3
<1>5. \A q \in DOMAIN b : \A j \in DOMAIN b[q].page_table :
                  ~Invalid(b[q].page_table[j]) => <<q, j>> \in Range(new)
  BY <1>3
<1> QED
  BY <1>4, <1>5, ListedRange

\* add_head puts a page in front.
LEMMA AddHead ==
    ASSUME NEW S, NEW list \in Seq(S), NEW x \in S
    PROVE  /\ <<x>> \o list \in Seq(S)
           /\ Range(<<x>> \o list) = Range(list) \cup {x}
           /\ <<x>> \o list # <<>>
<1>0. PICK one : one = <<x>>
  OBVIOUS
<1>1. one \in Seq(S) /\ Len(one) = 1 /\ Range(one) = {x}
  <2>1. <<x>> \in Seq(S) /\ Len(<<x>>) = 1
    OBVIOUS
  <2>2. DOMAIN <<x>> = 1..1 /\ <<x>>[1] = x /\ 1..1 = {1}
    OBVIOUS
  <2> QED
    BY <2>1, <2>2, <1>0 DEF Range
<1>2. one \o list \in Seq(S) /\ Len(one \o list) = Len(one) + Len(list)
  BY <1>1, ConcatProperties
<1>4. PICK l \in Nat : l = Len(list) /\ DOMAIN list = 1..l
  BY LenProperties
<1>7. PICK t : t = one \o list
  OBVIOUS
<1>8. DOMAIN t = 1..(l + 1) /\ t[1] = x /\ \A i \in 1..l : t[i + 1] = list[i]
  <2>1. Len(t) = l + 1 /\ \A i \in 1..Len(one) + Len(list) : t[i] = IF i <= Len(one) THEN one[i] ELSE list[i - Len(one)]
    BY <1>1, <1>2, <1>4, <1>7, ConcatProperties
  <2>2. \A i \in 1..(1 + l) : t[i] = IF i <= 1 THEN one[i] ELSE list[i - 1]
    BY <2>1, <1>1, <1>4
  <2>3. \A i \in 1..l : i + 1 \in 1..(1 + l) /\ ~(i + 1 <= 1) /\ (i + 1) - 1 = i
    OBVIOUS
  <2>4. DOMAIN t = 1..(l + 1)
    BY <2>1, <1>2, <1>7, LenProperties
  <2>5. one[1] = x
    BY <1>0
  <2>6. 1 \in 1..(1 + l)
    OBVIOUS
  <2>7. t[1] = one[1]
    BY <2>2, <2>6
  <2>8. \A i \in 1..l : t[i + 1] = list[i]
    BY <2>2, <2>3
  <2> QED
    BY <2>4, <2>5, <2>7, <2>8
<1>9. \A i \in 1..(l + 1) : i = 1 \/ \E j \in 1..l : i = j + 1
  <2>1. \A i \in 1..(l + 1) : i # 1 => i - 1 \in 1..l /\ i = (i - 1) + 1
    OBVIOUS
  <2> QED
    BY <2>1
<1>10. 1 \in 1..(l + 1) /\ \A i \in 1..l : i + 1 \in 1..(l + 1)
  OBVIOUS
<1>3. Range(one \o list) = Range(one) \cup Range(list)
  <2>1. ASSUME NEW y \in Range(t) PROVE y \in Range(list) \cup {x}
    <3>1. PICK i \in 1..(l + 1) : y = t[i]
      BY <1>8 DEF Range
    <3>2. CASE i = 1
      BY <3>1, <3>2, <1>8
    <3>3. ASSUME NEW j \in 1..l, i = j + 1 PROVE y \in Range(list)
      BY <3>1, <3>3, <1>4, <1>8 DEF Range
    <3> QED
      BY <3>2, <3>3, <1>9
  <2>2. x \in Range(t)
    BY <1>8, <1>10 DEF Range
  <2>3. ASSUME NEW y \in Range(list) PROVE y \in Range(t)
    <3>1. PICK i \in 1..l : y = list[i]
      BY <1>4 DEF Range
    <3>2. y = t[i + 1] /\ i + 1 \in DOMAIN t
      BY <3>1, <1>8, <1>10
    <3> QED
      BY <3>2 DEF Range
  <2> QED
    BY <2>1, <2>2, <2>3, <1>1, <1>7
<1>5. Len(one \o list) # 0
  BY <1>1, <1>2, <1>4
<1>6. Len(<<>>) = 0
  OBVIOUS
<1> QED
  BY <1>0, <1>1, <1>2, <1>3, <1>5, <1>6, Zenon

-----------------------------------------------------------------------------
(* new_proc and exec.                                                      *)

\* The number of lines is at least one.
LEMMA CountLines ==
    ASSUME NEW f \in DOMAIN Script
    PROVE  count_lines(f) \in Nat /\ count_lines(f) >= 1
<1> DEFINE n == Len(Script[f].lines)
           ended == IF Script[f].trailing THEN 1..n ELSE 1..(n - 1)
           S == {i \in ended : Script[f].lines[i] # "blank"}
<1>1. n \in Nat
  <2>1. Script[f].lines \in Seq({"ok", "one", "blank"})
    BY ScriptAssumption DEF IsScript
  <2> QED
    BY <2>1, LenProperties
<1>2. IsFiniteSet(1..n) /\ IsFiniteSet(1..(n - 1))
  <2>1. \A a, b \in Int : IsFiniteSet(a..b)
    BY FS_Interval
  <2>2. 1 \in Int /\ n \in Int /\ n - 1 \in Int
    BY <1>1
  <2> QED
    BY <2>1, <2>2, ZenonT(60)
<1>3. IsFiniteSet(ended) /\ S \subseteq ended
  <2>1. CASE Script[f].trailing
    BY <2>1, <1>2, ZenonT(60)
  <2>2. CASE ~Script[f].trailing
    BY <2>2, <1>2, ZenonT(60)
  <2> QED
    BY <2>1, <2>2, ZenonT(60)
<1>4. Cardinality(S) \in Nat
  BY <1>3, FS_Subset, FS_CardinalityType
<1>5. count_lines(f) = 1 + Cardinality(S)
  BY DEF count_lines
<1> QED
  BY <1>4, <1>5

\* A script has pages, and the first of them, one or two, are in its table.
LEMMA Sizes ==
    ASSUME NEW f \in DOMAIN Script
    PROVE  /\ PAGE_table_size(count_lines(f)) \in Nat /\ PAGE_table_size(count_lines(f)) >= 1
           /\ InitialPages(f) \in {1, 2} /\ InitialPages(f) <= PAGE_table_size(count_lines(f))
<1>1. PICK n \in Nat : n = count_lines(f) /\ n >= 1
  BY CountLines
<1>2. PAGE_table_size(n) \in Nat /\ PAGE_table_size(n) >= 1
  BY <1>1 DEF PAGE_table_size
<1> QED
  BY <1>1, <1>2 DEF InitialPages

\* The counters of a process are those of another one.
SameCounters(c, d) ==
    d.size = c.size /\ d.page_table_size = c.page_table_size /\ d.program_counter = c.program_counter

\* PCB_init's PCB before any page is loaded.
LEMMA FreshType ==
    ASSUME NEW f \in DOMAIN Script
    PROVE  LET c == FreshPCB(f)
           IN  /\ IsPCB(c) /\ c.size >= 1 /\ c.page_table_size = PAGE_table_size(count_lines(f))
               /\ HasRun(c, 0)
               /\ \A k \in DOMAIN c.page_table : Invalid(c.page_table[k])
<1> DEFINE c == FreshPCB(f)
<1>1. PICK l \in Nat : l = count_lines(f) /\ l >= 1
  BY CountLines
<1>2. PICK n \in Nat : n = PAGE_table_size(l)
  BY <1>1, Sizes
<1>3. c = [size |-> l, page_table_size |-> n, source_file |-> LinesOf(f),
           page_table |-> [k \in 0..(n - 1) |-> PAGE_init],
           program_counter |-> [k \in 0..(n - 1) |-> 0]]
  BY <1>1, <1>2 DEF FreshPCB
<1>4. PAGE_init \in Pages /\ Invalid(PAGE_init)
  BY DEF PAGE_init, Pages, Invalid
<1>5. LinesOf(f) \in Seq(Lines)
  <2>1. Script[f].lines \in Seq({"ok", "one", "blank"})
    BY ScriptAssumption DEF IsScript
  <2>2. PICK m \in Nat : DOMAIN Script[f].lines = 1..m
    BY <2>1, LenProperties
  <2>3. \A i \in 1..m : <<f, i>> \in Lines
    BY <2>2 DEF Lines
  <2>4. LinesOf(f) = [i \in 1..m |-> <<f, i>>]
    BY <2>2, Zenon DEF LinesOf
  <2>5. LinesOf(f) \in [1..m -> Lines]
    BY <2>3, <2>4, Zenon
  <2> QED
    BY <2>5
<1>6. /\ [k \in 0..(n - 1) |-> PAGE_init] \in [0..(n - 1) -> Pages]
      /\ [k \in 0..(n - 1) |-> 0] \in [0..(n - 1) -> 0..3]
  BY <1>4
<1> HIDE DEF c
<1>7. /\ c.size = l /\ c.page_table_size = n
      /\ c.page_table = [k \in 0..(n - 1) |-> PAGE_init]
      /\ c.program_counter = [k \in 0..(n - 1) |-> 0]
  BY <1>3
<1>8. IsPCB(c)
  <2>1. c \in [size : Nat, page_table_size : Nat, source_file : Seq(Lines),
               page_table : [0..(n - 1) -> Pages], program_counter : [0..(n - 1) -> 0..3]]
    BY <1>3, <1>5, <1>6
  <2> QED
    BY <2>1, <1>7 DEF IsPCB
<1>9. HasRun(c, 0)
  <2>1. l + 0 = l /\ \A k \in 0..(n - 1) : ~(3 * k + 3 <= 0) /\ 0 <= 3 * k
    BY <1>1, <1>2
  <2> QED
    BY <2>1, <1>2, <1>7 DEF HasRun
<1>10. \A k \in DOMAIN c.page_table : Invalid(c.page_table[k])
  BY <1>4, <1>7
<1> QED
  BY <1>1, <1>2, <1>7, <1>8, <1>9, <1>10 DEF c

\* The states that exec goes through, whatever it has loaded so far.
Starting(P, Q, new) ==
    {s \in States(P, Q) : s.ok => /\ Listed(s.lru, s.pcb)
                                  /\ \A p \in P : SameCounters(new[p], s.pcb[p])}

\* One page of a new process is loaded and put in front of the LRU list.
LEMMA FirstPage ==
    ASSUME NEW P, NEW Q, NEW new, NEW s, s \in Starting(P, Q, new), s.ok, NEW p \in P, p \in Q,
           NEW k \in DOMAIN s.pcb[p].page_table, NEW t, t = load_PAGE(s, p, k)
    PROVE  /\ t \in States(P, Q) /\ t.lru = s.lru
           /\ \A q \in P : SameCounters(new[q], t.pcb[q])
           /\ \A list : Range(list) = Range(s.lru) \cup {<<p, k>>} => Listed(list, t.pcb)
<1>1. s \in States(P, Q) /\ Listed(s.lru, s.pcb) /\ \A q \in P : SameCounters(new[q], s.pcb[q])
  BY DEF Starting
<1>2. t \in States(P, Q) /\ t.lru = s.lru /\ Differs(s.pcb, t.pcb, p, k)
  BY <1>1, LoadPage
<1>3. DOMAIN s.pcb = P /\ s.lru \in Seq(P \X Nat)
  BY <1>1 DEF States
<1>4. \A q \in P : SameCounters(s.pcb[q], t.pcb[q])
  BY <1>2, <1>3 DEF Differs, OnePage, SameCounters
<1>5. \A q \in P : SameCounters(new[q], t.pcb[q])
  BY <1>1, <1>4 DEF SameCounters
<1>6. Range(s.lru) \subseteq P \X Nat
  <2>1. PICK l \in Nat : DOMAIN s.lru = 1..l /\ s.lru \in [1..l -> P \X Nat]
    BY <1>3, LenProperties
  <2> QED
    BY <2>1 DEF Range
<1>7. ASSUME NEW list, Range(list) = Range(s.lru) \cup {<<p, k>>} PROVE Listed(list, t.pcb)
  BY <1>1, <1>2, <1>3, <1>6, <1>7, PageTaken
<1> QED
  BY <1>2, <1>5, <1>7

\* What is in a list of pages is a page.
LEMMA RangeInside ==
    ASSUME NEW S, NEW list \in Seq(S)
    PROVE  Range(list) \subseteq S
<1>1. PICK l \in Nat : DOMAIN list = 1..l /\ list \in [1..l -> S]
  BY LenProperties
<1> QED
  BY <1>1 DEF Range

\* new_proc keeps what exec relies on, and the list is not empty after it.
LEMMA NewProc ==
    ASSUME NEW P, NEW Q, NEW new, NEW s, s \in Starting(P, Q, new), s.ok, NEW p \in P, p \in Q,
           NEW f \in DOMAIN Script, s.pcb[p].page_table_size = PAGE_table_size(count_lines(f))
    PROVE  LET t == new_proc(s, p, f)
           IN  t \in Starting(P, Q, new) /\ (t.ok => t.lru # <<>>)
<1> DEFINE t == new_proc(s, p, f)
<1>1. s \in States(P, Q) /\ Listed(s.lru, s.pcb)
  BY DEF Starting
<1>2. PICK one, two : one = load_PAGE(s, p, 0) /\ two = load_PAGE(one, p, 1)
  OBVIOUS
<1>3. IsPCB(s.pcb[p]) /\ s.lru \in Seq(P \X Nat) /\ DOMAIN s.pcb = P
  <2>1. s.pcb \in [P -> PCBs] /\ s.lru \in Seq(P \X Nat)
    BY <1>1 DEF States
  <2> QED
    BY <2>1, PCBsArePCBs
<1>4. PICK n \in Nat : n = s.pcb[p].page_table_size /\ n >= 1 /\ (InitialPages(f) # 1 => n >= 2)
                       /\ DOMAIN s.pcb[p].page_table = 0..(n - 1)
  BY <1>3, Sizes, PCBFields
<1>5. 0 \in DOMAIN s.pcb[p].page_table
  BY <1>4
<1>6. /\ one \in States(P, Q) /\ one.lru = s.lru
      /\ \A q \in P : SameCounters(new[q], one.pcb[q])
      /\ \A list : Range(list) = Range(s.lru) \cup {<<p, 0>>} => Listed(list, one.pcb)
  BY <1>2, <1>5, FirstPage
<1>7. <<p, 0>> \in P \X Nat /\ <<p, 1>> \in P \X Nat
  OBVIOUS
<1>8. PICK x, y : x = <<p, 0>> /\ y = <<p, 1>>
  OBVIOUS
<1>9. PICK m : m = <<x>> \o s.lru
  OBVIOUS
<1>15. x \in P \X Nat /\ y \in P \X Nat
  BY <1>7, <1>8
<1>10. m \in Seq(P \X Nat) /\ Range(m) = Range(s.lru) \cup {x} /\ m # <<>>
  <2>1. /\ <<x>> \o s.lru \in Seq(P \X Nat)
        /\ Range(<<x>> \o s.lru) = Range(s.lru) \cup {x}
        /\ <<x>> \o s.lru # <<>>
    BY <1>3, <1>15, AddHead
  <2> QED
    BY <2>1, <1>9
<1>11. Listed(m, one.pcb)
  BY <1>6, <1>8, <1>10
<1>12. CASE InitialPages(f) = 1
  <2>1. t = [one EXCEPT !.lru = <<<<p, 0>>>> \o @]
    BY <1>2, <1>12, Zenon DEF new_proc
  <2> HIDE DEF t
  <2>2. t = [one EXCEPT !.lru = m]
    BY <2>1, <1>6, <1>8, <1>9
  <2>3. t \in States(P, Q) /\ t.lru = m /\ t.pcb = one.pcb
    BY <2>2, <1>6, <1>10 DEF States
  <2>4. t \in Starting(P, Q, new) /\ t.lru # <<>>
    BY <2>3, <1>6, <1>10, <1>11 DEF Starting
  <2> QED
    BY <2>4 DEF t
<1>13. CASE InitialPages(f) # 1 /\ ~one.ok
  <2>1. t = one
    BY <1>2, <1>13, Zenon DEF new_proc
  <2> HIDE DEF t
  <2>2. t \in Starting(P, Q, new) /\ ~t.ok
    BY <2>1, <1>6, <1>13 DEF Starting
  <2> QED
    BY <2>2 DEF t
<1>14. CASE InitialPages(f) # 1 /\ one.ok
  <2>1. t = [two EXCEPT !.lru = <<<<p, 1>>>> \o (<<<<p, 0>>>> \o @)]
    BY <1>2, <1>14, Zenon DEF new_proc
  <2> HIDE DEF t
  <2>2. DOMAIN one.pcb = P /\ IsPCB(one.pcb[p]) /\ IsPCB(s.pcb[p])
    <3>1. one.pcb \in [P -> PCBs]
      BY <1>6 DEF States
    <3> QED
      BY <3>1, <1>3, PCBsArePCBs
  <2>3. 1 \in DOMAIN one.pcb[p].page_table
    <3>0. one.pcb[p].page_table_size = n
      <4>1. s.pcb[p].page_table_size = new[p].page_table_size
        BY DEF Starting, SameCounters
      <4> QED
        BY <4>1, <1>4, <1>6 DEF SameCounters
    <3>1. DOMAIN one.pcb[p].page_table = 0..(n - 1)
      BY <3>0, <2>2, PCBFields
    <3> QED
      BY <3>1, <1>4, <1>14
  <2>4. two \in States(P, Q) /\ two.lru = s.lru /\ Differs(one.pcb, two.pcb, p, 1)
    BY <2>3, <1>2, <1>6, LoadPage
  <2>5. \A q \in P : SameCounters(new[q], two.pcb[q])
    <3>1. \A q \in P : SameCounters(one.pcb[q], two.pcb[q])
      BY <2>2, <2>4 DEF Differs, OnePage, SameCounters
    <3> QED
      BY <3>1, <1>6 DEF SameCounters
  <2>6. PICK l : l = <<y>> \o m
    OBVIOUS
  <2>7. l \in Seq(P \X Nat) /\ Range(l) = Range(m) \cup {y} /\ l # <<>>
    <3>1. /\ <<y>> \o m \in Seq(P \X Nat)
          /\ Range(<<y>> \o m) = Range(m) \cup {y}
          /\ <<y>> \o m # <<>>
      BY <1>10, <1>15, AddHead
    <3> QED
      BY <3>1, <2>6
  <2>8. Listed(l, two.pcb)
    <3>1. Range(m) \subseteq P \X Nat
      BY <1>10, RangeInside
    <3>2. Range(l) = Range(m) \cup {<<p, 1>>}
      BY <2>7, <1>8
    <3> QED
      BY <3>1, <3>2, <2>2, <2>3, <2>4, <1>11, PageTaken
  <2>9. t = [two EXCEPT !.lru = l]
    BY <2>1, <2>4, <2>6, <1>8, <1>9
  <2>10. t \in States(P, Q) /\ t.lru = l /\ t.pcb = two.pcb
    BY <2>4, <2>7, <2>9 DEF States
  <2>11. t \in Starting(P, Q, new) /\ t.lru # <<>>
    BY <2>5, <2>7, <2>8, <2>10 DEF Starting
  <2> QED
    BY <2>11 DEF t
<1> QED
  BY <1>12, <1>13, <1>14

\* What new_proc for each of N scripts leaves.
Started(fs, N, Q) ==
    LET P == pid_counter..(pid_counter + N - 1)
        new == [p \in P |-> FreshPCB(fs[p - pid_counter + 1])]
        s == Processes(fs)
    IN  s \in Starting(P, Q, new) /\ (s.ok => s.lru # <<>>)

\* The states between: h[n] is what n calls of new_proc leave.
NewProcs(fs, N, Q, h) ==
    LET P == pid_counter..(pid_counter + N - 1)
        new == [p \in P |-> FreshPCB(fs[p - pid_counter + 1])]
    IN  /\ h[0] = [fr |-> frames, pcb |-> new, lru |-> <<>>, ok |-> TRUE]
        /\ \A n \in 1..N : h[n] = IF h[n - 1].ok THEN new_proc(h[n - 1], pid_counter + n - 1, fs[n]) ELSE h[n - 1]
        /\ \A n \in 0..N : h[n] \in Starting(P, Q, new)
        /\ Processes(fs) = h[N]

\* exec's processes: typed, listed and not begun, with a page to evict.
LEMMA ProcessesStart ==
    ASSUME NEW Q, frames \in [FrameSlots -> [owner : Q \cup {0}, line : Lines]],
           pid_counter \in Nat,
           NEW N \in Nat \ {0}, NEW fs, Len(fs) = N, \A i \in 1..N : fs[i] \in DOMAIN Script,
           pid_counter..(pid_counter + N - 1) \subseteq Q
    PROVE  Started(fs, N, Q) /\ \E h : NewProcs(fs, N, Q, h)
<1> DEFINE P == pid_counter..(pid_counter + N - 1)
           new == [p \in P |-> FreshPCB(fs[p - pid_counter + 1])]
           S == Starting(P, Q, new)
           x == [fr |-> frames, pcb |-> new, lru |-> <<>>, ok |-> TRUE]
           Next1(st, n) == IF st.ok THEN new_proc(st, pid_counter + n - 1, fs[n]) ELSE st
           G(h) == [n \in 0..N |-> IF n = 0 THEN x ELSE Next1(h[n - 1], n)]
           procs == CHOOSE h : h = G(h)
<1>1. \A p \in P : p - pid_counter + 1 \in 1..N /\ fs[p - pid_counter + 1] \in DOMAIN Script
  OBVIOUS
<1>2. \A n \in 1..N : pid_counter + n - 1 \in P /\ (pid_counter + n - 1) - pid_counter + 1 = n
  OBVIOUS
<1>3. new \in [P -> PCBs] /\ \A p \in P : new[p] = FreshPCB(fs[p - pid_counter + 1])
  <2>1. \A p \in P : FreshPCB(fs[p - pid_counter + 1]) \in PCBs
    BY <1>1, FreshType, PCBsArePCBs
  <2> QED
    BY <2>1, Zenon
<1>4. x \in S
  <2>1. <<>> \in Seq(P \X Nat)
    OBVIOUS
  <2>2. x \in States(P, Q)
    BY <2>1, <1>3 DEF States
  <2>3. x.lru = <<>> /\ x.pcb = new
    OBVIOUS
  <2>4. Listed(<<>>, new)
    <3>1. \A p \in P : \A k \in DOMAIN new[p].page_table : Invalid(new[p].page_table[k])
      BY <1>1, <1>3, FreshType
    <3>2. DOMAIN new = P /\ DOMAIN <<>> = {}
      BY <1>3
    <3> HIDE DEF new
    <3> QED
      BY <3>1, <3>2 DEF Listed, Invalid
  <2>5. \A p \in P : SameCounters(new[p], new[p])
    BY DEF SameCounters
  <2> HIDE DEF x, new, P
  <2> QED
    BY <2>2, <2>3, <2>4, <2>5 DEF Starting
<1> HIDE DEF x, new, P
<1>5. ASSUME NEW s \in S, NEW n \in 1..N
      PROVE  Next1(s, n) \in S /\ (s.ok /\ Next1(s, n).ok => Next1(s, n).lru # <<>>)
  <2>1. CASE ~s.ok
    BY <2>1
  <2>2. CASE s.ok
    <3>1. PICK p \in P : p = pid_counter + n - 1 /\ p \in Q /\ new[p] = FreshPCB(fs[n])
      BY <1>2, <1>3 DEF P
    <3>2. fs[n] \in DOMAIN Script
      OBVIOUS
    <3>3. s.pcb[p].page_table_size = PAGE_table_size(count_lines(fs[n]))
      <4>1. SameCounters(new[p], s.pcb[p])
        BY <2>2, <3>1 DEF Starting
      <4>2. new[p].page_table_size = PAGE_table_size(count_lines(fs[n]))
        BY <3>1, <3>2, FreshType
      <4> QED
        BY <4>1, <4>2 DEF SameCounters
    <3>4. new_proc(s, p, fs[n]) \in S /\ (new_proc(s, p, fs[n]).ok => new_proc(s, p, fs[n]).lru # <<>>)
      BY <2>2, <3>1, <3>2, <3>3, NewProc
    <3> QED
      BY <3>4, <3>1, <2>2
  <2> QED
    BY <2>1, <2>2
<1>6. PICK h \in [0..N -> S] : h[0] = x /\ \A n \in 1..N : h[n] = Next1(h[n - 1], n)
  <2> DEFINE g == [n \in 1..N |-> [s \in S |-> Next1(s, n)]]
  <2> HIDE DEF S, Next1
  <2>1. g \in [1..N -> [S -> S]]
    BY <1>5
  <2>2. \A n \in 1..N, s \in S : g[n][s] = Next1(s, n)
    OBVIOUS
  <2> HIDE DEF g
  <2>5. PICK h \in [0..N -> S] : Iterates(h, N, x, g)
    <3>1. N \in Nat
      OBVIOUS
    <3> QED
      BY <3>1, <2>1, <1>4, Iteration
  <2>3. h[0] = x /\ \A n \in 1..N : h[n] = g[n][h[n - 1]]
    BY <2>5 DEF Iterates
  <2>4. \A n \in 1..N : h[n - 1] \in S
    BY <2>5
  <2> QED
    BY <2>2, <2>3, <2>4, SMTT(30)
<1>7. h = G(h)
  <2> HIDE DEF Next1, S
  <2>1. \A n \in 0..N : n = 0 \/ n \in 1..N
    OBVIOUS
  <2> QED
    BY <1>6, <2>1
<1>8. procs = G(procs)
  <2> HIDE DEF G
  <2> QED
    BY <1>7, ZenonT(60)
<1>9. Processes(fs) = procs[N]
  BY ZenonT(60) DEF Processes, x, new, P
<1> HIDE DEF procs
<1>10. procs[0] = x /\ \A n \in 1..N : procs[n] = Next1(procs[n - 1], n)
  <2> HIDE DEF Next1
  <2>1. \A n \in 1..N : n \in 0..N /\ n # 0
    OBVIOUS
  <2>2. 0 \in 0..N
    OBVIOUS
  <2> QED
    BY <1>8, <2>1, <2>2
<1>11. \A n \in 0..N : procs[n] \in S
  <2> HIDE DEF Next1, S
  <2>1. \A n \in 1..N : procs[n - 1] \in S => procs[n] \in S
    BY <1>5, <1>10
  <2> QED
    BY <2>1, <1>4, <1>10, Kept
<1>12. procs[N].ok => procs[N].lru # <<>>
  <2>1. N \in 1..N /\ N - 1 \in 0..N
    OBVIOUS
  <2>2. procs[N] = Next1(procs[N - 1], N) /\ procs[N - 1] \in S
    BY <2>1, <1>10, <1>11
  <2>3. procs[N].ok => procs[N - 1].ok
    BY <2>2
  <2> HIDE DEF Next1, S
  <2> QED
    BY <2>1, <2>2, <2>3, <1>5
<1>13. N \in 0..N
  OBVIOUS
<1>14. NewProcs(fs, N, Q, procs)
  BY <1>9, <1>10, <1>11 DEF P, new, x, NewProcs
<1> QED
  BY <1>9, <1>11, <1>12, <1>13, <1>14 DEF P, new, Started

-----------------------------------------------------------------------------
(* The program counters.                                                   *)

\* e lines of n pages have run and there is one left: it is on page e \div 3.
LEMMA NextLine ==
    ASSUME NEW e \in Nat, NEW l \in Nat \ {0}, NEW n \in Nat, PAGE_table_size(l + e) = n
    PROVE  \E q \in 0..(n - 1) : 3 * q <= e /\ e < 3 * q + 3
<1>1. PICK q \in Nat : q = e \div 3 /\ 3 * q <= e /\ e < 3 * q + 3
  <2>1. e \div 3 \in Nat /\ 3 * (e \div 3) <= e /\ e < 3 * (e \div 3) + 3
    OBVIOUS
  <2> QED
    BY <2>1
<1>2. n = (l + e + 2) \div 3
  BY DEF PAGE_table_size
<1>3. q < n
  BY <1>1, <1>2
<1> QED
  BY <1>1, <1>3

\* The scan of run_proc_RR stops at that page.
LEMMA Scan ==
    ASSUME NEW c, IsPCB(c), NEW e \in Nat, HasRun(c, e), c.size > 0, NEW k,
           k = Lowest({i \in DOMAIN c.program_counter : c.program_counter[i] # 3})
    PROVE  /\ k \in DOMAIN c.program_counter /\ k \in Nat
           /\ c.program_counter[k] \in 0..2 /\ c.program_counter[k] = e - 3 * k
           /\ 3 * k <= e /\ e < 3 * k + 3
<1>1. PICK l \in Nat \ {0}, n \in Nat : l = c.size /\ n = c.page_table_size
                                        /\ DOMAIN c.program_counter = 0..(n - 1)
  BY PCBFields
<1>2. PAGE_table_size(l + e) = n
  BY <1>1 DEF HasRun
<1>3. PICK q \in 0..(n - 1) : 3 * q <= e /\ e < 3 * q + 3
  BY <1>1, <1>2, NextLine
<1> DEFINE pc == c.program_counter
           S == {i \in DOMAIN pc : pc[i] # 3}
<1>4. \A i \in 0..(n - 1) : pc[i] = IF 3 * i + 3 <= e THEN 3 ELSE IF e <= 3 * i THEN 0 ELSE e - 3 * i
  BY <1>1 DEF HasRun
<1>5. \A i \in 0..(n - 1) : i < q => pc[i] = 3
  BY <1>3, <1>4
<1>6. pc[q] = e - 3 * q /\ pc[q] \in 0..2
  BY <1>3, <1>4
<1>7. S = {i \in 0..(n - 1) : pc[i] # 3}
  BY <1>1
<1> HIDE DEF pc, S
<1>8. q \in S /\ \A i \in S : i \in Nat /\ q <= i
  BY <1>5, <1>6, <1>7, <1>3
<1>9. Lowest(S) = q
  <2>1. \A i \in S : (\A j \in S : i <= j) => i = q
    <3>1. ASSUME NEW i \in S, \A j \in S : i <= j PROVE i = q
      <4>1. i <= q /\ q <= i /\ i \in Nat
        BY <3>1, <1>8
      <4> QED
        BY <4>1, <1>3
    <3> QED
      BY <3>1
  <2> QED
    BY <2>1, <1>8, Zenon DEF Lowest
<1>10. k = q
  BY <1>9 DEF S, pc
<1>11. q \in DOMAIN pc /\ q \in Nat
  BY <1>1, <1>3 DEF pc
<1> QED
  BY <1>3, <1>6, <1>10, <1>11, Zenon DEF pc

\* A process with lines left is not done.
LEMMA NotDone ==
    ASSUME NEW c, IsPCB(c), NEW e \in Nat, HasRun(c, e), c.size > 0
    PROVE  ~\A k \in DOMAIN c.program_counter : c.program_counter[k] = 3
<1>1. PICK k : k = Lowest({i \in DOMAIN c.program_counter : c.program_counter[i] # 3})
  OBVIOUS
<1>2. k \in DOMAIN c.program_counter /\ c.program_counter[k] \in 0..2
  BY <1>1, Scan
<1> QED
  BY <1>2

\* A page behind the one of line e is not begun, and not by that line.
LEMMA NotBegun ==
    ASSUME NEW e \in Nat, NEW k \in Nat, NEW i \in Nat, i > k, e < 3 * k + 3
    PROVE  ~(3 * i + 3 <= e) /\ e <= 3 * i /\ e + 1 <= 3 * i /\ ~(3 * i + 3 <= e + 1)
  OBVIOUS

\* What cpu_run assigns in a PCB.
RanOne(c, d, k) == d = [c EXCEPT !.program_counter[k] = @ + 1, !.size = @ - 1]

\* cpu_run counts one line more.
LEMMA RanCounts ==
    ASSUME NEW c, IsPCB(c), NEW e \in Nat, HasRun(c, e), c.size > 0, NEW k,
           k = Lowest({i \in DOMAIN c.program_counter : c.program_counter[i] # 3}),
           NEW d, RanOne(c, d, k)
    PROVE  /\ IsPCB(d) /\ HasRun(d, e + 1) /\ d.size = c.size - 1 /\ d.page_table = c.page_table
           /\ d.page_table_size = c.page_table_size
<1>1. /\ k \in DOMAIN c.program_counter /\ k \in Nat
      /\ c.program_counter[k] \in 0..2 /\ c.program_counter[k] = e - 3 * k
      /\ 3 * k <= e /\ e < 3 * k + 3
  BY Scan
<1>2. PICK l \in Nat \ {0}, n \in Nat : l = c.size /\ n = c.page_table_size
                                        /\ DOMAIN c.program_counter = 0..(n - 1)
  BY PCBFields
<1>3. c \in [size : Nat, page_table_size : Nat, source_file : Seq(Lines),
             page_table : [0..(n - 1) -> Pages], program_counter : [0..(n - 1) -> 0..3]]
  BY <1>2 DEF IsPCB
<1> DEFINE pc == c.program_counter
           pd == [pc EXCEPT ![k] = pc[k] + 1]
<1>4. d = [c EXCEPT !.program_counter = pd, !.size = l - 1]
  BY <1>2, <1>3 DEF RanOne
<1>5. pd \in [0..(n - 1) -> 0..3] /\ pd[k] = pc[k] + 1 /\ \A j \in 0..(n - 1) : j # k => pd[j] = pc[j]
  <2>1. pc \in [0..(n - 1) -> 0..3] /\ k \in 0..(n - 1)
    BY <1>1, <1>2, <1>3
  <2>2. pc[k] + 1 \in 0..3
    BY <1>1
  <2> HIDE DEF pc
  <2> QED
    BY <2>1, <2>2
<1>6. l - 1 \in Nat
  BY <1>2
<1> HIDE DEF pd
<1>7. /\ d.size = l - 1 /\ d.page_table_size = n /\ d.program_counter = pd /\ d.page_table = c.page_table
      /\ d \in [size : Nat, page_table_size : Nat, source_file : Seq(Lines),
                page_table : [0..(n - 1) -> Pages], program_counter : [0..(n - 1) -> 0..3]]
  BY <1>2, <1>3, <1>4, <1>5, <1>6
<1>8. IsPCB(d)
  BY <1>7 DEF IsPCB
<1>9. \A i \in 0..(n - 1) : pc[i] = IF 3 * i + 3 <= e THEN 3 ELSE IF e <= 3 * i THEN 0 ELSE e - 3 * i
  BY <1>2 DEF HasRun
<1> HIDE DEF pc
<1>10. pc[k] = e - 3 * k
  BY <1>1 DEF pc
<1>11. ASSUME NEW i \in 0..(n - 1)
       PROVE  pd[i] = IF 3 * i + 3 <= e + 1 THEN 3 ELSE IF e + 1 <= 3 * i THEN 0 ELSE (e + 1) - 3 * i
  <2>1. CASE i = k
    BY <2>1, <1>1, <1>5, <1>10
  <2>2. CASE i < k
    <3>1. pd[i] = pc[i] /\ 3 * i + 3 <= e /\ 3 * i + 3 <= e + 1
      BY <2>2, <1>1, <1>5
    <3> QED
      BY <3>1, <1>9
  <2>3. CASE i > k
    <3>1. ~(3 * i + 3 <= e) /\ e <= 3 * i /\ e + 1 <= 3 * i /\ ~(3 * i + 3 <= e + 1)
      <4>1. i \in Nat /\ k \in Nat /\ e < 3 * k + 3
        BY <1>1
      <4> QED
        BY <4>1, <2>3, NotBegun
    <3>2. pd[i] = pc[i]
      BY <2>3, <1>1, <1>5
    <3> QED
      BY <3>1, <3>2, <1>9
  <2> QED
    BY <2>1, <2>2, <2>3, <1>1
<1>12. PAGE_table_size((l - 1) + (e + 1)) = n
  <2>1. (l - 1) + (e + 1) = l + e
    BY <1>2
  <2> QED
    BY <2>1, <1>2 DEF HasRun
<1>13. HasRun(d, e + 1)
  <2>1. DOMAIN pd = 0..(n - 1)
    BY <1>5
  <2> QED
    BY <2>1, <1>7, <1>11, <1>12 DEF HasRun
<1> QED
  BY <1>2, <1>7, <1>8, <1>13

-----------------------------------------------------------------------------
(* Sequences without repetitions, for the queue, and parts of the LRU list. *)

\* No process is in the queue twice.
Distinct(s) == \A i, j \in DOMAIN s : s[i] = s[j] => i = j

\* pop_head takes the head, which is not behind it.
LEMMA PopHead ==
    ASSUME NEW S, NEW s \in Seq(S), s # <<>>, Distinct(s)
    PROVE  /\ Head(s) \in S /\ Tail(s) \in Seq(S) /\ Distinct(Tail(s))
           /\ Head(s) \notin Range(Tail(s)) /\ Range(s) = Range(Tail(s)) \cup {Head(s)}
<1>1. PICK r \in Nat : r = Len(s) /\ DOMAIN s = 1..r /\ s \in [1..r -> S]
  BY LenProperties
<1>2. r # 0
  BY <1>1, EmptySeq
<1>3. PICK h, t : h = Head(s) /\ t = Tail(s)
  OBVIOUS
<1>4. h \in S /\ t \in Seq(S) /\ Len(t) = r - 1 /\ \A i \in 1..Len(t) : t[i] = s[i + 1]
  BY <1>1, <1>3, HeadTailProperties
<1>5. h = s[1]
  BY <1>3
<1>6. DOMAIN t = 1..(r - 1) /\ \A i \in 1..(r - 1) : t[i] = s[i + 1]
  BY <1>4, LenProperties
<1>7. 1 \in 1..r /\ (\A i \in 1..(r - 1) : i + 1 \in 1..r /\ i + 1 # 1)
      /\ \A i, j \in 1..(r - 1) : i + 1 = j + 1 => i = j
  BY <1>2
<1>8. \A i \in 1..r : i = 1 \/ \E j \in 1..(r - 1) : i = j + 1
  <2>1. \A i \in 1..r : i # 1 => i - 1 \in 1..(r - 1) /\ i = (i - 1) + 1
    OBVIOUS
  <2> QED
    BY <2>1
<1>9. Distinct(t)
  <2>1. ASSUME NEW i \in 1..(r - 1), NEW j \in 1..(r - 1), t[i] = t[j] PROVE i = j
    <3>1. s[i + 1] = s[j + 1] /\ i + 1 \in 1..r /\ j + 1 \in 1..r
      BY <2>1, <1>6, <1>7
    <3>2. i + 1 = j + 1
      BY <3>1, <1>1, Zenon DEF Distinct
    <3> QED
      BY <3>2, <1>7
  <2> QED
    BY <2>1, <1>6, Zenon DEF Distinct
<1>10. ASSUME NEW i \in 1..(r - 1), t[i] = h PROVE FALSE
  <2>1. s[i + 1] = s[1] /\ i + 1 \in 1..r /\ 1 \in 1..r /\ i + 1 # 1
    BY <1>10, <1>5, <1>6, <1>7
  <2> QED
    BY <2>1, <1>1, Zenon DEF Distinct
<1>11. h \notin Range(t)
  BY <1>6, <1>10, Zenon DEF Range
<1>12. ASSUME NEW x \in Range(s) PROVE x \in Range(t) \cup {h}
  <2>1. PICK i \in 1..r : x = s[i]
    BY <1>1 DEF Range
  <2>2. CASE i = 1
    BY <2>1, <2>2, <1>5
  <2>3. ASSUME NEW j \in 1..(r - 1), i = j + 1 PROVE x \in Range(t)
    <3>1. x = t[j] /\ j \in DOMAIN t
      BY <2>1, <2>3, <1>6
    <3> QED
      BY <3>1 DEF Range
  <2> QED
    BY <2>2, <2>3, <1>8
<1>13. ASSUME NEW x \in Range(t) PROVE x \in Range(s)
  <2>1. PICK i \in 1..(r - 1) : x = t[i]
    BY <1>6 DEF Range
  <2>2. x = s[i + 1] /\ i + 1 \in DOMAIN s
    BY <2>1, <1>1, <1>6, <1>7
  <2> QED
    BY <2>2 DEF Range
<1>14. h \in Range(s)
  BY <1>1, <1>5, <1>7 DEF Range
<1> QED
  BY <1>3, <1>4, <1>9, <1>11, <1>12, <1>13, <1>14

\* add_tail puts an element behind the others.
LEMMA AddTail ==
    ASSUME NEW S, NEW s \in Seq(S), NEW x \in S, x \notin Range(s), Distinct(s)
    PROVE  /\ Append(s, x) \in Seq(S) /\ Distinct(Append(s, x))
           /\ Range(Append(s, x)) = Range(s) \cup {x}
<1>1. PICK r \in Nat : r = Len(s) /\ DOMAIN s = 1..r
  BY LenProperties
<1>2. PICK t : t = Append(s, x)
  OBVIOUS
<1>3. t \in Seq(S) /\ Len(t) = r + 1 /\ (\A i \in 1..r : t[i] = s[i]) /\ t[r + 1] = x
  BY <1>1, <1>2, AppendProperties
<1>4. DOMAIN t = 1..(r + 1)
  BY <1>3, LenProperties
<1>5. /\ \A i \in 1..(r + 1) : i \in 1..r \/ i = r + 1
      /\ \A i \in 1..r : i \in 1..(r + 1)
      /\ r + 1 \in 1..(r + 1)
  OBVIOUS
<1>6. \A i \in 1..r : s[i] # x
  BY <1>1 DEF Range
<1>7. ASSUME NEW i \in 1..(r + 1), NEW j \in 1..(r + 1), t[i] = t[j] PROVE i = j
  <2>1. CASE i \in 1..r /\ j \in 1..r
    <3>1. s[i] = s[j]
      BY <2>1, <1>3, <1>7
    <3> QED
      BY <3>1, <2>1, <1>1 DEF Distinct
  <2>2. CASE i \in 1..r /\ j = r + 1
    BY <2>2, <1>3, <1>6, <1>7
  <2>3. CASE i = r + 1 /\ j \in 1..r
    BY <2>3, <1>3, <1>6, <1>7
  <2>4. CASE i = r + 1 /\ j = r + 1
    BY <2>4
  <2> QED
    BY <2>1, <2>2, <2>3, <2>4, <1>5
<1>8. Distinct(t)
  BY <1>4, <1>7, Zenon DEF Distinct
<1>9. \A y \in Range(t) : y \in Range(s) \cup {x}
  BY <1>1, <1>3, <1>4, <1>5 DEF Range
<1>10. \A y \in Range(s) : y \in Range(t)
  BY <1>1, <1>3, <1>4, <1>5 DEF Range
<1>11. x \in Range(t)
  BY <1>3, <1>4, <1>5 DEF Range
<1> QED
  BY <1>2, <1>3, <1>8, <1>9, <1>10, <1>11

\* The list without its last page.
LEMMA DropLast ==
    ASSUME NEW S, NEW s \in Seq(S), s # <<>>
    PROVE  /\ Last(s) \in S /\ Last(s) \in Range(s) /\ Front(s) \in Seq(S)
           /\ Range(Front(s)) \subseteq Range(s) /\ Range(s) \subseteq Range(Front(s)) \cup {Last(s)}
<1>1. PICK r \in Nat : r = Len(s) /\ DOMAIN s = 1..r /\ s \in [1..r -> S]
  BY LenProperties
<1>2. r # 0
  BY <1>1, EmptySeq
<1>3. PICK t, x : t = Front(s) /\ x = Last(s)
  OBVIOUS
<1>4. x = s[r] /\ r \in 1..r /\ t = SubSeq(s, 1, r - 1)
  BY <1>1, <1>2, <1>3 DEF Last, Front
<1>5. t \in Seq(S) /\ Len(t) = r - 1 /\ \A i \in 1..(r - 1) : t[i] = s[i]
  <2>1. \A i \in 1..(r - 1) : s[i] \in S
    BY <1>1
  <2>2. /\ t \in Seq(S) /\ Len(t) = IF 1 <= r - 1 THEN (r - 1) - 1 + 1 ELSE 0
        /\ \A i \in 1..((r - 1) - 1 + 1) : t[i] = s[1 + i - 1]
    BY <2>1, <1>4, SubSeqProperties
  <2>3. (r - 1) - 1 + 1 = r - 1 /\ (\A i \in 1..(r - 1) : 1 + i - 1 = i)
        /\ (IF 1 <= r - 1 THEN (r - 1) - 1 + 1 ELSE 0) = r - 1
    BY <1>2
  <2> QED
    BY <2>2, <2>3
<1>6. DOMAIN t = 1..(r - 1)
  BY <1>5, LenProperties
<1>7. (\A i \in 1..(r - 1) : i \in 1..r) /\ \A i \in 1..r : i = r \/ i \in 1..(r - 1)
  OBVIOUS
<1>8. x \in S /\ x \in Range(s)
  BY <1>1, <1>4 DEF Range
<1>9. \A y \in Range(t) : y \in Range(s)
  BY <1>1, <1>5, <1>6, <1>7 DEF Range
<1>10. ASSUME NEW y \in Range(s) PROVE y \in Range(t) \cup {x}
  <2>1. PICK i \in 1..r : y = s[i]
    BY <1>1 DEF Range
  <2>2. CASE i = r
    BY <2>1, <2>2, <1>4
  <2>3. CASE i \in 1..(r - 1)
    <3>1. y = t[i] /\ i \in DOMAIN t
      BY <2>1, <2>3, <1>5, <1>6
    <3> QED
      BY <3>1 DEF Range
  <2> QED
    BY <2>2, <2>3, <1>7
<1> QED
  BY <1>3, <1>5, <1>8, <1>9, <1>10

\* remove_elem and add_head: one page of the list goes to its head.
LEMMA ToHead ==
    ASSUME NEW S, NEW s \in Seq(S), NEW m \in DOMAIN s
    PROVE  LET t == <<s[m]>> \o RemoveAt(s, m)
           IN  t \in Seq(S) /\ Range(t) = Range(s) /\ t # <<>>
<1>1. PICK r \in Nat : r = Len(s) /\ DOMAIN s = 1..r /\ s \in [1..r -> S]
  BY LenProperties
<1>2. PICK a, b : a = SubSeq(s, 1, m - 1) /\ b = SubSeq(s, m + 1, r)
  OBVIOUS
<1>3. m \in 1..r /\ m \in Nat /\ s[m] \in S
  BY <1>1
<1>4. a \in Seq(S) /\ Len(a) = m - 1 /\ \A i \in 1..(m - 1) : a[i] = s[i]
  <2>1. \A i \in 1..(m - 1) : s[i] \in S
    BY <1>1, <1>3
  <2>2. /\ a \in Seq(S) /\ Len(a) = IF 1 <= m - 1 THEN (m - 1) - 1 + 1 ELSE 0
        /\ \A i \in 1..((m - 1) - 1 + 1) : a[i] = s[1 + i - 1]
    BY <2>1, <1>2, <1>3, SubSeqProperties
  <2>3. (m - 1) - 1 + 1 = m - 1 /\ (\A i \in 1..(m - 1) : 1 + i - 1 = i)
        /\ (IF 1 <= m - 1 THEN (m - 1) - 1 + 1 ELSE 0) = m - 1
    BY <1>3
  <2> QED
    BY <2>2, <2>3
<1>5. b \in Seq(S) /\ Len(b) = r - m /\ \A i \in 1..(r - m) : b[i] = s[m + i]
  <2>1. \A i \in (m + 1)..r : s[i] \in S
    BY <1>1, <1>3
  <2>2. /\ b \in Seq(S) /\ Len(b) = IF m + 1 <= r THEN r - (m + 1) + 1 ELSE 0
        /\ \A i \in 1..(r - (m + 1) + 1) : b[i] = s[(m + 1) + i - 1]
    BY <2>1, <1>2, <1>3, SubSeqProperties
  <2>3. r - (m + 1) + 1 = r - m /\ (\A i \in 1..(r - m) : (m + 1) + i - 1 = m + i)
        /\ (IF m + 1 <= r THEN r - (m + 1) + 1 ELSE 0) = r - m
    BY <1>3
  <2> QED
    BY <2>2, <2>3
<1>6. DOMAIN a = 1..(m - 1) /\ DOMAIN b = 1..(r - m)
  BY <1>4, <1>5, LenProperties
<1>7. PICK u \in Seq(S) : u = a \o b /\ RemoveAt(s, m) = u
  <2>1. a \o b \in Seq(S)
    BY <1>4, <1>5, ConcatProperties
  <2>2. RemoveAt(s, m) = a \o b
    BY <1>1, <1>2 DEF RemoveAt
  <2> QED
    BY <2>1, <2>2
<1>8. Range(u) = Range(a) \cup Range(b)
  <2>1. PICK p \in Nat, q \in Nat : p = m - 1 /\ q = r - m
    BY <1>3
  <2>2. Len(u) = p + q /\ \A i \in 1..(p + q) : u[i] = IF i <= p THEN a[i] ELSE b[i - p]
    <3>1. /\ Len(a \o b) = Len(a) + Len(b)
          /\ \A i \in 1..Len(a) + Len(b) : (a \o b)[i] = IF i <= Len(a) THEN a[i] ELSE b[i - Len(a)]
      BY <1>4, <1>5, ConcatProperties
    <3>2. Len(a) = p /\ Len(b) = q
      BY <2>1, <1>4, <1>5
    <3> QED
      BY <3>1, <3>2, <1>7
  <2>3. DOMAIN u = 1..(p + q)
    BY <2>2, <1>7, LenProperties
  <2>4. DOMAIN a = 1..p /\ DOMAIN b = 1..q
    BY <2>1, <1>6
  <2>5. \A i \in 1..p : i \in 1..(p + q) /\ i <= p
    OBVIOUS
  <2>6. \A i \in 1..q : p + i \in 1..(p + q) /\ ~(p + i <= p) /\ (p + i) - p = i
    OBVIOUS
  <2>7. \A i \in 1..(p + q) : (i <= p /\ i \in 1..p) \/ (~(i <= p) /\ i - p \in 1..q)
    OBVIOUS
  <2>8. \A y \in Range(u) : y \in Range(a) \cup Range(b)
    BY <2>2, <2>3, <2>4, <2>7 DEF Range
  <2>9. ASSUME NEW y \in Range(a) PROVE y \in Range(u)
    <3>1. PICK i \in 1..p : y = a[i]
      BY <2>4 DEF Range
    <3>2. y = u[i] /\ i \in DOMAIN u
      BY <3>1, <2>2, <2>3, <2>5
    <3> QED
      BY <3>2 DEF Range
  <2>10. ASSUME NEW y \in Range(b) PROVE y \in Range(u)
    <3>1. PICK i \in 1..q : y = b[i]
      BY <2>4 DEF Range
    <3>2. y = u[p + i] /\ p + i \in DOMAIN u
      BY <3>1, <2>2, <2>3, <2>6
    <3> QED
      BY <3>2 DEF Range
  <2> QED
    BY <2>8, <2>9, <2>10
<1>9. \A y \in Range(a) \cup Range(b) \cup {s[m]} : y \in Range(s)
  <2>1. \A i \in 1..(m - 1) : i \in 1..r
    BY <1>3
  <2>2. \A i \in 1..(r - m) : m + i \in 1..r
    BY <1>3
  <2>3. \A y \in Range(a) : y \in Range(s)
    BY <2>1, <1>1, <1>4, <1>6 DEF Range
  <2>4. \A y \in Range(b) : y \in Range(s)
    BY <2>2, <1>1, <1>5, <1>6 DEF Range
  <2>5. s[m] \in Range(s)
    BY DEF Range
  <2> QED
    BY <2>3, <2>4, <2>5
<1>10. ASSUME NEW y \in Range(s) PROVE y \in Range(a) \cup Range(b) \cup {s[m]}
  <2>1. PICK i \in 1..r : y = s[i]
    BY <1>1 DEF Range
  <2>2. CASE i = m
    BY <2>1, <2>2
  <2>3. CASE i < m
    <3>1. i \in 1..(m - 1)
      BY <2>3, <1>3
    <3>2. y = a[i] /\ i \in DOMAIN a
      BY <3>1, <2>1, <1>4, <1>6
    <3> QED
      BY <3>2 DEF Range
  <2>4. CASE i > m
    <3>1. i - m \in 1..(r - m) /\ m + (i - m) = i
      BY <2>4, <1>3
    <3>2. y = b[i - m] /\ i - m \in DOMAIN b
      BY <3>1, <2>1, <1>5, <1>6
    <3> QED
      BY <3>2 DEF Range
  <2> QED
    BY <2>2, <2>3, <2>4, <1>3
<1>11. PICK x \in S : x = s[m]
  BY <1>3
<1>12. <<x>> \o u \in Seq(S) /\ Range(<<x>> \o u) = Range(u) \cup {x} /\ <<x>> \o u # <<>>
  BY AddHead
<1>13. Range(u) \cup {x} = Range(s)
  BY <1>8, <1>9, <1>10, <1>11
<1> QED
  BY <1>7, <1>11, <1>12, <1>13

-----------------------------------------------------------------------------
(* The invariant holds at the start and every action keeps it.             *)

\* mem_init and kernel_setup establish it.
LEMMA InitIInv == Init => IInv
<1> SUFFICES ASSUME Init PROVE IInv
  OBVIOUS
<1>1. DOMAIN pcb = {} /\ DOMAIN queue = {} /\ DOMAIN lru = {} /\ queue = <<>> /\ lru = <<>>
      /\ pid_counter = 1 /\ cpu = [at |-> "prompt", pid |-> 0] /\ status = "ok" /\ stored = {}
  BY DEF Init, Prompt
<1>2. frames \in [FrameSlots -> [owner : Pids \cup {0}, line : Lines]]
  BY DEF Init, none, Lines
<1>3. variables \in [VarSlots -> Names \cup {NoName}]
  BY DEF Init
<1>4. TypeOK
  BY <1>1, <1>2, <1>3 DEF TypeOK, Live
<1>5. QueueIntegrity
  BY <1>1, <1>4 DEF QueueIntegrity, Waiting, Live
<1> QED
  BY <1>1, <1>5 DEF IInv, Counted, Listed, InTurnOK, Live

\* The invariant gives the scans of run_proc_RR what they need.
LEMMA ScansEnd == IInv => ScanFindsPage
<1> SUFFICES ASSUME IInv PROVE ScanFindsPage
  OBVIOUS
<1>1. ASSUME NEW p \in Live, pcb[p].size > 0 PROVE ~PCB_done(p)
  <2>1. IsPCB(pcb[p])
    BY DEF IInv, Counted, Live
  <2>2. PICK e \in 0..(3 * pcb[p].page_table_size) : HasRun(pcb[p], e)
    BY DEF IInv, Counted, Live
  <2>3. e \in Nat
    BY <2>1, <2>2, PCBFields
  <2> QED
    BY <2>1, <2>2, <2>3, <1>1, NotDone DEF PCB_done
<1> QED
  BY <1>1 DEF IInv, ScanFindsPage

\* The set of the queue's processes.
LEMMA WaitingRange == Waiting = Range(queue)
  BY DEF Waiting, Range

\* Whose turn it is, and who waits.
LEMMA TurnFacts ==
    ASSUME IInv, InTurn
    PROVE  /\ curr \in Live /\ curr \in Pids /\ others \in Seq(Live) /\ Distinct(others)
           /\ curr \notin Range(others)
           /\ \A p \in Live : p \in Waiting \cup {cpu.pid} => p = curr \/ p \in Range(others)
           /\ status = "ok"
<1>1. /\ queue \in Seq(Live) /\ Distinct(queue) /\ cpu.pid \notin Waiting /\ Live \subseteq Pids
      /\ pid_counter \in Nat
  BY DEF IInv, QueueIntegrity, TypeOK, Distinct
<1>2. \A p \in Live : p # 0
  BY <1>1 DEF Pids
<1>3. CASE cpu.at = "second"
  <2>1. curr = cpu.pid /\ others = queue /\ cpu.pid \in Live
    BY <1>3 DEF curr, others, IInv, InTurnOK
  <2> QED
    BY <2>1, <1>1, WaitingRange DEF InTurn
<1>4. CASE cpu.at # "second"
  <2>1. cpu.at = "first" /\ ~queue_done /\ cpu.pid = 0
    BY <1>4 DEF InTurn, IInv, InTurnOK
  <2>2. queue # <<>>
    BY <2>1 DEF queue_done
  <2>3. curr = Head(queue) /\ others = Tail(queue)
    BY <2>1 DEF curr, others
  <2>4. /\ Head(queue) \in Live /\ Tail(queue) \in Seq(Live) /\ Distinct(Tail(queue))
        /\ Head(queue) \notin Range(Tail(queue)) /\ Range(queue) = Range(Tail(queue)) \cup {Head(queue)}
    BY <2>2, <1>1, PopHead
  <2> QED
    BY <2>1, <2>3, <2>4, <1>1, <1>2, WaitingRange DEF InTurn
<1> QED
  BY <1>3, <1>4

\* The page run_proc_RR finds for a process with lines left.
LEMMA PageFacts ==
    ASSUME IInv, InTurn, pcb[curr].size > 0
    PROVE  /\ page \in DOMAIN pcb[curr].page_table /\ page \in Nat /\ slot \in 0..2
           /\ Counted(pcb) /\ Counted(Ran)
           /\ DOMAIN Ran = Live /\ Ran = [p \in Live |-> Ran[p]] /\ Ran[curr].size = pcb[curr].size - 1
           /\ \A p \in Live : Ran[p].page_table = pcb[p].page_table /\ (p # curr => Ran[p] = pcb[p])
<1>1. curr \in Live
  BY TurnFacts
<1>2. Counted(pcb)
  BY DEF IInv
<1>3. PICK c : c = pcb[curr] /\ IsPCB(c)
  BY <1>1, <1>2 DEF Counted, Live
<1>4. PICK e \in Nat : HasRun(c, e)
  <2>1. PICK e \in 0..(3 * pcb[curr].page_table_size) : HasRun(pcb[curr], e)
    BY <1>1, <1>2 DEF Counted, Live
  <2>2. e \in Nat
    BY <1>3, PCBFields
  <2> QED
    BY <2>1, <2>2, <1>3
<1>5. page = Lowest({i \in DOMAIN c.program_counter : c.program_counter[i] # 3})
  BY <1>3, Zenon DEF page
<1>6. /\ page \in DOMAIN c.program_counter /\ page \in Nat
      /\ c.program_counter[page] \in 0..2
  BY <1>3, <1>4, <1>5, Scan
<1>7. PICK d : d = [c EXCEPT !.program_counter[page] = @ + 1, !.size = @ - 1] /\ RanOne(c, d, page)
  BY DEF RanOne
<1>8. /\ IsPCB(d) /\ HasRun(d, e + 1) /\ d.size = c.size - 1 /\ d.page_table = c.page_table
      /\ d.page_table_size = c.page_table_size
  BY <1>3, <1>4, <1>5, <1>7, RanCounts, SMTT(30)
<1>9. DOMAIN Ran = Live /\ Ran[curr] = d /\ \A p \in Live : p # curr => Ran[p] = pcb[p]
  <2>1. /\ DOMAIN Ran = DOMAIN pcb /\ \A p \in DOMAIN pcb : p # curr => Ran[p] = pcb[p]
    BY <1>1, Zenon DEF Ran, Live
  <2>2. Ran[curr] = [pcb[curr] EXCEPT !.program_counter[page] = @ + 1, !.size = @ - 1]
    BY <1>1, <1>3 DEF Ran, Live, IsPCB
  <2> QED
    BY <2>1, <2>2, <1>3, <1>7 DEF Live
<1>10. e + 1 \in 0..(3 * d.page_table_size)
  <2>1. PICK l \in Nat, n \in Nat : l = d.size /\ n = d.page_table_size
    BY <1>8, PCBFields
  <2>2. PAGE_table_size(l + (e + 1)) = n
    BY <2>1, <1>8 DEF HasRun
  <2>3. e + 1 <= 3 * n
    BY <2>1, <2>2, <1>4 DEF PAGE_table_size
  <2>4. 3 * n \in Nat
    BY <2>1
  <2> QED
    BY <2>1, <2>3, <2>4, <1>4
<1>11. Counted(Ran)
  <2> SUFFICES ASSUME NEW p \in Live
               PROVE  IsPCB(Ran[p]) /\ \E f \in 0..(3 * Ran[p].page_table_size) : HasRun(Ran[p], f)
    BY <1>9 DEF Counted
  <2>1. CASE p = curr
    BY <2>1, <1>8, <1>9, <1>10
  <2>2. CASE p # curr
    BY <2>2, <1>2, <1>9 DEF Counted, Live
  <2> QED
    BY <2>1, <2>2
<1>12. page \in DOMAIN c.page_table
  BY <1>3, <1>6, PCBFields
<1>13. slot \in 0..2
  BY <1>3, <1>6 DEF slot
<1>14. Ran = [p \in Live |-> Ran[p]]
  <2>1. pcb = [p \in Live |-> pcb[p]]
    BY DEF IInv, QueueIntegrity, TypeOK
  <2>2. pcb \in [Live -> {pcb[p] : p \in Live}]
    BY <2>1, Zenon
  <2>3. \A f : f \in [Live -> {pcb[p] : p \in Live}] => \A x : [f EXCEPT ![curr] = x] = [p \in Live |-> [f EXCEPT ![curr] = x][p]]
    OBVIOUS
  <2> QED
    BY <2>1, <2>2, <2>3 DEF Ran
<1> QED
  BY <1>2, <1>3, <1>6, <1>8, <1>9, <1>11, <1>12, <1>13, <1>14

\* PageIn with a frame to spare, and without one.
LEMMA PageInLoads ==
    ASSUME NEW procs, PageIn(procs), Spaces(frames) # {}
    PROVE  Paged(load_PAGE([fr |-> frames, pcb |-> procs, lru |-> lru, ok |-> TRUE], curr, page))
<1> DEFINE s == [fr |-> frames, pcb |-> procs, lru |-> lru, ok |-> TRUE]
<1>1. \E st \in {s} : \E new \in {load_PAGE(st, curr, page)} : Paged(new)
  BY Zenon DEF PageIn
<1> HIDE DEF s
<1>2. Paged(load_PAGE(s, curr, page))
  BY <1>1, Zenon
<1> QED
  BY <1>2 DEF s

LEMMA PageInEvicts ==
    ASSUME NEW procs, PageIn(procs), Spaces(frames) = {}
    PROVE  Paged(load_PAGE(PAGE_evict([fr |-> frames, pcb |-> procs, lru |-> Front(lru), ok |-> TRUE],
                                      Last(lru)[1], Last(lru)[2]), curr, page))
<1> DEFINE s == PAGE_evict([fr |-> frames, pcb |-> procs, lru |-> Front(lru), ok |-> TRUE],
                           Last(lru)[1], Last(lru)[2])
<1>1. \E st \in {s} : \E new \in {load_PAGE(st, curr, page)} : Paged(new)
  BY Zenon DEF PageIn
<1> HIDE DEF s
<1>2. Paged(load_PAGE(s, curr, page))
  BY <1>1, Zenon
<1> QED
  BY <1>2 DEF s

\* What PAGE_evict does to the variables.
LEMMA VariablesFreed ==
    ASSUME IInv, FreeVariables
    PROVE  variables' \in [VarSlots -> Names \cup {NoName}]
<1>1. variables \in [VarSlots -> Names \cup {NoName}]
  BY DEF IInv, QueueIntegrity, TypeOK
<1>2. \A i \in VarSlots : (IF i \in Freed THEN NoName ELSE variables[i]) \in Names \cup {NoName}
  BY <1>1
<1> QED
  BY <1>2 DEF FreeVariables

\* PageIn keeps the counters and the types, and lists what it loads.
LEMMA PageInFacts ==
    ASSUME IInv, InTurn, NEW procs, DOMAIN procs = Live, Counted(procs),
           \A p \in Live : procs[p].page_table = pcb[p].page_table,
           page \in DOMAIN procs[curr].page_table, page \in Nat, procs = [p \in Live |-> procs[p]],
           PageIn(procs)
    PROVE  /\ frames' \in [FrameSlots -> [owner : Pids \cup {0}, line : Lines]]
           /\ pcb' = [p \in Live |-> pcb'[p]] /\ DOMAIN pcb' = Live
           /\ \A p \in Live : IsPCB(pcb'[p]) /\ SameCounters(procs[p], pcb'[p])
           /\ lru' \in Seq(Live \X Nat) /\ Listed(lru', pcb') /\ lru' # <<>>
           /\ queue' = Append(others, curr) /\ cpu' = [at |-> "first", pid |-> 0] /\ status' = status
           /\ variables' \in [VarSlots -> Names \cup {NoName}]
<1> DEFINE St(list) == [fr |-> frames, pcb |-> procs, lru |-> list, ok |-> TRUE]
<1>0. variables' \in [VarSlots -> Names \cup {NoName}]
  BY VariablesFreed DEF PageIn
<1>1. /\ curr \in Live /\ curr \in Pids
  BY TurnFacts
<1>2. /\ frames \in [FrameSlots -> [owner : Pids \cup {0}, line : Lines]] /\ lru \in Seq(Live \X Nat)
      /\ lru # <<>> /\ Live \subseteq Pids /\ Listed(lru, pcb)
  BY <1>1 DEF IInv, QueueIntegrity, TypeOK, InTurnOK
<1>3. procs \in [Live -> PCBs]
  <2>1. \A p \in Live : procs[p] \in PCBs
    BY PCBsArePCBs DEF Counted
  <2> QED
    BY <2>1, Zenon
<1>4. \A pg \in Range(lru) : pg \in Live \X Nat
  BY <1>2, RangeInside
<1>5. Listed(lru, procs)
  <2>1. \A pg \in Range(lru) : pg[1] \in DOMAIN pcb
    BY <1>4 DEF Live
  <2> QED
    BY <2>1, <1>2, SameListed DEF Live
<1>6. \A list \in Seq(Live \X Nat) : St(list) \in States(Live, Pids)
  BY <1>2, <1>3 DEF States
<1>7. PICK pg \in Live \X Nat : pg = <<curr, page>>
  BY <1>1
<1>8. ASSUME NEW s \in States(Live, Pids), NEW t, t = load_PAGE(s, curr, page), Listed(s.lru, s.pcb),
             \A p \in Live : SameCounters(procs[p], s.pcb[p]), page \in DOMAIN s.pcb[curr].page_table,
             Paged(t)
      PROVE  /\ frames' \in [FrameSlots -> [owner : Pids \cup {0}, line : Lines]]
             /\ pcb' = [p \in Live |-> pcb'[p]] /\ DOMAIN pcb' = Live
             /\ \A p \in Live : IsPCB(pcb'[p]) /\ SameCounters(procs[p], pcb'[p])
             /\ lru' \in Seq(Live \X Nat) /\ Listed(lru', pcb') /\ lru' # <<>>
             /\ queue' = Append(others, curr) /\ cpu' = [at |-> "first", pid |-> 0] /\ status' = status
  <2>1. t \in States(Live, Pids) /\ t.lru = s.lru /\ Differs(s.pcb, t.pcb, curr, page)
    BY <1>1, <1>8, LoadPage
  <2>2. /\ frames' = t.fr /\ pcb' = t.pcb /\ lru' = <<pg>> \o t.lru
        /\ queue' = Append(others, curr) /\ cpu' = [at |-> "first", pid |-> 0] /\ status' = status
    BY <1>7, <1>8 DEF Paged
  <2>3. t.pcb \in [Live -> PCBs] /\ t.fr \in [FrameSlots -> [owner : Pids \cup {0}, line : Lines]]
        /\ s.lru \in Seq(Live \X Nat) /\ DOMAIN s.pcb = Live
    BY <2>1, <1>8 DEF States
  <2>4. \A p \in Live : IsPCB(t.pcb[p])
    BY <2>3, PCBsArePCBs
  <2>5. \A p \in Live : SameCounters(procs[p], t.pcb[p])
    <3>1. \A p \in Live : SameCounters(s.pcb[p], t.pcb[p])
      BY <2>1, <2>3 DEF Differs, OnePage, SameCounters
    <3> QED
      BY <3>1, <1>8 DEF SameCounters
  <2>6. lru' \in Seq(Live \X Nat) /\ Range(lru') = Range(s.lru) \cup {pg} /\ lru' # <<>>
    <3>1. /\ <<pg>> \o s.lru \in Seq(Live \X Nat)
          /\ Range(<<pg>> \o s.lru) = Range(s.lru) \cup {pg} /\ <<pg>> \o s.lru # <<>>
      BY <2>3, AddHead
    <3> QED
      BY <3>1, <2>1, <2>2
  <2>7. Listed(lru', t.pcb)
    <3>1. Range(s.lru) \subseteq Live \X Nat
      BY <2>3, RangeInside
    <3>2. Range(lru') = Range(s.lru) \cup {<<curr, page>>}
      BY <2>6, <1>7
    <3> QED
      BY <3>1, <3>2, <2>1, <2>3, <1>1, <1>8, PageTaken
  <2>8. DOMAIN t.pcb = Live /\ t.pcb = [p \in Live |-> t.pcb[p]]
    BY <2>3
  <2> QED
    BY <2>2, <2>3, <2>4, <2>5, <2>6, <2>7, <2>8
<1>9. \A p \in Live : SameCounters(procs[p], procs[p])
  BY DEF SameCounters
<1>10. CASE Spaces(frames) # {}
  <2>1. PICK s : s = St(lru)
    OBVIOUS
  <2>2. Paged(load_PAGE(s, curr, page))
    BY <2>1, <1>10, PageInLoads, Zenon
  <2>3. s \in States(Live, Pids)
    BY <2>1, <1>2, <1>6
  <2>4. s.lru = lru /\ s.pcb = procs
    BY <2>1
  <2> QED
    BY <2>2, <2>3, <2>4, <1>0, <1>5, <1>8, <1>9
<1>11. CASE Spaces(frames) = {}
  <2>1. PICK s, v : s = St(Front(lru)) /\ v = Last(lru)
    OBVIOUS
  <2>2. PICK u : u = PAGE_evict(s, v[1], v[2])
    OBVIOUS
  <2>3. Paged(load_PAGE(u, curr, page))
    BY <2>1, <2>2, <1>11, PageInEvicts, Zenon
  <2>4. /\ v \in Live \X Nat /\ v \in Range(lru) /\ Front(lru) \in Seq(Live \X Nat)
        /\ Range(Front(lru)) \subseteq Range(lru) /\ Range(lru) \subseteq Range(Front(lru)) \cup {v}
    BY <2>1, <1>2, DropLast
  <2>5. s \in States(Live, Pids) /\ s.lru = Front(lru) /\ s.pcb = procs
    BY <2>1, <2>4, <1>6
  <2>6. PICK p, k : p = v[1] /\ k = v[2] /\ p \in Live /\ v = <<p, k>>
    BY <2>4
  <2>7. k \in DOMAIN procs[p].page_table
    BY <2>4, <2>6, <1>5, ListedRange
  <2>8. /\ u \in States(Live, Pids) /\ u.lru = Front(lru) /\ Differs(procs, u.pcb, p, k)
        /\ Invalid(u.pcb[p].page_table[k])
    <3>1. u = PAGE_evict(s, p, k) /\ k \in DOMAIN s.pcb[p].page_table
      BY <2>2, <2>5, <2>6, <2>7
    <3>2. /\ u \in States(Live, Pids) /\ u.lru = s.lru /\ Differs(s.pcb, u.pcb, p, k)
          /\ Invalid(u.pcb[p].page_table[k])
      BY <3>1, <2>5, <2>6, EvictPage
    <3> QED
      BY <3>2, <2>5
  <2>9. Listed(Front(lru), u.pcb)
    <3>1. Range(lru) \subseteq Live \X Nat
      BY <1>4
    <3>2. Range(lru) \subseteq Range(Front(lru)) \cup {<<p, k>>} /\ Range(Front(lru)) \subseteq Range(lru)
      BY <2>4, <2>6
    <3> QED
      BY <3>1, <3>2, <2>6, <2>7, <2>8, <1>5, PageLeft
  <2>10. \A q \in Live : SameCounters(procs[q], u.pcb[q])
    BY <2>8 DEF Differs, OnePage, SameCounters
  <2>11. page \in DOMAIN u.pcb[curr].page_table
    BY <2>8, <1>1 DEF Differs, OnePage
  <2> QED
    BY <2>3, <2>8, <2>9, <2>10, <2>11, <1>0, <1>8
<1> QED
  BY <1>10, <1>11

\* The counters are all that counting the lines depends on.
LEMMA CountedSame ==
    ASSUME NEW a, NEW b, Counted(a), DOMAIN b = DOMAIN a,
           \A p \in DOMAIN a : IsPCB(b[p]) /\ SameCounters(a[p], b[p])
    PROVE  Counted(b)
<1> SUFFICES ASSUME NEW p \in DOMAIN a
             PROVE  \E e \in 0..(3 * b[p].page_table_size) : HasRun(b[p], e)
  BY DEF Counted
<1>1. PICK e \in 0..(3 * a[p].page_table_size) : HasRun(a[p], e)
  BY DEF Counted
<1>2. /\ b[p].size = a[p].size /\ b[p].page_table_size = a[p].page_table_size
      /\ b[p].program_counter = a[p].program_counter
  BY DEF SameCounters
<1>3. HasRun(b[p], e)
  BY <1>1, <1>2 DEF HasRun
<1> QED
  BY <1>1, <1>2, <1>3

\* How a turn of run_proc_RR leaves queue and CPU: the process goes to the
\* tail, has another line to run, or is finished.
TurnOver ==
    \/ queue' = Append(others, curr) /\ cpu' = [at |-> "first", pid |-> 0]
    \/ queue' = others /\ cpu' = [at |-> "second", pid |-> curr] /\ pcb'[curr].size > 0
    \/ queue' = others /\ cpu' = [at |-> "first", pid |-> 0] /\ pcb'[curr].size = 0

\* The invariant after a turn, from what the turn did to memory and PCBs.
LEMMA AfterTurn ==
    ASSUME IInv, InTurn, TurnOver,
           frames' \in [FrameSlots -> [owner : Pids \cup {0}, line : Lines]],
           pcb' = [p \in Live |-> pcb'[p]], DOMAIN pcb' = Live, Counted(pcb'),
           \A p \in Live : p # curr => pcb'[p].size = pcb[p].size,
           lru' \in Seq(Live \X Nat), Listed(lru', pcb'), lru' # <<>>,
           variables' \in [VarSlots -> Names \cup {NoName}], UNCHANGED <<pid_counter, status, stored>>
    PROVE  IInv'
<1>1. /\ curr \in Live /\ curr \in Pids /\ others \in Seq(Live) /\ Distinct(others)
      /\ curr \notin Range(others)
      /\ \A p \in Live : p \in Waiting \cup {cpu.pid} => p = curr \/ p \in Range(others)
  BY TurnFacts
<1>2. /\ pid_counter \in Nat \ {0}
      /\ Live \subseteq Pids /\ status \in {"ok", "exit", "ub"} /\ stored \subseteq Names
      /\ \A p \in Live : p \notin Waiting \cup {cpu.pid} => pcb[p].size = 0
  BY DEF IInv, QueueIntegrity, TypeOK
<1>3. Pids' = Pids /\ Live' = Live
  BY DEF Pids, Live
<1>4. 0 \notin Live
  BY <1>2 DEF Pids
<1>5. /\ queue' \in Seq(Live) /\ Distinct(queue') /\ cpu'.pid \notin Range(queue')
      /\ Range(others) \subseteq Range(queue')
      /\ curr \in Range(queue') \cup {cpu'.pid} \/ pcb'[curr].size = 0
      /\ cpu' \in [at : {"prompt", "first", "second"}, pid : Live \cup {0}]
      /\ (cpu'.at = "second" => cpu'.pid \in Live /\ pcb'[cpu'.pid].size > 0)
      /\ (cpu'.at # "second" => cpu'.pid = 0)
  <2>1. CASE queue' = Append(others, curr) /\ cpu' = [at |-> "first", pid |-> 0]
    <3>1. /\ queue' \in Seq(Live) /\ Distinct(queue')
          /\ Range(queue') = Range(others) \cup {curr}
      BY <2>1, <1>1, AddTail
    <3>2. Range(queue') \subseteq Live
      BY <3>1, RangeInside
    <3>3. cpu'.at = "first" /\ cpu'.pid = 0 /\ cpu' \in [at : {"prompt", "first", "second"}, pid : Live \cup {0}]
      BY <2>1
    <3> QED
      BY <3>1, <3>2, <3>3, <1>4
  <2>2. CASE queue' = others /\ cpu' = [at |-> "second", pid |-> curr] /\ pcb'[curr].size > 0
    BY <2>2, <1>1
  <2>3. CASE queue' = others /\ cpu' = [at |-> "first", pid |-> 0] /\ pcb'[curr].size = 0
    <3>1. Range(others) \subseteq Live
      BY <1>1, RangeInside
    <3>2. cpu'.at = "first" /\ cpu'.pid = 0 /\ cpu' \in [at : {"prompt", "first", "second"}, pid : Live \cup {0}]
      BY <2>3
    <3> QED
      BY <3>1, <3>2, <2>3, <1>1, <1>4
  <2> QED
    BY <2>1, <2>2, <2>3 DEF TurnOver
<1>6. Waiting' = Range(queue') /\ Range(queue') \subseteq Live
  <2>1. Waiting' = Range(queue')
    BY DEF Waiting, Range
  <2> QED
    BY <2>1, <1>5, RangeInside
<1>7. \A p \in Live : IsPCB(pcb'[p])
  BY DEF Counted
<1>8. TypeOK'
  BY <1>2, <1>3, <1>5, <1>7, Zenon DEF TypeOK
<1>9. QueueIntegrity'
  BY <1>3, <1>5, <1>6, <1>8 DEF QueueIntegrity, Distinct
<1>10. ASSUME NEW p \in Live, p \notin Range(queue') \cup {cpu'.pid} PROVE pcb'[p].size = 0
  <2>1. CASE p = curr
    BY <2>1, <1>5, <1>10
  <2>2. CASE p # curr
    BY <2>2, <1>1, <1>2, <1>5, <1>10
  <2> QED
    BY <2>1, <2>2
<1>11. InTurnOK'
  BY <1>3, <1>5 DEF InTurnOK
<1>12. Counted(pcb)' /\ Listed(lru, pcb)'
  BY DEF Counted, Listed, HasRun, IsPCB, Pages, Lines
<1> QED
  BY <1>3, <1>6, <1>9, <1>10, <1>11, <1>12 DEF IInv

\* A page fault: the process waits again, with its page in a frame or not.
LEMMA PageFaultIInv == IInv /\ page_fault => IInv'
<1> SUFFICES ASSUME IInv, page_fault PROVE IInv'
  OBVIOUS
<1>1. /\ InTurn /\ pcb[curr].size > 0 /\ PageIn(pcb)
      /\ UNCHANGED <<pid_counter, stored>>
  BY DEF page_fault
<1>2. Counted(pcb) /\ DOMAIN pcb = Live /\ pcb = [p \in Live |-> pcb[p]]
  BY DEF IInv, QueueIntegrity, TypeOK, Live
<1>3. page \in DOMAIN pcb[curr].page_table /\ page \in Nat
  BY <1>1, PageFacts
<1>4. /\ frames' \in [FrameSlots -> [owner : Pids \cup {0}, line : Lines]]
      /\ pcb' = [p \in Live |-> pcb'[p]] /\ DOMAIN pcb' = Live
      /\ \A p \in Live : IsPCB(pcb'[p]) /\ SameCounters(pcb[p], pcb'[p])
      /\ lru' \in Seq(Live \X Nat) /\ Listed(lru', pcb') /\ lru' # <<>>
      /\ queue' = Append(others, curr) /\ cpu' = [at |-> "first", pid |-> 0] /\ status' = status
      /\ variables' \in [VarSlots -> Names \cup {NoName}]
  BY <1>1, <1>2, <1>3, PageInFacts
<1>5. Counted(pcb')
  BY <1>2, <1>4, CountedSame
<1>6. TurnOver
  BY <1>4 DEF TurnOver
<1>7. \A p \in Live : pcb'[p].size = pcb[p].size
  BY <1>4 DEF SameCounters
<1> QED
  BY <1>1, <1>4, <1>5, <1>6, <1>7, AfterTurn

\* A command that returned 1 ran, and is then taken for a page fault.
LEMMA CommandReturnsOneIInv == IInv /\ CommandReturnsOne => IInv'
<1> SUFFICES ASSUME IInv, CommandReturnsOne PROVE IInv'
  OBVIOUS
<1>1. /\ InTurn /\ pcb[curr].size > 0 /\ PageIn(Ran)
      /\ UNCHANGED <<pid_counter, stored>>
  BY DEF CommandReturnsOne, ReturnsOne
<1>2. PICK procs : procs = Ran
  OBVIOUS
<1>3. /\ page \in DOMAIN procs[curr].page_table /\ page \in Nat
      /\ Counted(procs) /\ DOMAIN procs = Live /\ procs = [p \in Live |-> procs[p]]
      /\ \A p \in Live : procs[p].page_table = pcb[p].page_table /\ (p # curr => procs[p] = pcb[p])
  BY <1>1, <1>2, PageFacts, TurnFacts
<1>4. /\ frames' \in [FrameSlots -> [owner : Pids \cup {0}, line : Lines]]
      /\ pcb' = [p \in Live |-> pcb'[p]] /\ DOMAIN pcb' = Live
      /\ \A p \in Live : IsPCB(pcb'[p]) /\ SameCounters(procs[p], pcb'[p])
      /\ lru' \in Seq(Live \X Nat) /\ Listed(lru', pcb') /\ lru' # <<>>
      /\ queue' = Append(others, curr) /\ cpu' = [at |-> "first", pid |-> 0] /\ status' = status
      /\ variables' \in [VarSlots -> Names \cup {NoName}]
  BY <1>1, <1>2, <1>3, PageInFacts
<1>5. Counted(pcb')
  BY <1>3, <1>4, CountedSame
<1>6. TurnOver
  BY <1>4 DEF TurnOver
<1>7. \A p \in Live : p # curr => pcb'[p].size = pcb[p].size
  BY <1>3, <1>4 DEF SameCounters
<1> QED
  BY <1>1, <1>4, <1>5, <1>6, <1>7, AfterTurn

\* A line that ran: its page is on the list and goes to the head.
LEMMA TouchFacts ==
    ASSUME IInv, InTurn, pcb[curr].size > 0, valid_bit, Touch
    PROVE  lru' \in Seq(Live \X Nat) /\ Range(lru') = Range(lru) /\ lru' # <<>>
<1>1. page \in DOMAIN pcb[curr].page_table /\ slot \in 0..2 /\ curr \in Live
  BY PageFacts, TurnFacts
<1>2. lru \in Seq(Live \X Nat)
  BY DEF IInv, QueueIntegrity, TypeOK
<1> DEFINE Position(pg) == pcb[pg[1]].page_table[pg[2]].index[0]
           S == {n \in DOMAIN lru : Position(lru[n]) = Position(<<curr, page>>)}
           m == Lowest(S)
<1>3. PICK n \in DOMAIN lru : lru[n] = <<curr, page>>
  BY <1>1 DEF IInv, Listed, valid_bit, Live
<1>4. n \in S
  BY <1>3
<1>5. S \subseteq Nat
  <2>1. DOMAIN lru \subseteq Nat
    BY <1>2, LenProperties
  <2> QED
    BY <2>1
<1>6. m \in S
  <2> HIDE DEF S
  <2>1. \E x \in S : \A y \in S : x <= y
    BY <1>4, <1>5, LeastNat
  <2> QED
    BY <2>1, Zenon DEF Lowest
<1>7. PICK i \in DOMAIN lru : i = m
  BY <1>6
<1>8. lru' = <<lru[i]>> \o RemoveAt(lru, i)
  BY <1>7, Zenon DEF Touch
<1> QED
  BY <1>2, <1>8, ToHead

\* cpu_run.
LEMMA CpuRunIInv == IInv /\ cpu_run => IInv'
<1> SUFFICES ASSUME IInv, cpu_run PROVE IInv'
  OBVIOUS
<1>1. /\ InTurn /\ pcb[curr].size > 0 /\ valid_bit /\ Touch /\ pcb' = Ran
      /\ queue' = (IF cpu.at = "second" THEN Append(others, curr) ELSE others)
      /\ cpu' = (IF cpu.at = "first" /\ pcb[curr].size > 1 THEN [at |-> "second", pid |-> curr]
                 ELSE [at |-> "first", pid |-> 0])
      /\ UNCHANGED <<frames, variables, pid_counter, stored, status>>
  BY DEF cpu_run
<1>2. /\ Counted(pcb') /\ DOMAIN pcb' = Live /\ pcb' = [p \in Live |-> pcb'[p]]
      /\ \A p \in Live : pcb'[p].page_table = pcb[p].page_table /\ (p # curr => pcb'[p] = pcb[p])
      /\ pcb'[curr].size = pcb[curr].size - 1
  BY <1>1, PageFacts
<1>3. lru' \in Seq(Live \X Nat) /\ Range(lru') = Range(lru) /\ lru' # <<>>
  BY <1>1, TouchFacts
<1>4. Listed(lru', pcb')
  <2>1. lru \in Seq(Live \X Nat) /\ Listed(lru, pcb)
    BY DEF IInv, QueueIntegrity, TypeOK
  <2>2. \A pg \in Range(lru) : pg[1] \in DOMAIN pcb
    <3>1. Range(lru) \subseteq Live \X Nat
      BY <2>1, RangeInside
    <3> QED
      BY <3>1 DEF Live
  <2> QED
    BY <2>1, <2>2, <1>2, <1>3, SameListed DEF Live
<1>5. /\ frames' \in [FrameSlots -> [owner : Pids \cup {0}, line : Lines]]
      /\ variables' \in [VarSlots -> Names \cup {NoName}]
  BY <1>1 DEF IInv, QueueIntegrity, TypeOK
<1>6. TurnOver
  <2>1. PICK l \in Nat : l = pcb[curr].size
    BY TurnFacts, <1>1, PCBFields DEF IInv, Counted, Live
  <2>2. CASE cpu.at = "second"
    BY <2>2, <1>1 DEF TurnOver
  <2>3. CASE cpu.at = "first" /\ l > 1
    <3>1. l - 1 > 0
      BY <2>3
    <3> QED
      BY <3>1, <2>1, <2>3, <1>1, <1>2 DEF TurnOver
  <2>4. CASE cpu.at = "first" /\ ~(l > 1)
    <3>1. l - 1 = 0
      BY <2>4, <2>1, <1>1
    <3> QED
      BY <3>1, <2>1, <2>4, <1>1, <1>2 DEF TurnOver
  <2> QED
    BY <2>2, <2>3, <2>4, <1>1 DEF InTurn
<1> QED
  BY <1>1, <1>2, <1>3, <1>4, <1>5, <1>6, AfterTurn

\* Only a process without lines left is dropped.
LEMMA DropIInv == IInv /\ Drop => IInv'
<1> SUFFICES ASSUME IInv, Drop PROVE IInv'
  OBVIOUS
<1>1. /\ InTurn /\ pcb[curr].size <= 0 /\ queue' = others
      /\ UNCHANGED <<frames, variables, pcb, lru, pid_counter, cpu, stored, status>>
  BY DEF Drop
<1>2. curr \in Live
  BY <1>1, TurnFacts
<1>3. pcb[curr].size \in Nat
  BY <1>2, PCBFields DEF IInv, Counted, Live
<1>4. pcb[curr].size = 0
  BY <1>1, <1>3
<1>5. cpu.at = "first" /\ cpu.pid = 0
  BY <1>1, <1>4 DEF InTurn, IInv, InTurnOK, curr
<1>6. cpu' = [at |-> "first", pid |-> 0]
  BY <1>1, <1>5 DEF IInv, QueueIntegrity, TypeOK
<1>7. TurnOver
  BY <1>1, <1>4, <1>6 DEF TurnOver
<1>8. /\ frames' \in [FrameSlots -> [owner : Pids \cup {0}, line : Lines]]
      /\ pcb' = [p \in Live |-> pcb'[p]] /\ DOMAIN pcb' = Live /\ Counted(pcb')
      /\ lru' \in Seq(Live \X Nat) /\ Listed(lru', pcb') /\ lru' # <<>>
      /\ variables' \in [VarSlots -> Names \cup {NoName}]
  BY <1>1, <1>2 DEF IInv, QueueIntegrity, TypeOK, InTurnOK, Live
<1> QED
  BY <1>1, <1>7, <1>8, AfterTurn

\* The invariant where the processes are left alone.
LEMMA SameProcesses ==
    ASSUME IInv, UNCHANGED <<frames, pcb, queue, lru, pid_counter, cpu>>,
           variables' \in [VarSlots -> Names \cup {NoName}],
           status' \in {"ok", "exit", "ub"}, stored' \subseteq Names
    PROVE  IInv'
<1>1. Pids' = Pids /\ Live' = Live /\ Waiting' = Waiting
  BY DEF Pids, Live, Waiting
<1>2. TypeOK'
  <2>1. TypeOK
    BY DEF IInv, QueueIntegrity
  <2> QED
    BY <2>1, <1>1 DEF TypeOK
<1>3. QueueIntegrity'
  BY <1>1, <1>2 DEF IInv, QueueIntegrity
<1>4. InTurnOK'
  BY <1>1 DEF IInv, InTurnOK
<1>5. Counted(pcb') /\ Listed(lru', pcb')
  BY DEF IInv
<1>6. Counted(pcb)' /\ Listed(lru, pcb)'
  BY <1>5 DEF Counted, Listed, HasRun, IsPCB, Pages, Lines
<1> QED
  BY <1>1, <1>3, <1>4, <1>6 DEF IInv

\* set: the free slot is in the variable zone.
LEMMA SetIInv ==
    ASSUME IInv, NEW x \in Names, set(x)
    PROVE  IInv'
<1> DEFINE same == {i \in VarSlots : variables[i] = x}
           free == {i \in VarSlots : variables[i] = NoName}
<1>1. /\ variables' = (IF same = {} /\ free # {} THEN [variables EXCEPT ![Lowest(free)] = x] ELSE variables)
      /\ stored' = (IF same # {} \/ free # {} THEN stored \cup {x} ELSE stored)
      /\ UNCHANGED <<frames, pcb, queue, lru, pid_counter, cpu, status>>
  BY DEF set
<1>2. variables \in [VarSlots -> Names \cup {NoName}] /\ stored \subseteq Names /\ status \in {"ok", "exit", "ub"}
  BY DEF IInv, QueueIntegrity, TypeOK
<1>3. \A i : [variables EXCEPT ![i] = x] \in [VarSlots -> Names \cup {NoName}]
  BY <1>2
<1> HIDE DEF same, free
<1>4. variables' \in [VarSlots -> Names \cup {NoName}]
  BY <1>1, <1>2, <1>3
<1>5. stored' \subseteq Names
  BY <1>1, <1>2
<1> QED
  BY <1>1, <1>2, <1>4, <1>5, SameProcesses

\* resetmem.
LEMMA ResetmemIInv == IInv /\ resetmem => IInv'
<1> SUFFICES ASSUME IInv, resetmem PROVE IInv'
  OBVIOUS
<1>1. /\ variables' = [i \in VarSlots |-> NoName] /\ stored' = {}
      /\ UNCHANGED <<frames, pcb, queue, lru, pid_counter, cpu, status>>
  BY DEF resetmem
<1>2. variables' \in [VarSlots -> Names \cup {NoName}] /\ stored' \subseteq Names
      /\ status' \in {"ok", "exit", "ub"}
  BY <1>1 DEF IInv, QueueIntegrity, TypeOK
<1> QED
  BY <1>1, <1>2, SameProcesses

\* The end of run_proc_RR leaves no process, and slots with an owner only
\* where there was one.
LEMMA FreePCBIInv == IInv /\ free_PCB => IInv'
<1> SUFFICES ASSUME IInv, free_PCB PROVE IInv'
  OBVIOUS
<1>1. /\ pcb' = <<>> /\ queue' = <<>> /\ lru' = <<>> /\ cpu' = Prompt
      /\ UNCHANGED <<pid_counter, stored>>
  BY DEF free_PCB
<1>2. /\ frames \in [FrameSlots -> [owner : Pids \cup {0}, line : Lines]]
      /\ variables \in [VarSlots -> Names \cup {NoName}] /\ status \in {"ok", "exit", "ub"}
      /\ pid_counter \in Nat \ {0} /\ stored \subseteq Names
  BY DEF IInv, QueueIntegrity, TypeOK
<1>3. none \in [owner : Pids \cup {0}, line : Lines]
  BY DEF none, Lines
<1>4. /\ frames' \in [FrameSlots -> [owner : Pids \cup {0}, line : Lines]]
      /\ variables' \in [VarSlots -> Names \cup {NoName}] /\ status' \in {"ok", "exit", "ub"}
  <2>1. CASE Cleared \subseteq FrameSlots \cup VarSlots
    <3>1. /\ frames' = [i \in FrameSlots |-> IF i \in Cleared THEN none ELSE frames[i]]
          /\ variables' = [i \in VarSlots |-> IF i \in Cleared THEN NoName ELSE variables[i]]
          /\ status' = status
      BY <2>1 DEF free_PCB
    <3>2. \A i \in FrameSlots : (IF i \in Cleared THEN none ELSE frames[i]) \in [owner : Pids \cup {0}, line : Lines]
      BY <1>2, <1>3
    <3>3. \A i \in VarSlots : (IF i \in Cleared THEN NoName ELSE variables[i]) \in Names \cup {NoName}
      BY <1>2
    <3> QED
      BY <3>1, <3>2, <3>3, <1>2
  <2>2. CASE ~(Cleared \subseteq FrameSlots \cup VarSlots)
    BY <2>2, <1>2 DEF free_PCB
  <2> QED
    BY <2>1, <2>2
<1>5. DOMAIN pcb' = {} /\ DOMAIN queue' = {} /\ DOMAIN lru' = {}
  BY <1>1
<1>6. Pids' = Pids /\ Live' = {} /\ Waiting' = {}
  BY <1>1, <1>5 DEF Pids, Live, Waiting
<1>7. cpu' = [at |-> "prompt", pid |-> 0]
  BY <1>1 DEF Prompt
<1>8. TypeOK'
  BY <1>1, <1>2, <1>4, <1>5, <1>6, <1>7 DEF TypeOK
<1>9. QueueIntegrity'
  BY <1>5, <1>6, <1>8 DEF QueueIntegrity
<1>10. Counted(pcb)' /\ Listed(lru, pcb)'
  BY <1>5 DEF Counted, Listed
<1>11. InTurnOK'
  BY <1>6, <1>7 DEF InTurnOK
<1> QED
  BY <1>6, <1>9, <1>10, <1>11 DEF IInv

\* run and exec: the processes start with all their lines to run.
LEMMA ExecIInv ==
    ASSUME IInv, NEW fs \in Batches, exec(fs)
    PROVE  IInv'
<1> DEFINE st == Processes(fs)
<1>1. /\ frames \in [FrameSlots -> [owner : Pids \cup {0}, line : Lines]]
      /\ variables \in [VarSlots -> Names \cup {NoName}] /\ status \in {"ok", "exit", "ub"}
      /\ pid_counter \in Nat \ {0} /\ stored \subseteq Names
  BY DEF IInv, QueueIntegrity, TypeOK
<1>2. /\ UNCHANGED <<variables, stored>>
      /\ \/ /\ \A i \in DOMAIN fs : fs[i] \in DOMAIN Script
            /\ Start(fs, st)
         \/ \E how \in {"exit", "ub"} : Ends(how)
  BY Zenon DEF exec
<1>3. CASE \E how \in {"exit", "ub"} : Ends(how)
  <2>1. status' \in {"exit", "ub"} /\ UNCHANGED <<frames, pcb, queue, lru, pid_counter, cpu>>
    BY <1>3 DEF Ends
  <2> QED
    BY <1>1, <1>2, <2>1, SameProcesses
<1>4. CASE ~st.ok /\ Start(fs, st)
  <2>1. Ends("exit")
    BY <1>4, Zenon DEF Start
  <2> QED
    BY <2>1, <1>3
<1>5. ASSUME \A i \in DOMAIN fs : fs[i] \in DOMAIN Script, st.ok, Start(fs, st) PROVE IInv'
  <2>1. PICK N \in Nat \ {0} : N = Len(fs) /\ DOMAIN fs = 1..N
    BY ScriptAssumption
  <2>2. PICK c \in Nat \ {0} : c = pid_counter
    BY <1>1
  <2> DEFINE P == c..(c + N - 1)
             Q == 1..(c + N - 1)
             new == [p \in P |-> FreshPCB(fs[p - c + 1])]
             pids == [i \in 1..N |-> c + i - 1]
  <2>3. /\ frames' = st.fr /\ pcb' = st.pcb /\ lru' = st.lru /\ queue' = pids
        /\ pid_counter' = c + N /\ cpu' = [at |-> "first", pid |-> 0] /\ status' = status
    BY <1>5, <2>1, <2>2, Zenon DEF Start
  <2>4. P \subseteq Q /\ Pids \subseteq Q
    BY <2>1, <2>2 DEF Pids
  <2>5. st \in Starting(P, Q, new) /\ st.lru # <<>>
    <3>1. \A f : f \in [FrameSlots -> [owner : Pids \cup {0}, line : Lines]]
                   => f \in [FrameSlots -> [owner : Q \cup {0}, line : Lines]]
      <4>1. \A r : r \in [owner : Pids \cup {0}, line : Lines] => r \in [owner : Q \cup {0}, line : Lines]
        BY <2>4
      <4> QED
        BY <4>1
    <3>2. frames \in [FrameSlots -> [owner : Q \cup {0}, line : Lines]]
      BY <3>1, <1>1
    <3>3. \A i \in 1..N : fs[i] \in DOMAIN Script
      BY <1>5, <2>1
    <3>4. pid_counter \in Nat /\ pid_counter..(pid_counter + N - 1) \subseteq Q
      BY <2>2, <2>4
    <3>5. Started(fs, N, Q)
      <4> HIDE DEF Q
      <4> QED
        BY <3>2, <3>3, <3>4, <2>1, ProcessesStart
    <3> QED
      BY <3>5, <1>5, <2>2, Zenon DEF Started
  <2>6. /\ st.fr \in [FrameSlots -> [owner : Q \cup {0}, line : Lines]] /\ st.pcb \in [P -> PCBs]
        /\ st.lru \in Seq(P \X Nat) /\ Listed(st.lru, st.pcb)
        /\ \A p \in P : SameCounters(new[p], st.pcb[p])
    BY <2>5, <1>5 DEF Starting, States
  <2>7. Pids' = Q /\ Live' = P
    <3>1. Pids' = 1..((c + N) - 1) /\ (c + N) - 1 = c + N - 1
      BY <2>1, <2>2, <2>3 DEF Pids
    <3>2. Live' = P
      BY <2>3, <2>6 DEF Live
    <3> QED
      BY <3>1, <3>2
  <2>8. /\ pids \in Seq(P) /\ DOMAIN pids = 1..N /\ (\A i, j \in 1..N : pids[i] = pids[j] => i = j)
        /\ {pids[i] : i \in 1..N} = P
    <3>1. \A i \in 1..N : c + i - 1 \in P
      OBVIOUS
    <3>2. \A p \in P : p - c + 1 \in 1..N /\ c + (p - c + 1) - 1 = p
      OBVIOUS
    <3>3. pids \in Seq(P)
      <4> HIDE DEF P
      <4>1. pids \in [1..N -> P]
        BY <3>1
      <4> QED
        BY <4>1, SeqDef, ZenonT(60)
    <3>4. {pids[i] : i \in 1..N} = P
      <4> HIDE DEF P
      <4> QED
        BY <3>1, <3>2
    <3> QED
      BY <3>3, <3>4
  <2>9. Counted(st.pcb)
    <3>1. ASSUME NEW p \in P
          PROVE  IsPCB(new[p]) /\ \E e \in 0..(3 * new[p].page_table_size) : HasRun(new[p], e)
      <4>1. p - c + 1 \in 1..N
        OBVIOUS
      <4>2. PICK f \in DOMAIN Script : f = fs[p - c + 1]
        BY <4>1, <1>5, <2>1
      <4>3. PICK d : d = FreshPCB(f) /\ new[p] = d
        BY <4>2
      <4>4. IsPCB(d) /\ HasRun(d, 0)
        BY <4>3, FreshType
      <4>5. d.page_table_size \in Nat
        BY <4>4, PCBFields
      <4>6. 0 \in 0..(3 * d.page_table_size)
        BY <4>5
      <4> QED
        BY <4>3, <4>4, <4>6
    <3>2. DOMAIN new = P /\ DOMAIN st.pcb = P
      BY <2>6
    <3>3. Counted(new)
      <4> HIDE DEF P, new
      <4> QED
        BY <3>1, <3>2, Zenon DEF Counted
    <3>4. \A p \in P : IsPCB(st.pcb[p])
      BY <2>6, PCBsArePCBs
    <3> HIDE DEF P, new, st
    <3> QED
      BY <2>6, <3>2, <3>3, <3>4, CountedSame
  <2>10. st.pcb = [p \in P |-> st.pcb[p]] /\ \A p \in P : IsPCB(st.pcb[p])
    BY <2>6, PCBsArePCBs
  <2>11. 0 \notin P
    OBVIOUS
  <2>12. c + N \in Nat \ {0} /\ P \subseteq Q
    BY <2>4
  <2> HIDE DEF P, Q, new, pids, st
  <2>13. Waiting' = P
    BY <2>3, <2>8 DEF Waiting
  <2>14. cpu'.pid = 0 /\ cpu'.at = "first" /\ cpu' \in [at : {"prompt", "first", "second"}, pid : P \cup {0}]
    BY <2>3
  <2>15. TypeOK'
    BY <1>1, <1>2, <2>3, <2>6, <2>7, <2>8, <2>10, <2>12, <2>14, Zenon DEF TypeOK
  <2>16. QueueIntegrity'
    BY <2>3, <2>7, <2>8, <2>11, <2>13, <2>14, <2>15 DEF QueueIntegrity
  <2>17. InTurnOK'
    BY <2>3, <2>5, <2>14 DEF InTurnOK
  <2>18. Counted(pcb') /\ Listed(lru', pcb')
    BY <2>3, <2>6, <2>9
  <2>19. Counted(pcb)' /\ Listed(lru, pcb)'
    BY <2>18 DEF Counted, Listed, HasRun, IsPCB, Pages, Lines
  <2> QED
    BY <2>7, <2>13, <2>16, <2>17, <2>19 DEF IInv
<1> QED
  BY <1>2, <1>3, <1>4, <1>5

\* PAGE_evict outside of shellmemory.
LEMMA EvictOutsideIInv == IInv /\ EvictOutside => IInv'
<1> SUFFICES ASSUME IInv, EvictOutside PROVE IInv'
  OBVIOUS
<1>1. status' = "ub" /\ UNCHANGED <<frames, variables, pcb, queue, lru, pid_counter, cpu, stored>>
  BY DEF EvictOutside
<1>2. /\ variables' \in [VarSlots -> Names \cup {NoName}] /\ stored' \subseteq Names
      /\ status' \in {"ok", "exit", "ub"}
  BY <1>1 DEF IInv, QueueIntegrity, TypeOK
<1> QED
  BY <1>1, <1>2, SameProcesses

\* Every step keeps the invariant.
LEMMA NextIInv == IInv /\ [Next]_vars => IInv'
<1> SUFFICES ASSUME IInv, [Next]_vars PROVE IInv'
  OBVIOUS
<1>1. CASE UNCHANGED vars
  <2>1. UNCHANGED <<frames, variables, pcb, queue, lru, pid_counter, cpu, status, stored>>
    BY <1>1 DEF vars
  <2>2. /\ variables' \in [VarSlots -> Names \cup {NoName}]
        /\ status' \in {"ok", "exit", "ub"} /\ stored' \subseteq Names
    BY <2>1 DEF IInv, QueueIntegrity, TypeOK
  <2> QED
    BY <2>1, <2>2, SameProcesses
<1>2. ASSUME NEW fs \in Batches, exec(fs) PROVE IInv'
  BY <1>2, ExecIInv
<1>3. ASSUME NEW x \in Names, set(x) PROVE IInv'
  BY <1>3, SetIInv
<1>4. CASE resetmem
  BY <1>4, ResetmemIInv
<1>5. CASE page_fault
  BY <1>5, PageFaultIInv
<1>6. CASE CommandReturnsOne
  BY <1>6, CommandReturnsOneIInv
<1>7. CASE cpu_run
  BY <1>7, CpuRunIInv
<1>8. CASE Drop
  BY <1>8, DropIInv
<1>9. CASE free_PCB
  BY <1>9, FreePCBIInv
<1>10. CASE EvictOutside
  BY <1>10, EvictOutsideIInv
<1> QED
  BY <1>1, <1>2, <1>3, <1>4, <1>5, <1>6, <1>7, <1>8, <1>9, <1>10 DEF Next, Kernel

\* IInv holds in every state of the scheduler.
THEOREM Invariance == Spec => []IInv
  BY InitIInv, NextIInv, PTL DEF Spec

\* A process is in the queue at most once, only while its PCB is there, and
\* never while it has the CPU, whatever the commands of the scripts return
\* and whichever add_tail of run_proc_RR put it back.
THEOREM QueueSound == Spec => []QueueIntegrity
<1>1. IInv => QueueIntegrity
  BY DEF IInv
<1> QED
  BY <1>1, Invariance, PTL

\* The unbounded scans of run_proc_RR find a page: a process with lines left
\* has a program counter below 3, and one that is neither in the queue nor on
\* the CPU has none left.
THEOREM ScanSound == Spec => []ScanFindsPage
  BY ScansEnd, Invariance, PTL

-----------------------------------------------------------------------------
(* Plain scripts: pages in frames of three slots.                          *)

\* The fields of a page that load_PAGE has filled.
LEMMA PageAtFields ==
    ASSUME NEW b, NEW n
    PROVE  \A j \in 0..2 : PageAt(b, n).index[j] = b + j /\ PageAt(b, n).valid_bit[j] = (j < n)
  BY DEF PageAt

\* A page in a frame has the frame's slots for its positions.
LEMMA FrameOfPage ==
    ASSUME NEW fr, NEW procs, NEW pg, NEW t, NEW a \in Nat, InFrame(fr, procs, pg, t, a)
    PROVE  /\ 3 * a + 2 < FRAME_STORE_SIZE
           /\ Base(procs, pg) = 3 * a
           /\ \A j \in 0..2 : procs[pg[1]].page_table[pg[2]].index[j] = 3 * a + j
           /\ \A j \in 0..2 : 3 * a + j \in FrameSlots /\ fr[3 * a + j].owner = pg[1]
<1>1. \A j \in 0..2 : procs[pg[1]].page_table[pg[2]].index[j] = 3 * a + j
  BY PageAtFields DEF InFrame
<1>2. 3 * a + 2 < FRAME_STORE_SIZE
  BY DEF InFrame, FRAME_VAR_BORDER
<1>3. \A j \in 0..2 : 3 * a + j \in FrameSlots
  BY <1>2, StoreAssumption DEF FrameSlots, FRAME_VAR_BORDER
<1>4. 3 * a + 0 = 3 * a
  OBVIOUS
<1>5. Base(procs, pg) = 3 * a
  BY <1>1, <1>4 DEF Base
<1> QED
  BY <1>1, <1>2, <1>3, <1>5 DEF InFrame

\* The pages that the list names are pages with a line in a frame.
LEMMA ListedIn ==
    ASSUME NEW fr, NEW procs, NEW list, NEW txt, Stored(fr, procs, list, txt), NEW pg \in Range(list)
    PROVE  /\ pg[1] \in DOMAIN procs /\ pg[2] \in DOMAIN procs[pg[1]].page_table
           /\ procs[pg[1]].page_table[pg[2]].valid_bit[0]
<1>1. pg \in PagesIn(procs)
  BY Zenon DEF Stored
<1>2. PICK p \in DOMAIN procs : pg \in {p} \X DOMAIN procs[p].page_table
  BY <1>1 DEF PagesIn
<1>3. procs[pg[1]].page_table[pg[2]].valid_bit[0]
  BY <1>1, Zenon DEF PagesIn
<1>4. pg[1] = p /\ pg[2] \in DOMAIN procs[p].page_table
  BY <1>2
<1> QED
  BY <1>3, <1>4, Zenon

\* Quotient and remainder.
LEMMA Thirds == \A i \in Nat : \E a \in Nat, j \in 0..2 : i = 3 * a + j
<1> SUFFICES ASSUME NEW i \in Nat PROVE \E a \in Nat, j \in 0..2 : i = 3 * a + j
  OBVIOUS
<1>1. i \div 3 \in Nat /\ i % 3 \in 0..2 /\ i = 3 * (i \div 3) + (i % 3)
  OBVIOUS
<1> QED
  BY <1>1

\* Slots are numbers.
LEMMA SlotsAreNats == FrameSlots \subseteq Nat /\ IsFiniteSet(FrameSlots) /\ Cardinality(FrameSlots) = FRAME_STORE_SIZE
<1>1. FrameSlots = 0..(FRAME_STORE_SIZE - 1)
  BY DEF FrameSlots, FRAME_VAR_BORDER
<1>2. FRAME_STORE_SIZE \in Nat \ {0}
  BY StoreAssumption
<1> QED
  BY <1>1, <1>2, FS_Interval

\* Three slots in a row that start at a multiple of three are free as soon as
\* one of them is.
LEMMA FreeTriple ==
    ASSUME NEW fr, NEW procs, NEW list, NEW txt, Stored(fr, procs, list, txt), 0 \notin DOMAIN procs,
           NEW a \in Nat, 3 * a + 2 < FRAME_STORE_SIZE, NEW i \in 0..2, fr[3 * a + i].owner = 0
    PROVE  3 * a \in Spaces(fr)
<1>1. ASSUME NEW m \in 0..2, fr[3 * a + m].owner # 0 PROVE FALSE
  <2>1. 3 * a + m \in Used(fr)
    BY <1>1, StoreAssumption DEF Used, FrameSlots, FRAME_VAR_BORDER
  <2>2. PICK pg \in Range(list), j \in 0..2 : 3 * a + m = Base(procs, pg) + j
    BY <2>1 DEF Stored
  <2>3. PICK b \in FrameSlots : InFrame(fr, procs, pg, txt[pg[1]], b)
    BY DEF Stored
  <2>4. b \in Nat
    BY SlotsAreNats
  <2>5. Base(procs, pg) = 3 * b /\ \A n \in 0..2 : fr[3 * b + n].owner = pg[1]
    BY <2>3, <2>4, FrameOfPage
  <2>6. 3 * a + m = 3 * b + j
    BY <2>2, <2>5
  <2>7. a = b
    BY <2>6, <2>4
  <2>8. pg[1] = 0
    BY <2>5, <2>7
  <2>9. pg[1] \in DOMAIN procs
    BY ListedIn
  <2> QED
    BY <2>8, <2>9
<1>2. \A m \in 0..2 : fr[3 * a + m].owner = 0
  BY <1>1
<1>3. \A j \in (3 * a)..(3 * a + 2) : j - 3 * a \in 0..2 /\ 3 * a + (j - 3 * a) = j
  OBVIOUS
<1>4. \A j \in (3 * a)..(3 * a + 2) : fr[j].owner = 0
  BY <1>2, <1>3
<1>5. 3 * a \in FrameSlots
  BY StoreAssumption DEF FrameSlots, FRAME_VAR_BORDER
<1> QED
  BY <1>4, <1>5 DEF Spaces, FRAME_VAR_BORDER

\* frame_alloc finds whole frames: it starts from slot 0 and pages have three
\* slots each.
LEMMA WholeFrame ==
    ASSUME NEW fr, NEW procs, NEW list, NEW txt, Stored(fr, procs, list, txt), 0 \notin DOMAIN procs,
           Spaces(fr) # {}
    PROVE  \E a \in Nat : /\ Lowest(Spaces(fr)) = 3 * a /\ 3 * a + 2 < FRAME_STORE_SIZE
                          /\ \A j \in 0..2 : 3 * a + j \in FrameSlots /\ fr[3 * a + j].owner = 0
<1>1. Spaces(fr) \in SUBSET Nat
  BY StoreAssumption DEF Spaces, FrameSlots, FRAME_VAR_BORDER
<1>2. \E m \in Spaces(fr) : \A k \in Spaces(fr) : m <= k
  BY <1>1, LeastNat
<1>3. PICK b \in Nat : b = Lowest(Spaces(fr)) /\ b \in Spaces(fr) /\ \A k \in Spaces(fr) : b <= k
  BY <1>1, <1>2, Zenon DEF Lowest
<1>4. PICK a \in Nat, i \in 0..2 : b = 3 * a + i
  BY Thirds
<1>5. b + 2 < FRAME_STORE_SIZE /\ \A j \in b..(b + 2) : fr[j].owner = 0
  BY <1>3 DEF Spaces, FRAME_VAR_BORDER
<1>6. 3 * a + 2 < FRAME_STORE_SIZE /\ fr[3 * a + i].owner = 0
  BY <1>4, <1>5, StoreAssumption
<1>7. 3 * a \in Spaces(fr)
  BY <1>6, FreeTriple
<1>8. b <= 3 * a
  BY <1>3, <1>7
<1>9. b = 3 * a
  BY <1>4, <1>8
<1>10. \A j \in 0..2 : 3 * a + j \in b..(b + 2)
  BY <1>9
<1>11. \A j \in 0..2 : 3 * a + j \in FrameSlots
  BY <1>6, StoreAssumption DEF FrameSlots, FRAME_VAR_BORDER
<1> QED
  BY <1>3, <1>5, <1>6, <1>9, <1>10, <1>11

\* When frame_alloc finds nothing every frame holds a page.
LEMMA AllTaken ==
    ASSUME NEW fr, NEW procs, NEW list, NEW txt, Stored(fr, procs, list, txt), 0 \notin DOMAIN procs,
           Len(list) \in Nat, Spaces(fr) = {}
    PROVE  FRAME_STORE_SIZE \div 3 <= Len(list)
<1>1. PICK f \in Nat : f = FRAME_STORE_SIZE \div 3 /\ 3 * f <= FRAME_STORE_SIZE
  BY StoreAssumption
<1>2. ASSUME NEW i \in 0..(3 * f - 1) PROVE i \in Used(fr)
  <2>1. PICK a \in Nat, j \in 0..2 : i = 3 * a + j
    <3>1. i \in Nat
      OBVIOUS
    <3> QED
      BY <3>1, Thirds
  <2>2. 3 * a + 2 < FRAME_STORE_SIZE
    BY <2>1, <1>1, StoreAssumption
  <2>3. i \in FrameSlots
    BY <1>1, StoreAssumption DEF FrameSlots, FRAME_VAR_BORDER
  <2>4. fr[i].owner # 0
    BY <2>1, <2>2, FreeTriple
  <2> QED
    BY <2>3, <2>4 DEF Used
<1>3. IsFiniteSet(Used(fr))
  BY SlotsAreNats, FS_Subset DEF Used
<1>4. Cardinality(0..(3 * f - 1)) = 3 * f
  <2>1. PICK g \in Int : g = 3 * f - 1
    OBVIOUS
  <2>2. Cardinality(0..g) = (IF 0 <= g THEN g - 0 + 1 ELSE 0)
    BY FS_Interval
  <2> QED
    BY <2>1, <2>2
<1>5. Cardinality(0..(3 * f - 1)) <= Cardinality(Used(fr))
  BY <1>2, <1>3, FS_Subset
<1>6. 3 * f <= 3 * Len(list)
  BY <1>4, <1>5 DEF Stored
<1> QED
  BY <1>1, <1>6

-----------------------------------------------------------------------------
(* Lists without repetitions.                                              *)

\* add_head, element by element.
LEMMA HeadForm ==
    ASSUME NEW S, NEW s \in Seq(S), NEW x \in S, NEW r \in Nat, r = Len(s), NEW t, t = <<x>> \o s
    PROVE  /\ t \in Seq(S) /\ Len(t) = r + 1 /\ DOMAIN t = 1..(r + 1) /\ DOMAIN s = 1..r
           /\ t[1] = x /\ \A i \in 1..r : t[i + 1] = s[i]
<1>1. <<x>> \in Seq(S) /\ Len(<<x>>) = 1 /\ <<x>>[1] = x
  OBVIOUS
<1>2. PICK u \in Seq(S) : u = <<x>> /\ Len(u) = 1 /\ u[1] = x
  BY <1>1
<1>3. u \o s \in Seq(S) /\ Len(u \o s) = Len(u) + Len(s)
      /\ \A i \in 1..(Len(u) + Len(s)) : (u \o s)[i] = IF i <= Len(u) THEN u[i] ELSE s[i - Len(u)]
  BY ConcatProperties
<1>4. t \in Seq(S) /\ Len(t) = 1 + r /\ \A i \in 1..(1 + r) : t[i] = IF i <= 1 THEN u[i] ELSE s[i - 1]
  BY <1>2, <1>3
<1>5. DOMAIN t = 1..(r + 1) /\ DOMAIN s = 1..r
  <2>1. 1 + r = r + 1
    OBVIOUS
  <2> QED
    BY <2>1, <1>4, LenProperties
<1>6. 1 \in 1..(1 + r) /\ \A i \in 1..r : i + 1 \in 1..(1 + r) /\ ~(i + 1 <= 1) /\ (i + 1) - 1 = i
  OBVIOUS
<1>7. 1 + r = r + 1 /\ 1 <= 1
  OBVIOUS
<1> QED
  BY <1>2, <1>4, <1>5, <1>6, <1>7

\* A new page at the head of a list without repetitions.
LEMMA HeadDistinct ==
    ASSUME NEW S, NEW s \in Seq(S), NEW x \in S, x \notin Range(s), Distinct(s)
    PROVE  /\ Distinct(<<x>> \o s) /\ Len(<<x>> \o s) = Len(s) + 1
           /\ Range(<<x>> \o s) = Range(s) \cup {x}
<1>1. PICK r \in Nat : r = Len(s)
  BY LenProperties
<1>2. PICK t : t = <<x>> \o s
  OBVIOUS
<1>3. /\ Len(t) = r + 1 /\ DOMAIN t = 1..(r + 1) /\ DOMAIN s = 1..r
      /\ t[1] = x /\ \A i \in 1..r : t[i + 1] = s[i]
  BY <1>1, <1>2, HeadForm
<1>4. \A i \in 1..(r + 1) : i = 1 \/ \E j \in 1..r : i = j + 1
  <2>1. \A i \in 1..(r + 1) : i = 1 \/ (i - 1 \in 1..r /\ i = (i - 1) + 1)
    OBVIOUS
  <2> QED
    BY <2>1
<1>5. \A i \in 1..r : s[i] # x
  BY <1>3 DEF Range
<1>6. ASSUME NEW i \in 1..(r + 1), NEW j \in 1..(r + 1), t[i] = t[j] PROVE i = j
  <2>1. CASE i = 1 /\ j = 1
    BY <2>1
  <2>2. CASE i = 1 /\ j # 1
    <3>1. PICK b \in 1..r : j = b + 1
      BY <2>2, <1>4
    <3>2. t[i] = x /\ t[j] = s[b]
      BY <2>2, <3>1, <1>3
    <3> QED
      BY <3>2, <1>5, <1>6
  <2>3. CASE i # 1 /\ j = 1
    <3>1. PICK a \in 1..r : i = a + 1
      BY <2>3, <1>4
    <3>2. t[j] = x /\ t[i] = s[a]
      BY <2>3, <3>1, <1>3
    <3> QED
      BY <3>2, <1>5, <1>6
  <2>4. CASE i # 1 /\ j # 1
    <3>1. PICK a \in 1..r, b \in 1..r : i = a + 1 /\ j = b + 1
      BY <2>4, <1>4
    <3>2. s[a] = s[b]
      BY <3>1, <1>3, <1>6
    <3> QED
      BY <3>1, <3>2, <1>3 DEF Distinct
  <2> QED
    BY <2>1, <2>2, <2>3, <2>4
<1>7. Distinct(t)
  BY <1>3, <1>6, Zenon DEF Distinct
<1>8. Range(<<x>> \o s) = Range(s) \cup {x}
  BY AddHead
<1> QED
  BY <1>1, <1>2, <1>3, <1>7, <1>8

\* The list without its last page, element by element.
LEMMA FrontForm ==
    ASSUME NEW S, NEW s \in Seq(S), s # <<>>, NEW r \in Nat, r = Len(s), NEW t, t = Front(s)
    PROVE  /\ t \in Seq(S) /\ Len(t) = r - 1 /\ DOMAIN t = 1..(r - 1) /\ DOMAIN s = 1..r
           /\ r \in 1..r /\ Last(s) = s[r] /\ \A i \in 1..(r - 1) : t[i] = s[i]
<1>1. DOMAIN s = 1..r /\ s \in [1..r -> S]
  BY LenProperties
<1>2. r # 0
  BY EmptySeq
<1>3. r \in 1..r /\ t = SubSeq(s, 1, r - 1) /\ Last(s) = s[r]
  BY <1>1, <1>2 DEF Last, Front
<1>4. t \in Seq(S) /\ Len(t) = r - 1 /\ \A i \in 1..(r - 1) : t[i] = s[i]
  <2>1. \A i \in 1..(r - 1) : s[i] \in S
    BY <1>1
  <2>2. /\ t \in Seq(S) /\ Len(t) = IF 1 <= r - 1 THEN (r - 1) - 1 + 1 ELSE 0
        /\ \A i \in 1..((r - 1) - 1 + 1) : t[i] = s[1 + i - 1]
    BY <2>1, <1>3, SubSeqProperties
  <2>3. (r - 1) - 1 + 1 = r - 1 /\ (\A i \in 1..(r - 1) : 1 + i - 1 = i)
        /\ (IF 1 <= r - 1 THEN (r - 1) - 1 + 1 ELSE 0) = r - 1
    BY <1>2
  <2> QED
    BY <2>2, <2>3
<1>5. DOMAIN t = 1..(r - 1)
  BY <1>4, LenProperties
<1> QED
  BY <1>1, <1>3, <1>4, <1>5

\* The least recently used page leaves a list without repetitions.
LEMMA FrontDistinct ==
    ASSUME NEW S, NEW s \in Seq(S), s # <<>>, Distinct(s)
    PROVE  /\ Front(s) \in Seq(S) /\ Distinct(Front(s)) /\ Len(Front(s)) = Len(s) - 1
           /\ Range(Front(s)) = Range(s) \ {Last(s)}
<1>1. PICK r \in Nat : r = Len(s)
  BY LenProperties
<1>2. PICK t : t = Front(s)
  OBVIOUS
<1>3. /\ t \in Seq(S) /\ Len(t) = r - 1 /\ DOMAIN t = 1..(r - 1) /\ DOMAIN s = 1..r
      /\ r \in 1..r /\ Last(s) = s[r] /\ \A i \in 1..(r - 1) : t[i] = s[i]
  BY <1>1, <1>2, FrontForm
<1>4. (\A i \in 1..(r - 1) : i \in 1..r /\ i # r) /\ \A i \in 1..r : i # r => i \in 1..(r - 1)
  OBVIOUS
<1>5. Distinct(t)
  BY <1>3, <1>4 DEF Distinct
<1>6. \A y \in Range(t) : y \in Range(s) /\ y # Last(s)
  BY <1>3, <1>4 DEF Range, Distinct
<1>7. \A y \in Range(s) : y # Last(s) => y \in Range(t)
  BY <1>3, <1>4 DEF Range
<1> QED
  BY <1>1, <1>2, <1>3, <1>5, <1>6, <1>7

\* A frame more in use.
LEMMA ThreeMore ==
    ASSUME NEW U, IsFiniteSet(U), NEW a \in Nat, \A j \in 0..2 : 3 * a + j \notin U,
           NEW W, W = U \cup {3 * a + j : j \in 0..2}
    PROVE  Cardinality(W) = Cardinality(U) + 3
<1>1. PICK x \in Nat, y \in Nat, z \in Nat : x = 3 * a /\ y = 3 * a + 1 /\ z = 3 * a + 2 /\ x # y /\ x # z /\ y # z
  OBVIOUS
<1>2. {3 * a + j : j \in 0..2} = {x, y, z}
  <2>1. 0..2 = {0, 1, 2} /\ 3 * a + 0 = x
    BY <1>1
  <2> QED
    BY <2>1, <1>1
<1>3. x \notin U /\ y \notin U /\ z \notin U
  <2>1. 0 \in 0..2 /\ 1 \in 0..2 /\ 2 \in 0..2 /\ 3 * a + 0 = x
    BY <1>1
  <2> QED
    BY <2>1, <1>1
<1>4. IsFiniteSet(U \cup {x}) /\ Cardinality(U \cup {x}) = Cardinality(U) + 1
  BY <1>3, FS_AddElement
<1>5. IsFiniteSet((U \cup {x}) \cup {y}) /\ Cardinality((U \cup {x}) \cup {y}) = Cardinality(U \cup {x}) + 1
  BY <1>1, <1>3, <1>4, FS_AddElement
<1>6. Cardinality(((U \cup {x}) \cup {y}) \cup {z}) = Cardinality((U \cup {x}) \cup {y}) + 1
  BY <1>1, <1>3, <1>5, FS_AddElement
<1>7. W = ((U \cup {x}) \cup {y}) \cup {z}
  BY <1>2
<1>8. PICK n \in Nat : n = Cardinality(U)
  BY FS_CardinalityType
<1>9. Cardinality(W) = ((n + 1) + 1) + 1
  BY <1>4, <1>5, <1>6, <1>7, <1>8, Zenon
<1> QED
  BY <1>8, <1>9

-----------------------------------------------------------------------------
(* Frames that are filled and cleared.                                     *)

\* load_PAGE on a page: the frame a, which was free, holds page k of process
\* p, and nothing else is different.
Fills(fr, procs, fr1, procs1, p, k, t, a) ==
    /\ \A j \in 0..2 : fr[3 * a + j].owner = 0
    /\ \A i \in FrameSlots : (\A j \in 0..2 : i # 3 * a + j) => fr1[i] = fr[i]
    /\ InFrame(fr1, procs1, <<p, k>>, t, a)
    /\ Differs(procs, procs1, p, k)
    /\ ~procs[p].page_table[k].valid_bit[0] /\ procs1[p].page_table[k].valid_bit[0]

\* What that means for the set of the pages in frames.
OneIn(procs, procs1, p, k) ==
    /\ procs1[p].page_table[k].valid_bit[0] => PagesIn(procs1) = PagesIn(procs) \cup {<<p, k>>}
    /\ ~procs1[p].page_table[k].valid_bit[0] => PagesIn(procs1) = PagesIn(procs) \ {<<p, k>>}
    /\ \A pg \in PagesIn(procs) : pg # <<p, k>> =>
         procs1[pg[1]].page_table[pg[2]] = procs[pg[1]].page_table[pg[2]]

\* The pages in frames when one page is different.
LEMMA PagesInDiffers ==
    ASSUME NEW procs, NEW procs1, NEW p \in DOMAIN procs, NEW k \in DOMAIN procs[p].page_table,
           Differs(procs, procs1, p, k)
    PROVE  OneIn(procs, procs1, p, k)
<1>1. DOMAIN procs1 = DOMAIN procs
  BY DEF Differs
<1>2. \A q \in DOMAIN procs : DOMAIN procs1[q].page_table = DOMAIN procs[q].page_table
  BY DEF Differs, OnePage
<1>3. \A q \in DOMAIN procs : \A j \in DOMAIN procs[q].page_table :
         q # p \/ j # k => procs1[q].page_table[j] = procs[q].page_table[j]
  BY DEF Differs, OnePage
<1>4. \A pr : \A pg : pg \in PagesIn(pr) <=>
        \E q \in DOMAIN pr : \E j \in DOMAIN pr[q].page_table : pg = <<q, j>> /\ pr[q].page_table[j].valid_bit[0]
  BY DEF PagesIn
<1>5. \A pg : pg # <<p, k>> => (pg \in PagesIn(procs1) <=> pg \in PagesIn(procs))
  BY <1>1, <1>2, <1>3, <1>4
<1>6. <<p, k>> \in PagesIn(procs1) <=> procs1[p].page_table[k].valid_bit[0]
  BY <1>1, <1>2, <1>4
<1>7. \A pg \in PagesIn(procs) : pg # <<p, k>> =>
                procs1[pg[1]].page_table[pg[2]] = procs[pg[1]].page_table[pg[2]]
  BY <1>3, <1>4
<1>8. procs1[p].page_table[k].valid_bit[0] => PagesIn(procs1) = PagesIn(procs) \cup {<<p, k>>}
  BY <1>5, <1>6
<1>9. ~procs1[p].page_table[k].valid_bit[0] => PagesIn(procs1) = PagesIn(procs) \ {<<p, k>>}
  BY <1>5, <1>6
<1> QED
  BY <1>7, <1>8, <1>9, Zenon DEF OneIn

\* A page of which neither the entry nor the frame is different.
LEMMA FrameKept ==
    ASSUME NEW fr, NEW fr1, NEW procs, NEW procs1, NEW pg, NEW t, NEW b, InFrame(fr, procs, pg, t, b),
           procs1[pg[1]].page_table[pg[2]] = procs[pg[1]].page_table[pg[2]],
           \A j \in 0..2 : fr1[3 * b + j] = fr[3 * b + j]
    PROVE  InFrame(fr1, procs1, pg, t, b)
  BY DEF InFrame

\* Stored is kept when a page is loaded into a free frame.
LEMMA StoredFilled ==
    ASSUME NEW fr, NEW procs, NEW list, NEW txt, Stored(fr, procs, list, txt), 0 \notin DOMAIN procs,
           NEW p \in DOMAIN procs, NEW k \in DOMAIN procs[p].page_table, NEW a \in Nat,
           NEW fr1, NEW procs1, Fills(fr, procs, fr1, procs1, p, k, txt[p], a),
           NEW S, list \in Seq(S), <<p, k>> \in S
    PROVE  Stored(fr1, procs1, <<<<p, k>>>> \o list, txt)
<1> DEFINE x == <<p, k>>
           new == <<x>> \o list
<1>1. /\ PagesIn(procs1) = PagesIn(procs) \cup {x} /\ x \notin PagesIn(procs)
      /\ \A pg \in PagesIn(procs) : procs1[pg[1]].page_table[pg[2]] = procs[pg[1]].page_table[pg[2]]
  <2>1. Differs(procs, procs1, p, k) /\ procs1[p].page_table[k].valid_bit[0] /\ ~procs[p].page_table[k].valid_bit[0]
    BY DEF Fills
  <2>2. x \notin PagesIn(procs)
    BY <2>1 DEF PagesIn
  <2>4. /\ procs1[p].page_table[k].valid_bit[0] => PagesIn(procs1) = PagesIn(procs) \cup {<<p, k>>}
        /\ ~procs1[p].page_table[k].valid_bit[0] => PagesIn(procs1) = PagesIn(procs) \ {<<p, k>>}
        /\ \A pg \in PagesIn(procs) : pg # <<p, k>> =>
             procs1[pg[1]].page_table[pg[2]] = procs[pg[1]].page_table[pg[2]]
    <3>1. OneIn(procs, procs1, p, k)
      BY <2>1, PagesInDiffers
    <3> QED
      BY <3>1, Zenon DEF OneIn
  <2>3. /\ PagesIn(procs1) = PagesIn(procs) \cup {x}
        /\ \A pg \in PagesIn(procs) : pg # x =>
             procs1[pg[1]].page_table[pg[2]] = procs[pg[1]].page_table[pg[2]]
    BY <2>1, <2>4, Zenon
  <2> HIDE DEF x
  <2> QED
    BY <2>2, <2>3
<1>2. Range(list) = PagesIn(procs) /\ Distinct(list)
  BY DEF Stored, Distinct
<1>3. Distinct(new) /\ Len(new) = Len(list) + 1 /\ Range(new) = Range(list) \cup {x}
  BY <1>1, <1>2, HeadDistinct
<1>4. InFrame(fr1, procs1, x, txt[p], a)
  BY DEF Fills
<1>5. /\ 3 * a + 2 < FRAME_STORE_SIZE /\ Base(procs1, x) = 3 * a
      /\ \A j \in 0..2 : 3 * a + j \in FrameSlots /\ fr1[3 * a + j].owner = p
  BY <1>4, FrameOfPage
<1>6. p # 0
  OBVIOUS
<1>7. ASSUME NEW pg \in Range(list)
      PROVE  /\ Base(procs1, pg) = Base(procs, pg) /\ Base(procs, pg) # 3 * a
             /\ \E b \in FrameSlots : InFrame(fr1, procs1, pg, txt[pg[1]], b)
  <2>1. PICK b \in FrameSlots : InFrame(fr, procs, pg, txt[pg[1]], b)
    BY DEF Stored
  <2>2. b \in Nat
    BY SlotsAreNats
  <2>3. Base(procs, pg) = 3 * b /\ \A j \in 0..2 : 3 * b + j \in FrameSlots /\ fr[3 * b + j].owner = pg[1]
    BY <2>1, <2>2, FrameOfPage
  <2>4. pg[1] # 0
    BY <1>2 DEF PagesIn
  <2>5. \A j \in 0..2 : fr[3 * a + j].owner = 0
    BY DEF Fills
  <2>6. a # b
    BY <2>3, <2>4, <2>5
  <2>7. \A i, j \in 0..2 : 3 * b + i # 3 * a + j
    BY <2>6, <2>2
  <2>8. \A i \in 0..2 : fr1[3 * b + i] = fr[3 * b + i]
    BY <2>3, <2>7 DEF Fills
  <2>9. procs1[pg[1]].page_table[pg[2]] = procs[pg[1]].page_table[pg[2]]
    BY <1>1, <1>2
  <2>10. InFrame(fr1, procs1, pg, txt[pg[1]], b)
    BY <2>1, <2>8, <2>9, FrameKept
  <2>11. Base(procs1, pg) = Base(procs, pg)
    BY <2>9 DEF Base
  <2>12. 3 * b # 3 * a
    BY <2>2, <2>6
  <2> QED
    BY <2>3, <2>10, <2>11, <2>12
<1>8. a \in FrameSlots
  BY <1>5, StoreAssumption DEF FrameSlots, FRAME_VAR_BORDER
<1>9. \A pg \in Range(new) : \E b \in FrameSlots : InFrame(fr1, procs1, pg, txt[pg[1]], b)
  <2>1. x[1] = p
    OBVIOUS
  <2> QED
    BY <2>1, <1>3, <1>4, <1>7, <1>8
<1>10. \A pg, qg \in Range(new) : Base(procs1, pg) = Base(procs1, qg) => pg = qg
  <2>1. \A pg, qg \in Range(list) : Base(procs, pg) = Base(procs, qg) => pg = qg
    BY DEF Stored
  <2> QED
    BY <2>1, <1>3, <1>5, <1>7
<1>11. Used(fr1) = Used(fr) \cup {3 * a + j : j \in 0..2}
  <2>1. ASSUME NEW i \in FrameSlots
        PROVE  i \in Used(fr1) <=> i \in Used(fr) \/ \E j \in 0..2 : i = 3 * a + j
    <3>1. CASE \E j \in 0..2 : i = 3 * a + j
      BY <3>1, <1>5, <1>6 DEF Used
    <3>2. CASE \A j \in 0..2 : i # 3 * a + j
      BY <3>2 DEF Used, Fills
    <3> QED
      BY <3>1, <3>2
  <2>2. Used(fr1) \subseteq FrameSlots /\ Used(fr) \subseteq FrameSlots /\ {3 * a + j : j \in 0..2} \subseteq FrameSlots
    BY <1>5 DEF Used
  <2> QED
    BY <2>1, <2>2
<1>12. \A i \in Used(fr1) : \E pg \in Range(new) : \E j \in 0..2 : i = Base(procs1, pg) + j
  <2>1. \A i \in Used(fr) : \E pg \in Range(list) : \E j \in 0..2 : i = Base(procs, pg) + j
    BY DEF Stored
  <2> SUFFICES ASSUME NEW i \in Used(fr1)
               PROVE  \E pg \in Range(new) : \E j \in 0..2 : i = Base(procs1, pg) + j
    OBVIOUS
  <2>2. CASE i \in Used(fr)
    <3>1. PICK pg \in Range(list), j \in 0..2 : i = Base(procs, pg) + j
      BY <2>1, <2>2
    <3>2. pg \in Range(new) /\ i = Base(procs1, pg) + j
      BY <3>1, <1>3, <1>7, Zenon
    <3> QED
      BY <3>2, Zenon
  <2>3. CASE \E j \in 0..2 : i = 3 * a + j
    <3>1. x \in Range(new)
      BY <1>3
    <3> QED
      BY <2>3, <3>1, <1>5, Zenon
  <2> QED
    BY <2>2, <2>3, <1>11
<1>13. 3 * Len(new) = Cardinality(Used(fr1))
  <2>1. IsFiniteSet(Used(fr))
    BY SlotsAreNats, FS_Subset DEF Used
  <2>2. \A j \in 0..2 : 3 * a + j \notin Used(fr)
    BY DEF Used, Fills
  <2>3. Cardinality(Used(fr1)) = Cardinality(Used(fr)) + 3
    BY <2>1, <2>2, <1>11, ThreeMore
  <2>4. 3 * Len(list) = Cardinality(Used(fr))
    BY DEF Stored
  <2>5. PICK r \in Nat : r = Len(list)
    BY LenProperties
  <2>6. Cardinality(Used(fr1)) = 3 * r + 3 /\ 3 * Len(new) = 3 * (r + 1)
    BY <2>3, <2>4, <2>5, <1>3
  <2> QED
    BY <2>6
<1> HIDE DEF new, x
<1>14. Range(new) = PagesIn(procs1)
  BY <1>1, <1>2, <1>3
<1>15. \A m, n \in DOMAIN new : new[m] = new[n] => m = n
  BY <1>3 DEF Distinct
<1>16. Stored(fr1, procs1, new, txt)
  BY <1>9, <1>10, <1>12, <1>13, <1>14, <1>15 DEF Stored
<1> QED
  BY <1>16 DEF new, x

\* PAGE_evict on a page: the frame a, which held page k of process p, is free,
\* and nothing else is different.
Clears(fr, procs, fr1, procs1, p, k, t, a) ==
    /\ InFrame(fr, procs, <<p, k>>, t, a)
    /\ \A j \in 0..2 : fr1[3 * a + j].owner = 0
    /\ \A i \in FrameSlots : (\A j \in 0..2 : i # 3 * a + j) => fr1[i] = fr[i]
    /\ Differs(procs, procs1, p, k)
    /\ procs1[p].page_table[k] = Evicted

\* Stored is kept when the least recently used page is evicted.
LEMMA StoredCleared ==
    ASSUME NEW fr, NEW procs, NEW list, NEW txt, Stored(fr, procs, list, txt), 0 \notin DOMAIN procs,
           NEW p \in DOMAIN procs, NEW k \in DOMAIN procs[p].page_table, NEW a \in Nat,
           NEW fr1, NEW procs1, Clears(fr, procs, fr1, procs1, p, k, txt[p], a),
           NEW S, list \in Seq(S), list # <<>>, Last(list) = <<p, k>>
    PROVE  Stored(fr1, procs1, Front(list), txt)
<1> DEFINE x == <<p, k>>
           new == Front(list)
<1>2. Range(list) = PagesIn(procs) /\ Distinct(list)
  BY DEF Stored, Distinct
<1>3. /\ Distinct(new) /\ Len(new) = Len(list) - 1 /\ Range(new) = Range(list) \ {x}
      /\ x \in Range(list)
  BY <1>2, FrontDistinct, DropLast
<1>1. /\ PagesIn(procs1) = PagesIn(procs) \ {x}
      /\ \A pg \in PagesIn(procs) : pg # x =>
           procs1[pg[1]].page_table[pg[2]] = procs[pg[1]].page_table[pg[2]]
  <2>1. Differs(procs, procs1, p, k) /\ ~procs1[p].page_table[k].valid_bit[0]
    BY DEF Clears, Evicted
  <2>2. /\ procs1[p].page_table[k].valid_bit[0] => PagesIn(procs1) = PagesIn(procs) \cup {<<p, k>>}
        /\ ~procs1[p].page_table[k].valid_bit[0] => PagesIn(procs1) = PagesIn(procs) \ {<<p, k>>}
        /\ \A pg \in PagesIn(procs) : pg # <<p, k>> =>
             procs1[pg[1]].page_table[pg[2]] = procs[pg[1]].page_table[pg[2]]
    <3>1. OneIn(procs, procs1, p, k)
      BY <2>1, PagesInDiffers
    <3> QED
      BY <3>1, Zenon DEF OneIn
  <2> QED
    BY <2>1, <2>2, Zenon
<1>5. /\ 3 * a + 2 < FRAME_STORE_SIZE /\ Base(procs, x) = 3 * a
      /\ \A j \in 0..2 : 3 * a + j \in FrameSlots /\ fr[3 * a + j].owner = p
  <2>1. InFrame(fr, procs, x, txt[p], a)
    BY DEF Clears
  <2> QED
    BY <2>1, FrameOfPage
<1>6. p # 0
  OBVIOUS
<1>7. ASSUME NEW pg \in Range(new)
      PROVE  /\ Base(procs1, pg) = Base(procs, pg) /\ Base(procs, pg) # 3 * a
             /\ \A j \in 0..2 : \A i \in 0..2 : Base(procs, pg) + j # 3 * a + i
             /\ \E b \in FrameSlots : InFrame(fr1, procs1, pg, txt[pg[1]], b)
  <2>0. pg \in Range(list) /\ pg # x
    BY <1>3
  <2>1. PICK b \in FrameSlots : InFrame(fr, procs, pg, txt[pg[1]], b)
    BY <2>0 DEF Stored
  <2>2. b \in Nat
    BY SlotsAreNats
  <2>3. Base(procs, pg) = 3 * b /\ \A j \in 0..2 : 3 * b + j \in FrameSlots
    BY <2>1, <2>2, FrameOfPage
  <2>6. Base(procs, pg) # 3 * a
    <3>1. \A qg, rg \in Range(list) : Base(procs, qg) = Base(procs, rg) => qg = rg
      BY DEF Stored
    <3> QED
      BY <3>1, <2>0, <1>3, <1>5
  <2>7. \A i, j \in 0..2 : 3 * b + i # 3 * a + j
    BY <2>3, <2>6, <2>2
  <2>8. \A i \in 0..2 : fr1[3 * b + i] = fr[3 * b + i]
    BY <2>3, <2>7 DEF Clears
  <2>9. procs1[pg[1]].page_table[pg[2]] = procs[pg[1]].page_table[pg[2]]
    BY <1>1, <1>2, <2>0
  <2>10. InFrame(fr1, procs1, pg, txt[pg[1]], b)
    <3>1. PICK t : t = txt[pg[1]]
      OBVIOUS
    <3>2. InFrame(fr, procs, pg, t, b)
      BY <2>1, <3>1, Zenon
    <3>3. InFrame(fr1, procs1, pg, t, b)
      BY <3>2, <2>8, <2>9, FrameKept
    <3> QED
      BY <3>1, <3>3, Zenon
  <2>11. Base(procs1, pg) = Base(procs, pg)
    BY <2>9 DEF Base
  <2> QED
    BY <2>3, <2>6, <2>7, <2>10, <2>11
<1>10. \A pg, qg \in Range(new) : Base(procs1, pg) = Base(procs1, qg) => pg = qg
  <2>1. \A pg, qg \in Range(list) : Base(procs, pg) = Base(procs, qg) => pg = qg
    BY DEF Stored
  <2> QED
    BY <2>1, <1>3, <1>7
<1>11. Used(fr) = Used(fr1) \cup {3 * a + j : j \in 0..2} /\ \A j \in 0..2 : 3 * a + j \notin Used(fr1)
  <2>1. ASSUME NEW i \in FrameSlots
        PROVE  i \in Used(fr) <=> i \in Used(fr1) \/ \E j \in 0..2 : i = 3 * a + j
    <3>1. CASE \E j \in 0..2 : i = 3 * a + j
      BY <3>1, <1>5, <1>6 DEF Used
    <3>2. CASE \A j \in 0..2 : i # 3 * a + j
      BY <3>2 DEF Used, Clears
    <3> QED
      BY <3>1, <3>2
  <2>2. Used(fr1) \subseteq FrameSlots /\ Used(fr) \subseteq FrameSlots /\ {3 * a + j : j \in 0..2} \subseteq FrameSlots
    BY <1>5 DEF Used
  <2>3. \A j \in 0..2 : 3 * a + j \notin Used(fr1)
    BY DEF Used, Clears
  <2> QED
    BY <2>1, <2>2, <2>3
<1>12. \A i \in Used(fr1) : \E pg \in Range(new) : \E j \in 0..2 : i = Base(procs1, pg) + j
  <2>1. \A i \in Used(fr) : \E pg \in Range(list) : \E j \in 0..2 : i = Base(procs, pg) + j
    BY DEF Stored
  <2>2. \A pg \in Range(list) : pg = x \/ pg \in Range(new)
    BY <1>3
  <2>3. SUFFICES ASSUME NEW i \in Used(fr1)
                 PROVE  \E pg \in Range(new) : \E j \in 0..2 : i = Base(procs1, pg) + j
    OBVIOUS
  <2>4. PICK pg \in Range(list), j \in 0..2 : i = Base(procs, pg) + j
    BY <2>1, <1>11
  <2>5. pg # x
    <3>1. i # 3 * a + j
      BY <1>11
    <3> QED
      BY <3>1, <2>4, <1>5
  <2>6. pg \in Range(new) /\ i = Base(procs1, pg) + j
    BY <2>2, <2>4, <2>5, <1>7
  <2> QED
    BY <2>6, Zenon
<1>13. 3 * Len(new) = Cardinality(Used(fr1))
  <2>1. IsFiniteSet(Used(fr1))
    BY SlotsAreNats, FS_Subset DEF Used
  <2>3. Cardinality(Used(fr)) = Cardinality(Used(fr1)) + 3
    BY <2>1, <1>11, ThreeMore
  <2>4. 3 * Len(list) = Cardinality(Used(fr))
    BY DEF Stored
  <2>5. PICK r \in Nat : r = Len(list)
    BY LenProperties
  <2>7. PICK u \in Nat : u = Cardinality(Used(fr1))
    BY <2>1, FS_CardinalityType
  <2>6. u + 3 = 3 * r /\ 3 * Len(new) = 3 * (r - 1)
    BY <2>3, <2>4, <2>5, <2>7, <1>3
  <2>8. 3 * (r - 1) = u
    BY <2>6
  <2> QED
    BY <2>6, <2>7, <2>8, Zenon
<1> HIDE DEF new, x
<1>9. \A pg \in Range(new) : \E b \in FrameSlots : InFrame(fr1, procs1, pg, txt[pg[1]], b)
  BY <1>7
<1>14. Range(new) = PagesIn(procs1)
  BY <1>1, <1>2, <1>3
<1>15. \A m, n \in DOMAIN new : new[m] = new[n] => m = n
  BY <1>3 DEF Distinct
<1>16. Stored(fr1, procs1, new, txt)
  BY <1>9, <1>10, <1>12, <1>13, <1>14, <1>15 DEF Stored
<1> QED
  BY <1>16 DEF new

-----------------------------------------------------------------------------
(* Reading a script on, three lines at a time.                             *)

\* The lines on a page.
LEMMA LinesOnPage ==
    ASSUME NEW n \in Nat, NEW t, Len(t) = n, NEW l \in Nat, 3 * l < n
    PROVE  /\ LinesOn(t, l) \in 1..3 /\ 3 * l + LinesOn(t, l) <= n
           /\ (LinesOn(t, l) = 3 \/ 3 * l + LinesOn(t, l) = n)
           /\ LinesOn(t, l) = (IF n - 3 * l < 3 THEN n - 3 * l ELSE 3)
<1>1. LinesOn(t, l) = (IF n - 3 * l < 3 THEN n - 3 * l ELSE 3)
  BY DEF LinesOn
<1> QED
  BY <1>1

\* The end of a sequence, element by element.
LEMMA EndOf ==
    ASSUME NEW S, NEW t \in Seq(S), NEW n \in Nat, n = Len(t), NEW m \in Nat, NEW u, u = SubSeq(t, m + 1, n)
    PROVE  /\ u \in Seq(S) /\ Len(u) = (IF m < n THEN n - m ELSE 0)
           /\ \A i \in 1..(n - m) : u[i] = t[m + i]
<1>1. DOMAIN t = 1..n /\ t \in [1..n -> S]
  BY LenProperties
<1>2. \A i \in (m + 1)..n : t[i] \in S
  BY <1>1
<1>3. PICK b \in Int : b = m + 1
  OBVIOUS
<1>4. /\ u \in Seq(S) /\ Len(u) = (IF b <= n THEN n - b + 1 ELSE 0)
      /\ \A i \in 1..(n - b + 1) : u[i] = t[b + i - 1]
  <2>1. \A i \in b..n : t[i] \in S
    BY <1>2, <1>3
  <2> QED
    BY <2>1, <1>3, SubSeqProperties
<1>5. n - b + 1 = n - m /\ (b <= n <=> m < n) /\ \A i \in 1..(n - m) : b + i - 1 = m + i
  BY <1>3
<1> QED
  BY <1>4, <1>5

\* How far the file has been read after a page.
LEMMA ReadOn ==
    ASSUME NEW n \in Nat, NEW k \in Nat, NEW m \in Nat, NEW r \in Nat, NEW q \in Nat,
           k < n, r = n - k, m = (IF r < 3 THEN r ELSE 3), q = k + 3
    PROVE  /\ (IF m < r THEN r - m ELSE 0) = (IF q < n THEN n - q ELSE 0)
           /\ \A i \in 1..(IF m < r THEN r - m ELSE 0) : /\ i \in 1..(r - m) /\ i \in 1..(n - q)
                                                        /\ m + i \in 1..(n - k) /\ k + (m + i) = q + i
<1>1. CASE r < 3
  BY <1>1
<1>2. CASE ~(r < 3)
  BY <1>2
<1> QED
  BY <1>1, <1>2

\* The file of a text t of n lines, read up to page l, and the next lines.
Reads(t, n, l, file, ls) ==
    /\ n = Len(t) /\ file = SubSeq(t, 3 * l + 1, n)
    /\ ls = SubSeq(file, 1, IF Len(file) < 3 THEN Len(file) ELSE 3)

\* load_PAGE reads the lines of the page, where the file was left.
LEMMA FileRead ==
    ASSUME NEW S, NEW t \in Seq(S), NEW n \in Nat, NEW l \in Nat, 3 * l < n,
           NEW file, NEW ls, Reads(t, n, l, file, ls)
    PROVE  /\ file \in Seq(S) /\ ls \in Seq(S) /\ Len(ls) = LinesOn(t, l)
           /\ \A j \in 0..2 : j < LinesOn(t, l) => ls[j + 1] = t[3 * l + j + 1]
           /\ SubSeq(file, Len(ls) + 1, Len(file)) = SubSeq(t, 3 * (l + 1) + 1, n)
<1>1. PICK m \in 1..3 : /\ m = LinesOn(t, l) /\ 3 * l + m <= n /\ (m = 3 \/ 3 * l + m = n)
                        /\ m = (IF n - 3 * l < 3 THEN n - 3 * l ELSE 3)
  BY LinesOnPage DEF Reads
<1>2. PICK k \in Nat : k = 3 * l /\ k < n
  OBVIOUS
<1>3. file \in Seq(S) /\ Len(file) = n - k /\ \A i \in 1..(n - k) : file[i] = t[k + i]
  <2>1. file = SubSeq(t, k + 1, n) /\ n = Len(t)
    BY <1>2 DEF Reads
  <2>2. (IF k < n THEN n - k ELSE 0) = n - k
    BY <1>2
  <2>3. file \in Seq(S) /\ Len(file) = (IF k < n THEN n - k ELSE 0) /\ \A i \in 1..(n - k) : file[i] = t[k + i]
    BY <2>1, EndOf
  <2> QED
    BY <2>2, <2>3, Zenon
<1>4. PICK r \in Nat : r = n - k /\ m <= r /\ m = (IF r < 3 THEN r ELSE 3)
  BY <1>1, <1>2
<1>9. r = Len(file)
  BY <1>3, <1>4
<1>5. ls = SubSeq(file, 1, m)
  BY <1>4, <1>9 DEF Reads
<1>6. ls \in Seq(S) /\ Len(ls) = m /\ \A i \in 1..m : ls[i] = file[i]
  <2>1. DOMAIN file = 1..r /\ file \in [1..r -> S]
    BY <1>3, <1>9, LenProperties
  <2>2. \A i \in 1..m : file[i] \in S
    BY <2>1, <1>4
  <2>3. /\ ls \in Seq(S) /\ Len(ls) = (IF 1 <= m THEN m - 1 + 1 ELSE 0)
        /\ \A i \in 1..(m - 1 + 1) : ls[i] = file[1 + i - 1]
    BY <2>2, <1>5, SubSeqProperties
  <2>4. (IF 1 <= m THEN m - 1 + 1 ELSE 0) = m /\ m - 1 + 1 = m /\ \A i \in 1..m : 1 + i - 1 = i
    OBVIOUS
  <2> QED
    BY <2>3, <2>4
<1>7. \A j \in 0..2 : j < m => ls[j + 1] = t[3 * l + j + 1]
  <2>1. \A j \in 0..2 : j < m => j + 1 \in 1..m /\ j + 1 \in 1..(n - k) /\ k + (j + 1) = 3 * l + j + 1
    BY <1>1, <1>2, <1>4
  <2>2. ASSUME NEW j \in 0..2, j < m PROVE ls[j + 1] = t[3 * l + j + 1]
    <3>1. j + 1 \in 1..m /\ j + 1 \in 1..(n - k) /\ k + (j + 1) = 3 * l + j + 1
      BY <2>1, <2>2
    <3>2. ls[j + 1] = file[j + 1] /\ file[j + 1] = t[k + (j + 1)]
      BY <3>1, <1>3, <1>6
    <3> QED
      BY <3>1, <3>2
  <2> QED
    BY <2>2
<1>8. SubSeq(file, Len(ls) + 1, Len(file)) = SubSeq(t, 3 * (l + 1) + 1, n)
  <2>0. PICK q \in Nat : q = 3 * (l + 1)
    OBVIOUS
  <2>1. PICK a, b : a = SubSeq(file, m + 1, r) /\ b = SubSeq(t, q + 1, n)
    OBVIOUS
  <2>2. /\ a \in Seq(S) /\ Len(a) = (IF m < r THEN r - m ELSE 0)
        /\ \A i \in 1..(r - m) : a[i] = file[m + i]
    BY <2>1, <1>3, <1>9, EndOf
  <2>3. /\ b \in Seq(S) /\ Len(b) = (IF q < n THEN n - q ELSE 0)
        /\ \A i \in 1..(n - q) : b[i] = t[q + i]
    BY <2>1, EndOf DEF Reads
  <2>4. q = k + 3
    BY <2>0, <1>2
  <2>5. (IF m < r THEN r - m ELSE 0) = (IF q < n THEN n - q ELSE 0)
    BY <2>4, <1>2, <1>4, ReadOn
  <2>6. \A i \in 1..(IF m < r THEN r - m ELSE 0) : /\ i \in 1..(r - m) /\ i \in 1..(n - q)
                                                   /\ m + i \in 1..(n - k) /\ k + (m + i) = q + i
    BY <2>4, <1>2, <1>4, ReadOn
  <2>7. a = b
    <3>1. \A i \in 1..Len(a) : a[i] = b[i]
      <4>1. ASSUME NEW i \in 1..(IF m < r THEN r - m ELSE 0) PROVE a[i] = b[i]
        <5>1. a[i] = file[m + i] /\ b[i] = t[q + i]
          BY <2>2, <2>3, <2>6
        <5>2. file[m + i] = t[k + (m + i)]
          BY <2>6, <1>3
        <5> QED
          BY <5>1, <5>2, <2>6
      <4> QED
        BY <4>1, <2>2
    <3>2. Len(a) = Len(b)
      BY <2>2, <2>3, <2>5
    <3> QED
      BY <3>1, <3>2, <2>2, <2>3, SeqEqual
  <2> QED
    BY <2>0, <2>1, <2>7, <1>6, <1>9
<1> QED
  BY <1>1, <1>3, <1>6, <1>7, <1>8

-----------------------------------------------------------------------------
(* load_PAGE and PAGE_evict on plain scripts.                              *)

\* The valid bits of a page that load_PAGE has filled.
LEMMA ValidBits ==
    ASSUME NEW b, NEW n \in Nat, NEW j \in 0..2
    PROVE  PageAt(b, n).valid_bit[j] <=> j < n
<1>1. PageAt(b, n).valid_bit = [i \in 0..2 |-> i < n]
  BY DEF PageAt
<1> QED
  BY <1>1

\* There is a page for every line and a line on every page.
LEMMA PagesOfLines ==
    ASSUME NEW n \in Nat, NEW l \in Nat
    PROVE  l < PAGE_table_size(n) <=> 3 * l < n
<1>1. PICK q \in Int, r \in 0..2 : n + 2 = 3 * q + r /\ q = (n + 2) \div 3
  OBVIOUS
<1>2. PAGE_table_size(n) = q
  BY <1>1 DEF PAGE_table_size
<1> QED
  BY <1>1, <1>2

\* The fields that ReadTo speaks of, when one page and the file are different.
LEMMA ReadToPage ==
    ASSUME NEW c, NEW d, NEW k \in Nat, OnePage(c, d, k), NEW t, NEW e, NEW l \in Nat, NEW l1 \in Nat,
           ReadTo(c, t, e, l), l1 = l \/ (l1 = l + 1 /\ k = l),
           d.source_file = SubSeq(t, 3 * l1 + 1, Len(t)), DOMAIN c.page_table \subseteq Nat,
           \/ d.page_table[k].valid_bit[0] /\ k < l1
           \/ d.page_table[k] = Evicted /\ (3 * k + 3 <= e \/ e = Len(t)) /\ k < l1
    PROVE  ReadTo(d, t, e, l1)
<1>1. d.size + e = Len(t)
  BY DEF ReadTo, OnePage
<1>2. HasRun(d, e)
  BY DEF ReadTo, OnePage, HasRun
<1>3. ASSUME NEW i \in DOMAIN d.page_table
      PROVE  IF i >= l1 THEN d.page_table[i] = PAGE_init
             ELSE \/ d.page_table[i].valid_bit[0]
                  \/ d.page_table[i] = Evicted /\ (3 * i + 3 <= e \/ e = Len(t))
  <2>1. i \in DOMAIN c.page_table /\ i \in Nat
    BY DEF OnePage
  <2>2. CASE i = k
    BY <2>1, <2>2
  <2>3. CASE i # k
    <3>1. d.page_table[i] = c.page_table[i]
      BY <2>1, <2>3 DEF OnePage
    <3>2. i >= l1 <=> i >= l
      BY <2>1, <2>3
    <3>3. IF i >= l THEN c.page_table[i] = PAGE_init
          ELSE \/ c.page_table[i].valid_bit[0]
               \/ c.page_table[i] = Evicted /\ (3 * i + 3 <= e \/ e = Len(t))
      BY <2>1, Zenon DEF ReadTo
    <3> QED
      BY <3>1, <3>2, <3>3, Zenon
  <2> QED
    BY <2>2, <2>3
<1> QED
  BY <1>1, <1>2, <1>3, Zenon DEF ReadTo

\* load_PAGE fills a whole free frame with the next lines of the file.
LEMMA LoadFills ==
    ASSUME NEW P, NEW Q, NEW s \in States(P, Q), NEW p \in P, p \in Q, 0 \notin P,
           NEW list, NEW txt, txt[p] \in Seq(Lines), Stored(s.fr, s.pcb, list, txt), Spaces(s.fr) # {},
           NEW e \in Nat, NEW l \in Nat, l < s.pcb[p].page_table_size, ReadTo(s.pcb[p], txt[p], e, l),
           NEW st, st = load_PAGE(s, p, l)
    PROVE  /\ \E a \in Nat : Fills(s.fr, s.pcb, st.fr, st.pcb, p, l, txt[p], a)
           /\ ReadTo(st.pcb[p], txt[p], e, l + 1)
<1> DEFINE c == s.pcb[p]
           file == c.source_file
           ls == SubSeq(file, 1, IF Len(file) < 3 THEN Len(file) ELSE 3)
           d == WithPage(c, l, Lowest(Spaces(s.fr)), Len(ls))
           t == txt[p]
<1>1. s.pcb \in [P -> PCBs] /\ IsPCB(c) /\ 0 \notin DOMAIN s.pcb
  BY PCBsArePCBs DEF States
<1>2. PICK n \in Nat : n = Len(t)
  BY LenProperties
<1>3. l \in DOMAIN c.page_table /\ DOMAIN c.page_table = 0..(c.page_table_size - 1) /\ c.page_table_size \in Nat
  <2>1. c.page_table_size \in Nat /\ DOMAIN c.page_table = 0..(c.page_table_size - 1)
    BY <1>1, PCBFields
  <2> QED
    BY <2>1
<1>4. 3 * l < n
  <2>1. c.size + e = n /\ PAGE_table_size(c.size + e) = c.page_table_size
    BY <1>2 DEF ReadTo, HasRun
  <2>2. l < PAGE_table_size(n)
    BY <2>1
  <2> QED
    BY <2>2, PagesOfLines
<1>5. Reads(t, n, l, file, ls)
  BY <1>2 DEF Reads, ReadTo
<1>6. /\ file \in Seq(Lines) /\ ls \in Seq(Lines) /\ Len(ls) = LinesOn(t, l)
      /\ \A j \in 0..2 : j < LinesOn(t, l) => ls[j + 1] = t[3 * l + j + 1]
      /\ SubSeq(file, Len(ls) + 1, Len(file)) = SubSeq(t, 3 * (l + 1) + 1, n)
  <2> HIDE DEF ls, file, t
  <2>1. t \in Seq(Lines)
    BY DEF t
  <2> QED
    BY <2>1, <1>4, <1>5, FileRead
<1>7. PICK m \in Nat : m \in 1..3 /\ m = LinesOn(t, l) /\ 3 * l + m <= n
  <2>1. LinesOn(t, l) \in 1..3 /\ 3 * l + LinesOn(t, l) <= n
    BY <1>2, <1>4, LinesOnPage
  <2> QED
    BY <2>1
<1>8. PICK a \in Nat : /\ Lowest(Spaces(s.fr)) = 3 * a /\ 3 * a + 2 < FRAME_STORE_SIZE
                       /\ \A j \in 0..2 : 3 * a + j \in FrameSlots /\ s.fr[3 * a + j].owner = 0
  BY <1>1, WholeFrame
<1>9. st = [s EXCEPT !.fr = FrameWith(s.fr, p, 3 * a, ls), !.pcb = [s.pcb EXCEPT ![p] = d]]
  <2>1. st = [s EXCEPT !.fr = FrameWith(@, p, Lowest(Spaces(s.fr)), ls), !.pcb[p] = d]
    BY DEF load_PAGE
  <2> HIDE DEF d, ls
  <2> QED
    BY <2>1, <1>1, <1>8 DEF States
<1> HIDE DEF ls, file, t
<1>10. st.fr = FrameWith(s.fr, p, 3 * a, ls) /\ st.pcb[p] = d
  <2> HIDE DEF d
  <2> QED
    BY <1>9, <1>1 DEF States
<1>11. /\ OnePage(c, d, l) /\ d.page_table[l] = PageAt(3 * a, m)
       /\ d.source_file = SubSeq(t, 3 * (l + 1) + 1, n)
  <2>1. PageSet(c, d, l, PageAt(3 * a, m), SubSeq(t, 3 * (l + 1) + 1, n))
    <3>1. d = [c EXCEPT !.source_file = SubSeq(file, Len(ls) + 1, Len(file)), !.page_table[l] = PageAt(3 * a, m)]
      BY <1>6, <1>7, <1>8 DEF WithPage, file
    <3> QED
      BY <3>1, <1>6 DEF PageSet
  <2>2. PageAt(3 * a, m) \in Pages
    <3>1. PICK b : b = 3 * a /\ \A j \in 0..2 : b + j \in FrameSlots
      BY <1>8
    <3>2. PageAt(b, m) \in Pages
      BY <3>1, PageAtType
    <3> QED
      BY <3>1, <3>2
  <2>3. SubSeq(t, 3 * (l + 1) + 1, n) \in Seq(Lines)
    <3>1. t \in Seq(Lines) /\ 3 * (l + 1) \in Nat
      BY DEF t
    <3> QED
      BY <3>1, <1>2, EndOf
  <2>4. IsPCB(c) /\ l \in DOMAIN c.page_table
    BY <1>1, <1>3
  <2> HIDE DEF c, d
  <2>5. PICK pg \in Pages, f \in Seq(Lines) : pg = PageAt(3 * a, m) /\ f = SubSeq(t, 3 * (l + 1) + 1, n)
    BY <2>2, <2>3, Zenon
  <2>6. PageSet(c, d, l, pg, f)
    BY <2>1, <2>5, Zenon
  <2>7. OnePage(c, d, l) /\ d.page_table[l] = pg /\ d.source_file = f
    BY <2>4, <2>6, PageChanges
  <2> QED
    BY <2>5, <2>7, Zenon
<1>12. d.page_table[l].valid_bit[0]
  <2>1. 0 \in 0..2 /\ 0 < m
    BY <1>7
  <2>2. PageAt(3 * a, m).valid_bit[0]
    BY <2>1, ValidBits
  <2> QED
    BY <2>2, <1>11, Zenon
<1>13. ReadTo(d, t, e, l + 1)
  <2>1. OnePage(c, d, l) /\ ReadTo(c, t, e, l) /\ DOMAIN c.page_table \subseteq Nat
    BY <1>3, <1>11 DEF t
  <2>2. l + 1 \in Nat /\ l < l + 1
    OBVIOUS
  <2> HIDE DEF c, d
  <2> QED
    BY <2>1, <2>2, <1>2, <1>11, <1>12, ReadToPage
<1>14. Differs(s.pcb, st.pcb, p, l)
  BY <1>3, LoadPage
<1>15. InFrame(st.fr, st.pcb, <<p, l>>, t, a)
  <2>1. ASSUME NEW j \in 0..2
        PROVE  /\ st.fr[3 * a + j].owner = p
               /\ j < m => st.fr[3 * a + j].line = t[3 * l + j + 1]
    <3>1. 3 * a + j \in FrameSlots /\ 3 * a + j \in (3 * a)..(3 * a + 2) /\ (3 * a + j) - 3 * a = j
      BY <1>8
    <3>2. st.fr[3 * a + j] = [owner |-> p, line |-> IF j < m THEN ls[j + 1] ELSE s.fr[3 * a + j].line]
      BY <3>1, <1>6, <1>7, <1>10 DEF FrameWith
    <3>3. st.fr[3 * a + j].owner = p /\ (j < m => st.fr[3 * a + j].line = ls[j + 1])
      BY <3>2
    <3>4. j < m => ls[j + 1] = t[3 * l + j + 1]
      BY <1>6, <1>7
    <3> QED
      BY <3>3, <3>4
  <2>2. st.pcb[p].page_table[l] = PageAt(3 * a, m)
    BY <1>10, <1>11
  <2>3. <<p, l>>[1] = p /\ <<p, l>>[2] = l
    OBVIOUS
  <2> QED
    BY <2>1, <2>2, <2>3, <1>7, <1>8 DEF InFrame, FRAME_VAR_BORDER
<1>16. ASSUME NEW i \in FrameSlots, \A j \in 0..2 : i # 3 * a + j
       PROVE  st.fr[i] = s.fr[i]
  <2>1. i \in Nat
    BY SlotsAreNats
  <2>2. i \notin (3 * a)..(3 * a + 2)
    BY <2>1, <1>16
  <2> QED
    BY <2>2, <1>10 DEF FrameWith
<1>17. ~c.page_table[l].valid_bit[0]
  <2>1. c.page_table[l] = PAGE_init
    BY <1>3 DEF ReadTo
  <2> QED
    BY <2>1 DEF PAGE_init
<1>18. Fills(s.fr, s.pcb, st.fr, st.pcb, p, l, t, a)
  BY <1>8, <1>10, <1>12, <1>14, <1>15, <1>16, <1>17 DEF Fills
<1> QED
  BY <1>10, <1>13, <1>18 DEF t

\* PAGE_evict takes page k of process p, which is in the frame a.
Evicting(P, Q, s, p, k, t, a, st) ==
    /\ s \in States(P, Q) /\ p \in P /\ k \in DOMAIN s.pcb[p].page_table /\ a \in Nat
    /\ InFrame(s.fr, s.pcb, <<p, k>>, t, a) /\ st = PAGE_evict(s, p, k)

\* PAGE_evict frees the frame of the page.
LEMMA EvictClears ==
    ASSUME NEW P, NEW Q, NEW s, NEW p, NEW k, NEW t, NEW a, NEW st, Evicting(P, Q, s, p, k, t, a, st)
    PROVE  /\ Clears(s.fr, s.pcb, st.fr, st.pcb, p, k, t, a)
           /\ st.pcb[p].source_file = s.pcb[p].source_file
<1> DEFINE c == s.pcb[p]
           d == [c EXCEPT !.page_table[k] = Evicted]
<1>0. /\ s \in States(P, Q) /\ p \in P /\ k \in DOMAIN c.page_table /\ a \in Nat
      /\ InFrame(s.fr, s.pcb, <<p, k>>, t, a) /\ st = PAGE_evict(s, p, k)
  BY Zenon DEF Evicting
<1>1. s.pcb \in [P -> PCBs] /\ IsPCB(c)
  BY <1>0, PCBsArePCBs DEF States
<1>2. DOMAIN c.page_table = 0..(c.page_table_size - 1) /\ c.page_table_size \in Nat
  BY <1>1, PCBFields
<1>3. Differs(s.pcb, st.pcb, p, k)
  BY <1>0, EvictPage
<1>4. st = [s EXCEPT !.fr = Emptied(s, p, k), !.pcb = [s.pcb EXCEPT ![p] = d]]
  <2>1. st = [s EXCEPT !.fr = Emptied(s, p, k), !.pcb[p].page_table[k] = Evicted]
    BY <1>0, Zenon DEF PAGE_evict, Evicted
  <2> HIDE DEF c
  <2> QED
    BY <2>1, <1>0, <1>1 DEF States, c
<1>5. st.fr = Emptied(s, p, k) /\ st.pcb[p] = d
  <2> HIDE DEF d
  <2> QED
    BY <1>4, <1>0, <1>1 DEF States
<1>6. d.page_table[k] = Evicted /\ d.source_file = c.source_file
  BY <1>0, <1>1 DEF IsPCB
<1>7. /\ \A j \in 0..2 : c.page_table[k].index[j] = 3 * a + j
      /\ \A j \in 0..2 : 3 * a + j \in FrameSlots
  <2>1. \A j \in 0..2 : s.pcb[<<p, k>>[1]].page_table[<<p, k>>[2]].index[j] = 3 * a + j
    BY <1>0, FrameOfPage
  <2>2. \A j \in 0..2 : 3 * a + j \in FrameSlots
    BY <1>0, FrameOfPage
  <2> QED
    BY <2>1, <2>2
<1> DEFINE gone == {c.page_table[k].index[j] : j \in 0..2}
<1>8. \A i : i \in gone <=> \E j \in 0..2 : i = 3 * a + j
  BY <1>7
<1>9. Emptied(s, p, k) = [i \in FrameSlots |-> IF i \in gone THEN none ELSE s.fr[i]]
  BY DEF Emptied, PageSlots
<1> HIDE DEF gone
<1>10. \A j \in 0..2 : st.fr[3 * a + j].owner = 0
  BY <1>5, <1>7, <1>8, <1>9 DEF none
<1>11. \A i \in FrameSlots : (\A j \in 0..2 : i # 3 * a + j) => st.fr[i] = s.fr[i]
  BY <1>5, <1>8, <1>9
<1>12. st.pcb[p].page_table[k] = Evicted
  BY <1>5, <1>6
<1>13. Clears(s.fr, s.pcb, st.fr, st.pcb, p, k, t, a)
  BY <1>0, <1>3, <1>10, <1>11, <1>12, Zenon DEF Clears
<1> QED
  BY <1>5, <1>6, <1>13

\* The progress of a process whose PCB is the same.
LEMMA OthersRead ==
    ASSUME NEW procs, NEW procs1, NEW p, NEW k, Differs(procs, procs1, p, k), NEW q \in DOMAIN procs, q # p,
           NEW t, NEW e, NEW l, ReadTo(procs[q], t, e, l)
    PROVE  ReadTo(procs1[q], t, e, l)
<1>1. procs1[q] = procs[q]
  BY DEF Differs
<1> QED
  BY <1>1

\* What LoadKeeps takes for granted.
LoadsOn(P, Q, s, p, list, txt, e, l, st) ==
    /\ s \in States(P, Q) /\ p \in P /\ p \in Q /\ 0 \notin P /\ list \in Seq(P \X Nat)
    /\ txt[p] \in Seq(Lines) /\ Stored(s.fr, s.pcb, list, txt) /\ Spaces(s.fr) # {}
    /\ e \in Nat /\ l \in Nat /\ l < s.pcb[p].page_table_size /\ ReadTo(s.pcb[p], txt[p], e, l)
    /\ st = load_PAGE(s, p, l)

\* What EvictKeeps takes for granted.
EvictsOn(P, Q, s, list, txt, p, k, e, l, st) ==
    /\ s \in States(P, Q) /\ 0 \notin P /\ list \in Seq(P \X Nat) /\ list # <<>>
    /\ Stored(s.fr, s.pcb, list, txt) /\ Last(list) = <<p, k>>
    /\ l \in Nat /\ ReadTo(s.pcb[p], txt[p], e, l) /\ (3 * k + 3 <= e \/ e = Len(txt[p]))
    /\ st = PAGE_evict(s, p, k)

\* What load_PAGE keeps, of the pages and of the progress of every process.
LEMMA LoadKeeps ==
    ASSUME NEW P, NEW Q, NEW s, NEW p, NEW list, NEW txt, NEW e, NEW l, NEW st,
           LoadsOn(P, Q, s, p, list, txt, e, l, st)
    PROVE  /\ st \in States(P, Q) /\ st.lru = s.lru
           /\ Stored(st.fr, st.pcb, <<<<p, l>>>> \o list, txt)
           /\ ReadTo(st.pcb[p], txt[p], e, l + 1)
           /\ Differs(s.pcb, st.pcb, p, l)
<1> SUFFICES ASSUME s \in States(P, Q), p \in P, p \in Q, 0 \notin P, list \in Seq(P \X Nat),
                    txt[p] \in Seq(Lines), Stored(s.fr, s.pcb, list, txt), Spaces(s.fr) # {},
                    e \in Nat, l \in Nat, l < s.pcb[p].page_table_size, ReadTo(s.pcb[p], txt[p], e, l),
                    st = load_PAGE(s, p, l)
             PROVE  /\ st \in States(P, Q) /\ st.lru = s.lru
                    /\ Stored(st.fr, st.pcb, <<<<p, l>>>> \o list, txt)
                    /\ ReadTo(st.pcb[p], txt[p], e, l + 1)
                    /\ Differs(s.pcb, st.pcb, p, l)
  BY DEF LoadsOn
<1>1. s.pcb \in [P -> PCBs] /\ IsPCB(s.pcb[p])
  BY PCBsArePCBs DEF States
<1>2. l \in DOMAIN s.pcb[p].page_table
  <2>1. s.pcb[p].page_table_size \in Nat /\ DOMAIN s.pcb[p].page_table = 0..(s.pcb[p].page_table_size - 1)
    BY <1>1, PCBFields
  <2> QED
    BY <2>1
<1>3. st \in States(P, Q) /\ st.lru = s.lru /\ Differs(s.pcb, st.pcb, p, l)
  BY <1>2, LoadPage
<1>4. PICK a \in Nat : Fills(s.fr, s.pcb, st.fr, st.pcb, p, l, txt[p], a)
  BY LoadFills
<1>5. ReadTo(st.pcb[p], txt[p], e, l + 1)
  BY LoadFills
<1>6. <<p, l>> \in P \X Nat /\ p \in DOMAIN s.pcb /\ 0 \notin DOMAIN s.pcb
  BY <1>1
<1>7. Stored(st.fr, st.pcb, <<<<p, l>>>> \o list, txt)
  BY <1>2, <1>4, <1>6, StoredFilled
<1> QED
  BY <1>3, <1>5, <1>7

\* What PAGE_evict keeps of the pages and of the progress of the process whose
\* page it takes, when that page has no line to run.
LEMMA EvictKeeps ==
    ASSUME NEW P, NEW Q, NEW s, NEW list, NEW txt, NEW p, NEW k, NEW e, NEW l, NEW st,
           EvictsOn(P, Q, s, list, txt, p, k, e, l, st)
    PROVE  /\ st \in States(P, Q) /\ st.lru = s.lru /\ p \in P /\ k \in DOMAIN s.pcb[p].page_table
           /\ Stored(st.fr, st.pcb, Front(list), txt)
           /\ ReadTo(st.pcb[p], txt[p], e, l)
           /\ Differs(s.pcb, st.pcb, p, k)
           /\ Spaces(st.fr) # {}
<1> SUFFICES ASSUME s \in States(P, Q), 0 \notin P, list \in Seq(P \X Nat), list # <<>>,
                    Stored(s.fr, s.pcb, list, txt), Last(list) = <<p, k>>,
                    l \in Nat, ReadTo(s.pcb[p], txt[p], e, l), 3 * k + 3 <= e \/ e = Len(txt[p]),
                    st = PAGE_evict(s, p, k)
             PROVE  /\ st \in States(P, Q) /\ st.lru = s.lru /\ p \in P /\ k \in DOMAIN s.pcb[p].page_table
                    /\ Stored(st.fr, st.pcb, Front(list), txt)
                    /\ ReadTo(st.pcb[p], txt[p], e, l)
                    /\ Differs(s.pcb, st.pcb, p, k)
                    /\ Spaces(st.fr) # {}
  BY DEF EvictsOn
<1>0. <<p, k>> \in Range(list) /\ <<p, k>> \in P \X Nat
  BY DropLast
<1>1. p \in P /\ k \in Nat
  BY <1>0
<1>2. s.pcb \in [P -> PCBs] /\ IsPCB(s.pcb[p])
  BY <1>1, PCBsArePCBs DEF States
<1>3. k \in DOMAIN s.pcb[p].page_table /\ s.pcb[p].page_table[k].valid_bit[0]
  <2>1. PICK pg : pg = <<p, k>> /\ pg[1] = p /\ pg[2] = k
    OBVIOUS
  <2>2. pg \in Range(list)
    BY <2>1, <1>0, Zenon
  <2>3. pg[2] \in DOMAIN s.pcb[pg[1]].page_table /\ s.pcb[pg[1]].page_table[pg[2]].valid_bit[0]
    BY <2>2, ListedIn
  <2> QED
    BY <2>1, <2>3, Zenon
<1>4. st \in States(P, Q) /\ st.lru = s.lru /\ Differs(s.pcb, st.pcb, p, k)
  BY <1>1, <1>3, EvictPage
<1>5. PICK a \in Nat : InFrame(s.fr, s.pcb, <<p, k>>, txt[p], a)
  <2>1. PICK a \in FrameSlots : InFrame(s.fr, s.pcb, <<p, k>>, txt[<<p, k>>[1]], a)
    BY <1>0 DEF Stored
  <2>2. a \in Nat /\ <<p, k>>[1] = p
    BY SlotsAreNats
  <2> QED
    BY <2>1, <2>2
<1>6. /\ Clears(s.fr, s.pcb, st.fr, st.pcb, p, k, txt[p], a)
      /\ st.pcb[p].source_file = s.pcb[p].source_file
  <2>1. k \in DOMAIN s.pcb[p].page_table
    BY <1>3
  <2>2. PICK t : t = txt[p] /\ InFrame(s.fr, s.pcb, <<p, k>>, t, a)
    BY <1>5
  <2>3. Clears(s.fr, s.pcb, st.fr, st.pcb, p, k, t, a) /\ st.pcb[p].source_file = s.pcb[p].source_file
    <3>1. Evicting(P, Q, s, p, k, t, a, st)
      BY <2>1, <2>2, <1>1, Zenon DEF Evicting
    <3> QED
      BY <3>1, EvictClears
  <2> QED
    BY <2>2, <2>3
<1>7. Stored(st.fr, st.pcb, Front(list), txt)
  <2>1. p \in DOMAIN s.pcb /\ 0 \notin DOMAIN s.pcb
    BY <1>1, <1>2
  <2> QED
    BY <2>1, <1>3, <1>6, StoredCleared
<1>8. ReadTo(st.pcb[p], txt[p], e, l)
  <2>1. st.pcb[p].page_table[k] = Evicted
    BY <1>6 DEF Clears
  <2>2. OnePage(s.pcb[p], st.pcb[p], k)
    BY <1>4 DEF Differs
  <2>3. st.pcb[p].source_file = SubSeq(txt[p], 3 * l + 1, Len(txt[p]))
    BY <1>6 DEF ReadTo
  <2>4. DOMAIN s.pcb[p].page_table \subseteq Nat
    <3>1. s.pcb[p].page_table_size \in Nat /\ DOMAIN s.pcb[p].page_table = 0..(s.pcb[p].page_table_size - 1)
      BY <1>2, PCBFields
    <3> QED
      BY <3>1
  <2>5. k < l
    <3>1. CASE k >= l
      <4>1. s.pcb[p].page_table[k] = PAGE_init
        BY <3>1, <1>3 DEF ReadTo
      <4> QED
        BY <4>1, <1>3 DEF PAGE_init
    <3> QED
      BY <3>1, <1>1
  <2> QED
    BY <2>1, <2>2, <2>3, <2>4, <2>5, <1>1, ReadToPage
<1>9. Spaces(st.fr) # {}
  <2>1. 3 * a + 2 < FRAME_STORE_SIZE
    BY <1>5, FrameOfPage
  <2>2. 0 \notin DOMAIN st.pcb
    BY <1>2, <1>4 DEF Differs
  <2>3. st.fr[3 * a + 0].owner = 0 /\ 0 \in 0..2
    BY <1>6 DEF Clears
  <2>4. 3 * a \in Spaces(st.fr)
    BY <2>1, <2>2, <2>3, <1>7, FreeTriple
  <2> QED
    BY <2>4
<1> QED
  BY <1>1, <1>3, <1>4, <1>7, <1>8, <1>9

-----------------------------------------------------------------------------
(* The ages of pages.                                                      *)

\* The pages up to one on a list.
LEMMA UpToMembers ==
    ASSUME NEW list, NEW pg, NEW y
    PROVE  y \in UpTo(list, pg) <=> \E n, m \in DOMAIN list : n <= m /\ y = list[n] /\ list[m] = pg
  BY DEF UpTo

\* A page that is put at the head of the list comes before all others.
LEMMA UpToHead ==
    ASSUME NEW S, NEW s \in Seq(S), NEW x \in S, x \notin Range(s)
    PROVE  /\ UpTo(<<x>> \o s, x) \subseteq {x}
           /\ \A pg : pg # x => UpTo(<<x>> \o s, pg) \subseteq UpTo(s, pg) \cup {x}
<1>1. PICK r \in Nat : r = Len(s)
  BY LenProperties
<1>2. PICK t : t = <<x>> \o s
  OBVIOUS
<1>3. /\ DOMAIN t = 1..(r + 1) /\ DOMAIN s = 1..r /\ t[1] = x /\ \A i \in 1..r : t[i + 1] = s[i]
  BY <1>1, <1>2, HeadForm
<1>4. \A i \in 1..(r + 1) : i = 1 \/ (i - 1 \in 1..r /\ i = (i - 1) + 1)
  OBVIOUS
<1>5. \A i \in 1..(r + 1) : i = 1 \/ (i - 1 \in 1..r /\ t[i] = s[i - 1])
  BY <1>3, <1>4
<1>6. \A i \in 1..r : s[i] # x
  BY <1>3 DEF Range
<1>7. ASSUME NEW y \in UpTo(t, x) PROVE y = x
  <2>1. PICK n, m \in 1..(r + 1) : n <= m /\ y = t[n] /\ t[m] = x
    BY <1>3, <1>7, UpToMembers
  <2>2. m = 1
    BY <2>1, <1>5, <1>6
  <2>3. n = 1
    BY <2>1, <2>2
  <2> QED
    BY <2>1, <2>3, <1>3
<1>8. ASSUME NEW pg, pg # x, NEW y \in UpTo(t, pg) PROVE y \in UpTo(s, pg) \cup {x}
  <2>1. PICK n, m \in 1..(r + 1) : n <= m /\ y = t[n] /\ t[m] = pg
    BY <1>3, <1>8, UpToMembers
  <2>2. CASE n = 1
    BY <2>1, <2>2, <1>3
  <2>3. CASE n # 1
    <3>1. m # 1
      BY <2>1, <1>3, <1>8
    <3>2. PICK a, b \in 1..r : a = n - 1 /\ b = m - 1
      BY <2>3, <3>1, <1>4
    <3>3. a <= b
      BY <3>2, <2>1
    <3>4. y = s[a] /\ s[b] = pg
      BY <2>1, <2>3, <3>1, <3>2, <1>5
    <3>5. y \in UpTo(s, pg)
      BY <3>3, <3>4, <1>3, UpToMembers
    <3> QED
      BY <3>5
  <2> QED
    BY <2>2, <2>3
<1> QED
  BY <1>2, <1>7, <1>8

\* All pages come up to the last one.
LEMMA UpToLast ==
    ASSUME NEW S, NEW s \in Seq(S), s # <<>>
    PROVE  Range(s) \subseteq UpTo(s, Last(s))
<1>1. PICK r \in Nat : r = Len(s)
  BY LenProperties
<1>2. DOMAIN s = 1..r /\ r \in 1..r /\ Last(s) = s[r]
  BY <1>1, FrontForm
<1>3. ASSUME NEW n \in 1..r PROVE s[n] \in UpTo(s, Last(s))
  <2>1. n <= r
    OBVIOUS
  <2> QED
    BY <2>1, <1>2, UpToMembers
<1> QED
  BY <1>2, <1>3 DEF Range

\* The pages up to one that stays when the last one leaves.
LEMMA UpToFront ==
    ASSUME NEW S, NEW s \in Seq(S), s # <<>>, NEW pg
    PROVE  UpTo(Front(s), pg) \subseteq UpTo(s, pg)
<1>1. PICK r \in Nat : r = Len(s)
  BY LenProperties
<1>2. PICK t : t = Front(s)
  OBVIOUS
<1>3. DOMAIN t = 1..(r - 1) /\ DOMAIN s = 1..r /\ \A i \in 1..(r - 1) : t[i] = s[i]
  BY <1>1, <1>2, FrontForm
<1>4. \A i \in 1..(r - 1) : i \in 1..r
  OBVIOUS
<1>5. ASSUME NEW y \in UpTo(t, pg) PROVE y \in UpTo(s, pg)
  <2>1. PICK n, m \in 1..(r - 1) : n <= m /\ y = t[n] /\ t[m] = pg
    BY <1>3, <1>5, UpToMembers
  <2>2. n \in DOMAIN s /\ m \in DOMAIN s /\ y = s[n] /\ s[m] = pg
    BY <2>1, <1>3, <1>4
  <2> QED
    BY <2>1, <2>2, UpToMembers
<1> QED
  BY <1>2, <1>5

\* What the list u is, when it is s, of r pages, without the m-th.
Removed(S, s, r, m, u) ==
    /\ u \in Seq(S) /\ Len(u) = r - 1 /\ DOMAIN u = 1..(r - 1)
    /\ \A i \in 1..(r - 1) : u[i] = IF i < m THEN s[i] ELSE s[i + 1]

\* remove_elem, element by element.
LEMMA RemoveForm ==
    ASSUME NEW S, NEW s \in Seq(S), NEW r \in Nat, r = Len(s), NEW m \in 1..r, NEW u, u = RemoveAt(s, m)
    PROVE  Removed(S, s, r, m, u)
<1>1. DOMAIN s = 1..r /\ s \in [1..r -> S]
  BY LenProperties
<1>2. PICK a, b : a = SubSeq(s, 1, m - 1) /\ b = SubSeq(s, m + 1, r)
  OBVIOUS
<1>4. a \in Seq(S) /\ Len(a) = m - 1 /\ \A i \in 1..(m - 1) : a[i] = s[i]
  <2>1. \A i \in 1..(m - 1) : s[i] \in S
    BY <1>1
  <2>2. /\ a \in Seq(S) /\ Len(a) = IF 1 <= m - 1 THEN (m - 1) - 1 + 1 ELSE 0
        /\ \A i \in 1..((m - 1) - 1 + 1) : a[i] = s[1 + i - 1]
    BY <2>1, <1>2, SubSeqProperties
  <2>3. (m - 1) - 1 + 1 = m - 1 /\ (\A i \in 1..(m - 1) : 1 + i - 1 = i)
        /\ (IF 1 <= m - 1 THEN (m - 1) - 1 + 1 ELSE 0) = m - 1
    OBVIOUS
  <2> QED
    BY <2>2, <2>3
<1>5. b \in Seq(S) /\ Len(b) = r - m /\ \A i \in 1..(r - m) : b[i] = s[m + i]
  <2>1. \A i \in (m + 1)..r : s[i] \in S
    BY <1>1
  <2>2. /\ b \in Seq(S) /\ Len(b) = IF m + 1 <= r THEN r - (m + 1) + 1 ELSE 0
        /\ \A i \in 1..(r - (m + 1) + 1) : b[i] = s[(m + 1) + i - 1]
    BY <2>1, <1>2, SubSeqProperties
  <2>3. r - (m + 1) + 1 = r - m /\ (\A i \in 1..(r - m) : (m + 1) + i - 1 = m + i)
        /\ (IF m + 1 <= r THEN r - (m + 1) + 1 ELSE 0) = r - m
    OBVIOUS
  <2> QED
    BY <2>2, <2>3
<1>6. u = a \o b
  BY <1>2 DEF RemoveAt
<1>7. PICK p \in Nat, q \in Nat : p = m - 1 /\ q = r - m
  <2>1. m - 1 \in Nat /\ r - m \in Nat
    OBVIOUS
  <2> QED
    BY <2>1, Zenon
<1>8. u \in Seq(S) /\ Len(u) = p + q /\ \A i \in 1..(p + q) : u[i] = IF i <= p THEN a[i] ELSE b[i - p]
  <2>1. /\ a \o b \in Seq(S) /\ Len(a \o b) = Len(a) + Len(b)
        /\ \A i \in 1..Len(a) + Len(b) : (a \o b)[i] = IF i <= Len(a) THEN a[i] ELSE b[i - Len(a)]
    BY <1>4, <1>5, ConcatProperties
  <2>2. Len(a) = p /\ Len(b) = q
    BY <1>4, <1>5, <1>7
  <2> QED
    BY <2>1, <2>2, <1>6
<1>9. p + q = r - 1
  BY <1>7
<1>10. \A i \in 1..(r - 1) : /\ i < m => i <= p /\ i \in 1..(m - 1)
                             /\ ~(i < m) => ~(i <= p) /\ i - p \in 1..(r - m) /\ m + (i - p) = i + 1
  BY <1>7
<1>11. \A i \in 1..(r - 1) : u[i] = IF i < m THEN s[i] ELSE s[i + 1]
  <2> SUFFICES ASSUME NEW i \in 1..(r - 1) PROVE u[i] = IF i < m THEN s[i] ELSE s[i + 1]
    OBVIOUS
  <2>1. u[i] = IF i <= p THEN a[i] ELSE b[i - p]
    BY <1>8, <1>9
  <2>2. CASE i < m
    <3>1. i <= p /\ i \in 1..(m - 1)
      BY <2>2, <1>10
    <3> QED
      BY <3>1, <2>1, <2>2, <1>4, Zenon
  <2>3. CASE ~(i < m)
    <3>1. ~(i <= p) /\ i - p \in 1..(r - m) /\ m + (i - p) = i + 1
      BY <2>3, <1>10
    <3> QED
      BY <3>1, <2>1, <2>3, <1>5, Zenon
  <2> QED
    BY <2>2, <2>3
<1>12. DOMAIN u = 1..(r - 1)
  BY <1>8, <1>9, LenProperties
<1> QED
  BY <1>8, <1>9, <1>11, <1>12, Zenon DEF Removed

\* remove_elem takes one page from a list without repetitions and leaves the
\* others in their order.
LEMMA RemoveDistinct ==
    ASSUME NEW S, NEW s \in Seq(S), Distinct(s), NEW m \in DOMAIN s, NEW u, u = RemoveAt(s, m)
    PROVE  /\ u \in Seq(S) /\ Distinct(u) /\ s[m] \notin Range(u) /\ Len(u) + 1 = Len(s)
           /\ Range(u) \subseteq Range(s)
           /\ \A pg : UpTo(u, pg) \subseteq UpTo(s, pg)
<1>1. PICK r \in Nat : r = Len(s) /\ DOMAIN s = 1..r
  BY LenProperties
<1>2. m \in 1..r
  BY <1>1
<1>3. /\ u \in Seq(S) /\ Len(u) = r - 1 /\ DOMAIN u = 1..(r - 1)
      /\ \A i \in 1..(r - 1) : u[i] = IF i < m THEN s[i] ELSE s[i + 1]
  <2>1. PICK i \in 1..r : i = m
    BY <1>2
  <2>2. u = RemoveAt(s, i) /\ r = Len(s)
    BY <2>1, <1>1, Zenon
  <2>3. Removed(S, s, r, i, u)
    BY <2>2, RemoveForm
  <2> QED
    BY <2>1, <2>3 DEF Removed
<1> DEFINE At(i) == IF i < m THEN i ELSE i + 1
<1>4. /\ \A i \in 1..(r - 1) : At(i) \in 1..r /\ At(i) # m
      /\ \A i, j \in 1..(r - 1) : (At(i) = At(j) => i = j) /\ (i <= j => At(i) <= At(j))
  BY <1>2
<1>5. \A i \in 1..(r - 1) : u[i] = s[At(i)]
  BY <1>3
<1> HIDE DEF At
<1>6. \A i, j \in 1..r : s[i] = s[j] => i = j
  BY <1>1 DEF Distinct
<1>7. Distinct(u)
  <2>1. ASSUME NEW i \in 1..(r - 1), NEW j \in 1..(r - 1), u[i] = u[j] PROVE i = j
    <3>1. s[At(i)] = s[At(j)]
      BY <2>1, <1>5
    <3>2. At(i) = At(j)
      BY <3>1, <1>4, <1>6
    <3> QED
      BY <3>2, <1>4
  <2> QED
    BY <2>1, <1>3, Zenon DEF Distinct
<1>8. s[m] \notin Range(u)
  <2> SUFFICES ASSUME s[m] \in Range(u) PROVE FALSE
    OBVIOUS
  <2>1. PICK i \in 1..(r - 1) : u[i] = s[m]
    BY <1>3 DEF Range
  <2>2. s[At(i)] = s[m]
    BY <2>1, <1>5
  <2> QED
    BY <2>2, <1>2, <1>4, <1>6
<1>9. Range(u) \subseteq Range(s)
  BY <1>1, <1>3, <1>4, <1>5 DEF Range
<1>10. ASSUME NEW pg, NEW y \in UpTo(u, pg) PROVE y \in UpTo(s, pg)
  <2>1. PICK i, j \in 1..(r - 1) : i <= j /\ y = u[i] /\ u[j] = pg
    BY <1>3, <1>10, UpToMembers
  <2>2. PICK a, b \in 1..r : a = At(i) /\ b = At(j) /\ a <= b
    BY <2>1, <1>4
  <2>3. y = s[a] /\ s[b] = pg
    BY <2>1, <2>2, <1>5
  <2> QED
    BY <2>2, <2>3, <1>1, UpToMembers
<1>11. Len(u) + 1 = Len(s)
  <2>1. (r - 1) + 1 = r
    OBVIOUS
  <2> QED
    BY <2>1, <1>1, <1>3
<1> QED
  BY <1>3, <1>7, <1>8, <1>9, <1>10, <1>11

-----------------------------------------------------------------------------
(* The line a process runs, or the page it waits for.                      *)

\* What is true of the process whose turn it is, when it has lines to run and
\* its file has been read up to page l.
Running(l) ==
    /\ l \in Nat /\ Ran1(curr) \in Nat /\ Len(text[curr]) \in Nat /\ Ran1(curr) < Len(text[curr])
    /\ ReadTo(pcb[curr], text[curr], Ran1(curr), l) /\ OnTime(pcb[curr], Ran1(curr), l)
    /\ page \in Nat /\ 3 * page <= Ran1(curr) /\ Ran1(curr) < 3 * page + 3
    /\ page < l => valid_bit /\ <<curr, page>> \in Range(lru) /\ line = text[curr][Ran1(curr) + 1]
    /\ ~(page < l) => /\ ~valid_bit /\ page = l /\ Ran1(curr) = 3 * l /\ l >= 2
                      /\ l < pcb[curr].page_table_size

\* The texts and what has been run of them, with their types.
LEMMA TextFacts ==
    ASSUME PlainIInv, NEW p \in Pids
    PROVE  /\ p \in DOMAIN text /\ p \in DOMAIN executed /\ text[p] \in Seq(Lines) /\ executed[p] \in Seq(Lines)
           /\ Ran1(p) \in Nat /\ Len(text[p]) \in Nat /\ Ran1(p) <= Len(text[p])
<1>1. text \in Seq(Seq(Lines)) /\ executed \in Seq(Seq(Lines))
      /\ Len(text) = pid_counter - 1 /\ Len(executed) = pid_counter - 1
  BY DEF PlainIInv, Texts
<1>2. DOMAIN text = Pids /\ DOMAIN executed = Pids
  BY <1>1, LenProperties DEF Pids
<1>3. text[p] \in Seq(Lines) /\ executed[p] \in Seq(Lines)
  BY <1>1, <1>2, ElementOfSeq, LenProperties DEF Pids
<1>4. Ran1(p) \in Nat /\ Len(text[p]) \in Nat
  BY <1>3, LenProperties DEF Ran1
<1>5. Ran1(p) <= Len(text[p])
  BY DEF PlainIInv, Texts
<1> QED
  BY <1>2, <1>3, <1>4, <1>5

\* The page run_proc_RR finds is in its frame, with the line to run, unless
\* the file has been read up to just that page.
LEMMA RunFacts ==
    ASSUME PlainIInv, InTurn, pcb[curr].size > 0
    PROVE  \E l \in 0..pcb[curr].page_table_size : Running(l)
<1>1. IInv /\ curr \in Live /\ curr \in Pids
  BY TurnFacts DEF PlainIInv
<1>2. PICK c, t : c = pcb[curr] /\ t = text[curr] /\ IsPCB(c)
  BY <1>1 DEF IInv, Counted, Live
<1>3. PICK e \in Nat, n \in Nat : e = Ran1(curr) /\ n = Len(t)
  BY <1>1, <1>2, TextFacts
<1>4. PICK l \in 0..c.page_table_size : ReadTo(c, t, e, l) /\ OnTime(c, e, l)
  BY <1>1, <1>2, <1>3 DEF PlainIInv, Follows
<1>5. /\ c.page_table_size \in Nat /\ c.size \in Nat
      /\ DOMAIN c.page_table = 0..(c.page_table_size - 1) /\ DOMAIN c.program_counter = 0..(c.page_table_size - 1)
  BY <1>2, PCBFields
<1>6. c.size + e = n /\ HasRun(c, e) /\ c.size > 0
  BY <1>2, <1>3, <1>4 DEF ReadTo
<1>7. e < n
  BY <1>5, <1>6
<1>8. PICK k \in Nat : k = page
  BY <1>1, PageFacts
<1>9. k = Lowest({i \in DOMAIN c.program_counter : c.program_counter[i] # 3})
  BY <1>2, <1>8 DEF page
<1>10. k \in 0..(c.page_table_size - 1) /\ slot = e - 3 * k /\ 3 * k <= e /\ e < 3 * k + 3
  <2>1. k \in DOMAIN c.program_counter /\ c.program_counter[k] = e - 3 * k /\ 3 * k <= e /\ e < 3 * k + 3
    BY <1>2, <1>6, <1>9, Scan
  <2> QED
    BY <2>1, <1>2, <1>5, <1>8 DEF slot
<1>11. PICK s \in 0..2 : s = slot /\ s = e - 3 * k
  BY <1>10
<1>12. ASSUME k < l PROVE valid_bit /\ <<curr, page>> \in Range(lru) /\ line = t[e + 1]
  <2>1. c.page_table[k].valid_bit[0]
    <3>1. ~(k >= l) /\ ~(3 * k + 3 <= e) /\ ~(e = n)
      BY <1>4, <1>7, <1>10, <1>12
    <3>2. c.page_table[k].valid_bit[0] \/ (c.page_table[k] = Evicted /\ (3 * k + 3 <= e \/ e = Len(t)))
      BY <3>1, <1>4, <1>5, <1>10, Zenon DEF ReadTo
    <3> QED
      BY <3>1, <3>2, <1>3, Zenon
  <2>2. PICK pg : pg = <<curr, page>> /\ pg \in Range(lru) /\ pg[1] = curr /\ pg[2] = k
    <3>1. <<curr, k>> \in PagesIn(pcb)
      BY <2>1, <1>1, <1>2, <1>5, <1>10 DEF PagesIn, Live
    <3> QED
      BY <3>1, <1>8 DEF PlainIInv, Stored
  <2>3. PICK a \in Nat : InFrame(frames, pcb, pg, t, a)
    BY <2>2, <1>2, SlotsAreNats DEF PlainIInv, Stored
  <2>4. c.page_table[k] = PageAt(3 * a, LinesOn(t, k))
    BY <2>2, <2>3, <1>2 DEF InFrame
  <2>5. PICK m \in Nat : m = LinesOn(t, k) /\ s < m
    <3>1. 3 * k < n
      BY <1>7, <1>10
    <3>2. LinesOn(t, k) = (IF n - 3 * k < 3 THEN n - 3 * k ELSE 3)
      BY <1>3 DEF LinesOn
    <3> QED
      BY <3>1, <3>2, <1>7, <1>10, <1>11
  <2>6. valid_bit
    <3>1. PageAt(3 * a, m).valid_bit[s]
      BY <2>5, ValidBits
    <3> QED
      BY <3>1, <2>4, <2>5, <1>2, <1>8, <1>11, Zenon DEF valid_bit
  <2>7. line = t[e + 1]
    <3>1. c.page_table[k].index[s] = 3 * a + s
      BY <2>2, <2>3, <1>2, FrameOfPage
    <3>2. frames[3 * a + s].line = t[3 * k + s + 1]
      BY <2>2, <2>3, <2>5 DEF InFrame
    <3>3. 3 * k + s + 1 = e + 1
      BY <1>11
    <3> QED
      BY <3>1, <3>2, <3>3, <1>2, <1>8, <1>11 DEF line
  <2> QED
    BY <2>2, <2>6, <2>7
<1>13. ASSUME ~(k < l) PROVE ~valid_bit /\ k = l /\ e = 3 * l /\ l >= 2 /\ l < c.page_table_size
  <2>1. k >= l /\ l \in Nat
    BY <1>4, <1>5, <1>13
  <2>2. c.page_table[k] = PAGE_init
    BY <2>1, <1>4, <1>5, <1>10, Zenon DEF ReadTo
  <2>3. ~valid_bit
    BY <2>2, <1>2, <1>8, <1>11 DEF PAGE_init, valid_bit
  <2>4. e <= 3 * l /\ (l = c.page_table_size \/ l >= 2)
    BY <1>4 DEF OnTime
  <2>5. k = l /\ e = 3 * l
    BY <2>1, <2>4, <1>10
  <2> QED
    BY <2>3, <2>4, <2>5, <1>5, <1>10
<1>14. Running(l)
  <2>1. l \in Nat
    BY <1>4, <1>5
  <2> QED
    BY <2>1, <1>2, <1>3, <1>4, <1>7, <1>8, <1>10, <1>12, <1>13, Zenon DEF Running
<1> QED
  BY <1>2, <1>4, <1>14

-----------------------------------------------------------------------------
(* Turns, in the order of the queue.                                       *)

\* The order of a queue without its head, and with one more at its tail.
LEMMA BeforeTail ==
    ASSUME NEW S, NEW s \in Seq(S), s # <<>>
    PROVE  /\ \A p, q : Before(Tail(s), p, q) => Before(s, p, q)
           /\ \A q \in Range(Tail(s)) : Before(s, Head(s), q)
<1>1. PICK r \in Nat : r = Len(s) /\ DOMAIN s = 1..r
  BY LenProperties
<1>2. r # 0
  BY <1>1, EmptySeq
<1>3. PICK t : t = Tail(s)
  OBVIOUS
<1>4. t \in Seq(S) /\ Len(t) = r - 1 /\ \A i \in 1..(r - 1) : t[i] = s[i + 1]
  BY <1>1, <1>3, HeadTailProperties
<1>5. DOMAIN t = 1..(r - 1)
  BY <1>4, LenProperties
<1>6. (\A i \in 1..(r - 1) : i + 1 \in 1..r /\ 1 < i + 1) /\ 1 \in 1..r /\ \A i, j \in 1..(r - 1) : i < j => i + 1 < j + 1
  BY <1>2
<1>7. Head(s) = s[1]
  OBVIOUS
<1>8. ASSUME NEW p, NEW q, Before(t, p, q) PROVE Before(s, p, q)
  <2>1. PICK i, j \in 1..(r - 1) : i < j /\ t[i] = p /\ t[j] = q
    BY <1>5, <1>8 DEF Before
  <2>2. i + 1 \in DOMAIN s /\ j + 1 \in DOMAIN s /\ i + 1 < j + 1 /\ s[i + 1] = p /\ s[j + 1] = q
    BY <2>1, <1>1, <1>4, <1>6
  <2> QED
    BY <2>2 DEF Before
<1>9. ASSUME NEW q \in Range(t) PROVE Before(s, Head(s), q)
  <2>1. PICK i \in 1..(r - 1) : t[i] = q
    BY <1>5 DEF Range
  <2>2. 1 \in DOMAIN s /\ i + 1 \in DOMAIN s /\ 1 < i + 1 /\ s[i + 1] = q
    BY <2>1, <1>1, <1>4, <1>6
  <2> QED
    BY <2>2, <1>7 DEF Before
<1> QED
  BY <1>3, <1>8, <1>9

\* The order of a queue with one more at its tail.
LEMMA BeforeAppend ==
    ASSUME NEW S, NEW s \in Seq(S), NEW x \in S, x \notin Range(s), NEW p, NEW q, Before(Append(s, x), p, q)
    PROVE  p \in Range(s) /\ (Before(s, p, q) \/ q = x)
<1>1. PICK r \in Nat : r = Len(s) /\ DOMAIN s = 1..r
  BY LenProperties
<1>2. PICK t : t = Append(s, x)
  OBVIOUS
<1>3. DOMAIN t = 1..(r + 1) /\ t[r + 1] = x /\ \A i \in 1..r : t[i] = s[i]
  <2>1. t \in Seq(S) /\ Len(t) = r + 1 /\ t[r + 1] = x /\ \A i \in 1..r : t[i] = s[i]
    BY <1>1, <1>2, AppendProperties
  <2> QED
    BY <2>1, LenProperties
<1>4. PICK i, j \in 1..(r + 1) : i < j /\ t[i] = p /\ t[j] = q
  BY <1>2, <1>3 DEF Before
<1>5. i \in 1..r /\ (j = r + 1 \/ j \in 1..r)
  BY <1>4
<1>6. p = s[i] /\ p \in Range(s)
  BY <1>1, <1>3, <1>4, <1>5 DEF Range
<1>7. CASE j = r + 1
  BY <1>3, <1>4, <1>6, <1>7
<1>8. CASE j \in 1..r
  BY <1>1, <1>3, <1>4, <1>5, <1>6, <1>8 DEF Before
<1> QED
  BY <1>5, <1>7, <1>8

\* Whoever comes before someone is in the queue.
LEMMA BeforeInside ==
    ASSUME NEW s, NEW p, NEW q, Before(s, p, q)
    PROVE  p \in Range(s) /\ q \in Range(s)
  BY DEF Before, Range

\* The process whose turn it is comes before the others, which keep their order.
LEMMA TurnOrder ==
    ASSUME IInv, InTurn
    PROVE  /\ \A p, q : Before(others, p, q) => Ahead(p, q) /\ Before(queue, p, q)
           /\ \A q \in Range(others) : Ahead(curr, q)
           /\ Range(others) \subseteq Waiting
           /\ cpu.at = "second" => curr = cpu.pid /\ others = queue
<1>1. CASE cpu.at = "second"
  BY <1>1, WaitingRange DEF curr, others, Ahead
<1>2. CASE cpu.at # "second"
  <2>1. queue \in Seq(Live)
    BY DEF IInv, QueueIntegrity, TypeOK
  <2>2. queue # <<>>
    BY <1>2 DEF InTurn, queue_done
  <2>3. curr = Head(queue) /\ others = Tail(queue)
    BY <1>2 DEF curr, others
  <2>4. /\ \A p, q : Before(Tail(queue), p, q) => Before(queue, p, q)
        /\ \A q \in Range(Tail(queue)) : Before(queue, Head(queue), q)
    BY <2>1, <2>2, BeforeTail
  <2>5. Range(others) \subseteq Waiting
    <3>1. \A q \in Range(others) : q \in Range(queue)
      BY <2>3, <2>4, BeforeInside
    <3> QED
      BY <3>1, WaitingRange
  <2> QED
    BY <1>2, <2>3, <2>4, <2>5 DEF Ahead
<1> QED
  BY <1>1, <1>2

\* Who waits is not the one on the CPU, and all its lines have been run in
\* earlier turns.
LEMMA OthersBegun ==
    ASSUME PlainIInv, InTurn, NEW q \in Range(others)
    PROVE  q \in Waiting /\ q \in Live /\ q \in Pids /\ q # cpu.pid /\ q # curr /\ Begun(q) = Ran1(q) /\ Ran1(q) \in Nat
<1>1. IInv
  BY DEF PlainIInv
<1>2. q \in Waiting /\ curr \notin Range(others)
  BY <1>1, TurnOrder, TurnFacts
<1>3. q \in Live /\ q # cpu.pid /\ Live \subseteq Pids
  BY <1>1, <1>2 DEF IInv, QueueIntegrity, TypeOK
<1> QED
  BY <1>2, <1>3, TextFacts DEF Begun

\* At a page fault every process that waits has run six lines: each has had as
\* many turns as the one that meets the first fault.
LEMMA FaultLate ==
    ASSUME PlainIInv, InTurn, pcb[curr].size > 0, ~valid_bit
    PROVE  Early(curr) = 6 /\ Ran1(curr) >= 6 /\ \A q \in Range(others) : Early(q) = 6 /\ Ran1(q) >= 6
<1>1. IInv /\ curr \in Live
  BY TurnFacts DEF PlainIInv
<1>2. PICK e \in Nat : e = Ran1(curr) /\ e >= 6
  <2>1. PICK l : Running(l)
    BY RunFacts
  <2>2. l \in Nat /\ l >= 2 /\ Ran1(curr) = 3 * l
    BY <2>1 DEF Running
  <2> QED
    BY <2>2
<1>3. Early(curr) = 6
  <2>1. CASE cpu.at = "second" /\ e - 1 < 6
    <3>1. curr = cpu.pid /\ cpu.pid # 0
      <4>1. curr \in Pids
        BY <1>1, TurnFacts
      <4>2. curr # 0
        BY <4>1 DEF Pids
      <4> QED
        BY <4>2, <2>1 DEF curr
    <3>2. Early(curr) = e - 1
      BY <3>1, <1>2, <2>1 DEF Early, Begun
    <3>3. Early(curr) \in {0, 2, 4, 6}
      BY <3>1 DEF PlainIInv, InStep
    <3> QED
      BY <3>2, <3>3, <1>2
  <2>2. CASE ~(cpu.at = "second" /\ e - 1 < 6)
    <3>1. Begun(curr) = e - 1 \/ Begun(curr) = e
      BY <1>2 DEF Begun
    <3>2. ~(Begun(curr) < 6)
      BY <3>1, <2>2, <1>2 DEF Begun
    <3> QED
      BY <3>2 DEF Early
  <2> QED
    BY <2>1, <2>2
<1>4. ASSUME NEW q \in Range(others) PROVE Early(q) = 6 /\ Ran1(q) >= 6
  <2>1. PICK f \in Nat : f = Ran1(q) /\ Begun(q) = f /\ q \in Live
    BY OthersBegun
  <2>2. Ahead(curr, q)
    BY <1>1, TurnOrder
  <2>3. Early(curr) <= Early(q)
    BY <2>1, <2>2, <1>1 DEF PlainIInv, InStep
  <2>4. Early(q) = (IF f < 6 THEN f ELSE 6)
    BY <2>1 DEF Early
  <2> QED
    BY <2>1, <2>3, <2>4, <1>3
<1> QED
  BY <1>2, <1>3, <1>4

-----------------------------------------------------------------------------
(* The page that is evicted.                                               *)

\* A list without repetitions has as many members as places.
LEMMA DistinctCount ==
    ASSUME NEW S, NEW s \in Seq(S), Distinct(s)
    PROVE  IsFiniteSet(Range(s)) /\ Cardinality(Range(s)) = Len(s)
<1>1. PICK r \in Nat : r = Len(s) /\ DOMAIN s = 1..r
  BY LenProperties
<1>2. IsFiniteSet(1..r) /\ Cardinality(1..r) = r
  <2>1. Cardinality(1..r) = IF 1 > r THEN 0 ELSE r - 1 + 1
    BY FS_Interval
  <2> QED
    BY <2>1, FS_Interval
<1>3. s \in Surjection(1..r, Range(s))
  BY <1>1 DEF Surjection, Range
<1>4. s \in Bijection(1..r, Range(s))
  BY <1>1, <1>3 DEF Bijection, Injection, IsInjective, Surjection, Distinct
<1>5. ExistsBijection(1..r, Range(s))
  BY <1>4 DEF ExistsBijection
<1> QED
  BY <1>1, <1>2, <1>5, FS_Bijection

\* The members of the starting pages are finitely many.
LEMMA StartersFinite == IInv => IsFiniteSet(Starters)
<1>1. ASSUME IInv PROVE IsFiniteSet(Starters)
  <2>1. pid_counter \in Nat /\ Live \subseteq Pids
    BY <1>1 DEF IInv, QueueIntegrity, TypeOK
  <2>2. pid_counter - 1 \in Int
    BY <2>1
  <2>3. IsFiniteSet(Pids)
    BY <2>2, FS_Interval DEF Pids
  <2>4. IsFiniteSet(Live)
    BY <2>1, <2>3, FS_Subset
  <2>5. IsFiniteSet({0, 1})
    <3>1. IsFiniteSet({0}) /\ {0} \cup {1} = {0, 1}
      BY FS_Singleton
    <3> QED
      BY <3>1, FS_AddElement
  <2>6. IsFiniteSet(Live \X {0, 1})
    BY <2>4, <2>5, FS_Product
  <2> QED
    BY <2>6, FS_Subset DEF Starters
<1> QED
  BY <1>1

\* Of two numbers that follow each other one is even and the other odd.
LEMMA Parity ==
    \A l \in Nat : /\ l % 2 \in {0, 1} /\ (l % 2) <= l
                   /\ l >= 1 => ((l - 1) % 2) # (l % 2)
                   /\ l >= 1 => (3 * l - 1) \div 3 = l - 1
  OBVIOUS

\* A page of the list is a page of a process.
LEMMA ListedPage ==
    ASSUME PlainIInv, NEW y \in Range(lru)
    PROVE  /\ y = <<y[1], y[2]>> /\ y[1] \in Live /\ y[2] \in Nat /\ y[2] \in DOMAIN pcb[y[1]].page_table
           /\ pcb[y[1]].page_table_size \in Nat /\ y[2] < pcb[y[1]].page_table_size
           /\ pcb[y[1]].page_table[y[2]].valid_bit[0]
<1>1. lru \in Seq(Live \X Nat) /\ Range(lru) = PagesIn(pcb)
  BY DEF PlainIInv, IInv, QueueIntegrity, TypeOK, Stored
<1>2. y \in Live \X Nat
  BY <1>1, RangeInside
<1>3. y[2] \in DOMAIN pcb[y[1]].page_table /\ pcb[y[1]].page_table[y[2]].valid_bit[0]
  <2>1. y \in PagesIn(pcb)
    BY <1>1
  <2>2. PICK p \in DOMAIN pcb : y \in {p} \X DOMAIN pcb[p].page_table
    BY <2>1 DEF PagesIn
  <2>3. y[1] = p /\ y[2] \in DOMAIN pcb[p].page_table
    BY <2>2
  <2> QED
    BY <2>1, <2>3 DEF PagesIn
<1>4. IsPCB(pcb[y[1]])
  BY <1>2 DEF PlainIInv, IInv, Counted, Live
<1>5. PICK c : c = pcb[y[1]] /\ IsPCB(c)
  BY <1>4
<1>6. c.page_table_size \in Nat /\ DOMAIN c.page_table = 0..(c.page_table_size - 1)
  BY <1>5, PCBFields
<1>7. PICK k \in Nat : k = y[2]
  BY <1>2
<1>8. k < c.page_table_size
  BY <1>3, <1>5, <1>6, <1>7
<1> QED
  BY <1>2, <1>3, <1>5, <1>6, <1>7, <1>8

\* Where a page is in the table of starting pages: its process, and whether
\* its number is odd.
LEMMA StarterOf ==
    ASSUME PlainIInv, NEW y \in Range(lru)
    PROVE  <<y[1], y[2] % 2>> \in Starters
<1>1. PICK k \in Nat, n \in Nat : k = y[2] /\ n = pcb[y[1]].page_table_size /\ k < n
  BY ListedPage
<1>2. k % 2 \in {0, 1} /\ k % 2 < n
  BY <1>1, Parity
<1>3. y[1] \in Live
  BY ListedPage
<1> QED
  BY <1>1, <1>2, <1>3 DEF Starters

\* When all the pages of the list have been used since a waiting process last
\* used one of its own, there are fewer than were loaded at the start: of the
\* process whose turn it is one page is missing.
LEMMA RoomLeft ==
    ASSUME PlainIInv, NEW x \in Starters, NEW pg, NEW q, Recent(pg, q), Range(lru) \subseteq UpTo(lru, pg),
           \A y \in Range(lru) : y[1] = x[1] => (y[2] % 2) # x[2]
    PROVE  Len(lru) < FRAME_STORE_SIZE \div 3
<1> DEFINE h == [y \in Range(lru) |-> <<y[1], y[2] % 2>>]
<1>1. ASSUME NEW y \in Range(lru) PROVE h[y] \in Starters /\ h[y] # x
  <2>1. h[y] = <<y[1], y[2] % 2>> /\ h[y][1] = y[1] /\ h[y][2] = (y[2] % 2)
    OBVIOUS
  <2>2. h[y] \in Starters
    BY <2>1, StarterOf
  <2> HIDE DEF h
  <2> QED
    BY <2>1, <2>2
<1>2. ASSUME NEW y \in Range(lru), NEW z \in Range(lru), h[y] = h[z] PROVE y = z
  <2>1. y[1] = z[1] /\ y[2] % 2 = z[2] % 2
    BY <1>2
  <2> QED
    BY <2>1 DEF Recent
<1>3. IsFiniteSet(Starters)
  BY StartersFinite DEF PlainIInv
<1>4. Cardinality(Range(lru)) < Cardinality(Starters)
  <2> HIDE DEF h
  <2> QED
    BY <1>1, <1>2, <1>3, OneMissed
<1>5. Cardinality(Range(lru)) = Len(lru) /\ Len(lru) \in Nat
  <2>1. lru \in Seq(Live \X Nat) /\ Distinct(lru)
    BY DEF PlainIInv, IInv, QueueIntegrity, TypeOK, Stored, Distinct
  <2> QED
    BY <2>1, DistinctCount, LenProperties
<1>6. PICK m \in Nat, n \in Nat : m = Len(lru) /\ n = Cardinality(Starters) /\ m < n
  BY <1>3, <1>4, <1>5, FS_CardinalityType
<1>7. n <= FRAME_STORE_SIZE \div 3 /\ FRAME_STORE_SIZE \div 3 \in Nat
  BY <1>6, StoreAssumption DEF PlainIInv, Enough
<1> QED
  BY <1>6, <1>7

\* The page that is evicted has no line left to run.
LEMMA VictimDone ==
    ASSUME PlainIInv, InTurn, pcb[curr].size > 0, ~valid_bit, Spaces(frames) = {},
           NEW pg, pg = Last(lru), pg \in Range(lru)
    PROVE  ~ToRun(pg[1], pg[2])
<1> SUFFICES ASSUME ToRun(pg[1], pg[2]) PROVE FALSE
  OBVIOUS
<1>1. IInv /\ curr \in Live /\ curr \in Pids
  BY TurnFacts DEF PlainIInv
<1>2. PICK l \in Nat : Running(l) /\ page = l /\ Ran1(curr) = 3 * l /\ l >= 2 /\ l < pcb[curr].page_table_size
  BY RunFacts DEF Running
<1>3. PICK q, k : q = pg[1] /\ k = pg[2] /\ k \in Nat /\ q \in Live /\ k \in DOMAIN pcb[q].page_table
                          /\ pcb[q].page_table[k].valid_bit[0]
  BY ListedPage
<1>4. CASE q = curr
  <2>1. k >= l
    BY <1>2, <1>3, <1>4 DEF ToRun
  <2>2. pcb[q].page_table[k] = PAGE_init
    BY <2>1, <1>2, <1>3, <1>4, Zenon DEF Running, ReadTo
  <2>3. ~pcb[q].page_table[k].valid_bit[0]
    BY <2>2 DEF PAGE_init
  <2> QED
    BY <2>3, <1>3
<1>5. CASE q # curr
  <2>1. q \in Range(others)
    <3>1. q \in Waiting \cup {cpu.pid}
      <4>1. PICK e, t : e = Ran1(q) /\ t = text[q] /\ e \in Nat /\ Len(t) \in Nat /\ e < Len(t)
        <5>1. q \in Pids
          BY <1>1, <1>3 DEF IInv, QueueIntegrity, TypeOK
        <5> QED
          BY <5>1, <1>3, TextFacts DEF ToRun
      <4>2. pcb[q].size + e = Len(t)
        BY <4>1, <1>3 DEF PlainIInv, Follows, ReadTo
      <4>3. pcb[q].size # 0
        BY <4>1, <4>2
      <4> QED
        BY <4>3, <1>1, <1>3 DEF IInv
    <3> QED
      BY <3>1, <1>1, <1>3, <1>5, TurnFacts
  <2>2. q \in Waiting /\ Ran1(q) >= 4 /\ Ran1(q) \in Nat
    <3>1. Ran1(q) >= 6 /\ Ran1(q) \in Nat
      BY <2>1, FaultLate, OthersBegun
    <3> QED
      BY <3>1, <2>1, OthersBegun
  <2>3. Recent(pg, q)
    BY <2>2, <1>3 DEF PlainIInv, UsedLately
  <2>4. lru \in Seq(Live \X Nat) /\ lru # <<>>
    BY <1>1 DEF IInv, QueueIntegrity, TypeOK, InTurnOK
  <2>5. Range(lru) \subseteq UpTo(lru, pg)
    BY <2>4, UpToLast
  <2>6. <<curr, l % 2>> \in Starters
    <3>1. PICK n \in Nat : n = pcb[curr].page_table_size
      BY <1>1, PCBFields DEF IInv, Counted, Live
    <3>2. l % 2 \in {0, 1} /\ l % 2 < n
      BY <3>1, <1>2, Parity
    <3> QED
      BY <3>1, <3>2, <1>1 DEF Starters
  <2>7. ASSUME NEW y \in Range(lru), y[1] = curr PROVE (y[2] % 2) # (l % 2)
    <3>1. Ahead(y[1], q)
      BY <2>1, <2>7, <1>1, TurnOrder
    <3>2. y[2] = (Ran1(curr) - 1) \div 3
      BY <3>1, <2>3, <2>5, <2>7 DEF Recent
    <3>3. y[2] = l - 1
      BY <3>2, <1>2, Parity
    <3> QED
      BY <3>3, <1>2, Parity
  <2>8. PICK x : x = <<curr, l % 2>> /\ x \in Starters /\ x[1] = curr /\ x[2] = (l % 2)
    BY <2>6
  <2>9. Len(lru) < FRAME_STORE_SIZE \div 3
    BY <2>3, <2>5, <2>7, <2>8, RoomLeft
  <2>10. FRAME_STORE_SIZE \div 3 <= Len(lru)
    <3>1. Len(lru) \in Nat
      BY <2>4, LenProperties
    <3>2. 0 \notin DOMAIN pcb
      BY <1>1 DEF IInv, QueueIntegrity, TypeOK, Live, Pids
    <3> QED
      BY <3>1, <3>2, AllTaken DEF PlainIInv
  <2>11. PICK m \in Nat, n \in Nat : m = Len(lru) /\ n = FRAME_STORE_SIZE \div 3 /\ m < n /\ n <= m
    <3>1. Len(lru) \in Nat /\ FRAME_STORE_SIZE \div 3 \in Nat
      BY <2>4, LenProperties, StoreAssumption
    <3> QED
      BY <3>1, <2>9, <2>10
  <2> QED
    BY <2>11
<1> QED
  BY <1>4, <1>5

-----------------------------------------------------------------------------
(* page_fault.                                                             *)

\* After a page fault: the list without the evicted page, if there was one,
\* and the new page in front.
Faulted(list) ==
    /\ list \in Seq(Live \X Nat) /\ Range(list) \subseteq Range(lru)
    /\ \A pg : UpTo(list, pg) \subseteq UpTo(lru, pg)
    /\ lru' = <<<<curr, page>>>> \o list
    /\ Stored(frames', pcb', lru', text)
    /\ Live' = Live
    /\ \A p \in Live : pcb'[p].page_table_size = pcb[p].page_table_size
    /\ \A p \in Live : p # curr => \E l \in 0..pcb[p].page_table_size :
         ReadTo(pcb'[p], text[p], Ran1(p), l) /\ OnTime(pcb[p], Ran1(p), l)
    /\ \A l \in Nat : page = l => ReadTo(pcb'[curr], text[curr], Ran1(curr), l + 1)
    /\ queue' = Append(others, curr) /\ cpu' = [at |-> "first", pid |-> 0]

\* The state of memory and PCBs as load_PAGE and PAGE_evict take it.
LEMMA StateHere ==
    ASSUME PlainIInv, NEW list \in Seq(Live \X Nat), NEW s, s = [fr |-> frames, pcb |-> pcb, lru |-> list, ok |-> TRUE]
    PROVE  /\ s \in States(Live, Pids) /\ s.fr = frames /\ s.pcb = pcb /\ s.lru = list
           /\ Live \subseteq Pids /\ 0 \notin Live /\ DOMAIN pcb = Live
           /\ Stored(s.fr, s.pcb, lru, text)
<1>1. IInv
  BY DEF PlainIInv
<1>2. pcb \in [Live -> PCBs] /\ frames \in [FrameSlots -> [owner : Pids \cup {0}, line : Lines]] /\ Live \subseteq Pids
  <2>1. \A p \in Live : pcb[p] \in PCBs
    BY <1>1, PCBsArePCBs DEF IInv, Counted, Live
  <2> QED
    BY <2>1, <1>1 DEF IInv, QueueIntegrity, TypeOK
<1>3. s \in States(Live, Pids)
  BY <1>2 DEF States
<1> QED
  BY <1>2, <1>3 DEF PlainIInv, Live, Pids

\* page_fault evicts a page without a line to run if it must, and brings in
\* the page whose first line is due.
LEMMA FaultStep ==
    ASSUME PlainIInv, page_fault
    PROVE  \E list : Faulted(list)
<1>1. /\ IInv /\ InTurn /\ pcb[curr].size > 0 /\ ~valid_bit /\ PageIn(pcb) /\ curr \in Live /\ curr \in Pids
      /\ text' = text /\ executed' = executed
  BY TurnFacts DEF PlainIInv, page_fault
<1>2. PICK l \in Nat : Running(l) /\ page = l /\ l < pcb[curr].page_table_size
                       /\ ReadTo(pcb[curr], text[curr], Ran1(curr), l)
  BY <1>1, RunFacts DEF Running
<1>3. PICK e, t : e \in Nat /\ e = Ran1(curr) /\ t = text[curr] /\ t \in Seq(Lines)
  BY <1>1, TextFacts
<1>4. lru \in Seq(Live \X Nat) /\ lru # <<>>
  BY <1>1 DEF IInv, QueueIntegrity, TypeOK, InTurnOK
<1>5. \A p \in Live : pcb'[p].page_table_size = pcb[p].page_table_size
      /\ Live' = Live /\ queue' = Append(others, curr) /\ cpu' = [at |-> "first", pid |-> 0]
  BY <1>1, PageInFacts, PageFacts DEF IInv, SameCounters, Live, QueueIntegrity, TypeOK
<1>6. ASSUME NEW list \in Seq(Live \X Nat), Range(list) \subseteq Range(lru), \A pg : UpTo(list, pg) \subseteq UpTo(lru, pg),
             NEW s \in States(Live, Pids), Stored(s.fr, s.pcb, list, text), Spaces(s.fr) # {}, s.lru = list,
             s.pcb[curr].page_table_size = pcb[curr].page_table_size,
             ReadTo(s.pcb[curr], t, e, l),
             \A p \in Live : p # curr => \E i \in 0..pcb[p].page_table_size :
                ReadTo(s.pcb[p], text[p], Ran1(p), i) /\ OnTime(pcb[p], Ran1(p), i),
             Paged(load_PAGE(s, curr, page))
      PROVE  Faulted(list)
  <2>1. PICK st : st = load_PAGE(s, curr, l)
    OBVIOUS
  <2>2. frames' = st.fr /\ pcb' = st.pcb /\ lru' = <<<<curr, page>>>> \o st.lru
    BY <1>2, <1>6, <2>1 DEF Paged
  <2>3. 0 \notin Live
    BY <1>1 DEF IInv, QueueIntegrity, TypeOK, Pids
  <2>4. /\ st.lru = s.lru /\ Stored(st.fr, st.pcb, <<<<curr, l>>>> \o list, text)
        /\ ReadTo(st.pcb[curr], t, e, l + 1) /\ Differs(s.pcb, st.pcb, curr, l)
    <3>1. text[curr] \in Seq(Lines) /\ l < s.pcb[curr].page_table_size /\ ReadTo(s.pcb[curr], text[curr], e, l)
      BY <1>2, <1>3, <1>6
    <3>2. LoadsOn(Live, Pids, s, curr, list, text, e, l, st)
      BY <3>1, <1>1, <1>2, <1>3, <1>6, <2>1, <2>3, Zenon DEF LoadsOn
    <3>3. ReadTo(st.pcb[curr], text[curr], e, l + 1)
      BY <3>2, LoadKeeps
    <3> QED
      BY <3>2, <3>3, <1>3, LoadKeeps
  <2>5. DOMAIN s.pcb = Live
    BY <1>6 DEF States
  <2>6. ASSUME NEW p \in Live, p # curr
        PROVE  \E i \in 0..pcb[p].page_table_size :
                 ReadTo(pcb'[p], text[p], Ran1(p), i) /\ OnTime(pcb[p], Ran1(p), i)
    <3>1. PICK i \in 0..pcb[p].page_table_size : ReadTo(s.pcb[p], text[p], Ran1(p), i) /\ OnTime(pcb[p], Ran1(p), i)
      BY <1>6, <2>6
    <3>2. ReadTo(st.pcb[p], text[p], Ran1(p), i)
      BY <3>1, <2>4, <2>5, <2>6, OthersRead
    <3> QED
      BY <3>1, <3>2, <2>2
  <2>7. \A i \in Nat : page = i => ReadTo(pcb'[curr], text[curr], Ran1(curr), i + 1)
    BY <1>2, <1>3, <2>2, <2>4
  <2>8. Stored(frames', pcb', lru', text)
    BY <1>2, <1>6, <2>2, <2>4
  <2>9. lru' = <<<<curr, page>>>> \o list
    BY <1>6, <2>2, <2>4
  <2> QED
    <3>1. \A p \in Live : pcb'[p].page_table_size = pcb[p].page_table_size
      BY <1>5
    <3>2. Live' = Live /\ queue' = Append(others, curr) /\ cpu' = [at |-> "first", pid |-> 0]
      BY <1>1, <1>5
    <3> QED
      BY <3>1, <3>2, <1>6, <2>6, <2>7, <2>8, <2>9, Zenon DEF Faulted
<1>7. ASSUME NEW p \in Live PROVE \E i \in 0..pcb[p].page_table_size :
                ReadTo(pcb[p], text[p], Ran1(p), i) /\ OnTime(pcb[p], Ran1(p), i)
  BY DEF PlainIInv, Follows
<1>8. CASE Spaces(frames) # {}
  <2>1. PICK s : s = [fr |-> frames, pcb |-> pcb, lru |-> lru, ok |-> TRUE]
    OBVIOUS
  <2>2. s \in States(Live, Pids) /\ s.fr = frames /\ s.pcb = pcb /\ s.lru = lru /\ Stored(s.fr, s.pcb, lru, text)
    BY <1>4, <2>1, StateHere
  <2>3. Paged(load_PAGE(s, curr, page))
    BY <1>1, <1>8, <2>1, PageInLoads
  <2> QED
    BY <1>2, <1>3, <1>4, <1>6, <1>7, <1>8, <2>2, <2>3
<1>9. CASE Spaces(frames) = {}
  <2>1. PICK list : list = Front(lru)
    OBVIOUS
  <2>2. /\ list \in Seq(Live \X Nat) /\ Range(list) \subseteq Range(lru)
        /\ \A pg : UpTo(list, pg) \subseteq UpTo(lru, pg)
    BY <1>4, <2>1, DropLast, UpToFront
  <2>3. PICK s : s = [fr |-> frames, pcb |-> pcb, lru |-> list, ok |-> TRUE]
    OBVIOUS
  <2>4. s \in States(Live, Pids) /\ s.fr = frames /\ s.pcb = pcb /\ s.lru = list /\ Stored(s.fr, s.pcb, lru, text)
        /\ 0 \notin Live /\ DOMAIN pcb = Live
    BY <2>2, <2>3, StateHere
  <2>5. PICK pg : pg = Last(lru) /\ pg \in Range(lru)
    BY <1>4, DropLast
  <2>6. PICK q, k : q = pg[1] /\ k = pg[2] /\ pg = <<q, k>> /\ q \in Live /\ k \in Nat
    BY <2>5, ListedPage
  <2>7. ~ToRun(q, k)
    BY <1>1, <1>9, <2>5, <2>6, VictimDone
  <2>8. PICK f, u : f \in Nat /\ f = Ran1(q) /\ u = text[q] /\ (3 * k + 3 <= f \/ f = Len(u))
    <3>1. q \in Pids
      BY <1>1, <2>6 DEF IInv, QueueIntegrity, TypeOK
    <3>2. PICK f \in Nat, n \in Nat : f = Ran1(q) /\ n = Len(text[q]) /\ f <= n
      BY <3>1, TextFacts
    <3>3. 3 * k + 3 <= f \/ f = n
      BY <2>6, <2>7, <3>2 DEF ToRun
    <3> QED
      BY <3>2, <3>3
  <2>9. PICK i \in 0..pcb[q].page_table_size : ReadTo(pcb[q], u, f, i) /\ OnTime(pcb[q], f, i)
                                               /\ (q = curr => i = l)
    <3>1. CASE q = curr
      <4>1. OnTime(pcb[curr], e, l)
        BY <1>2, <1>3 DEF Running
      <4>2. pcb[curr].page_table_size \in Nat
        BY <1>1, PCBFields DEF IInv, Counted, Live
      <4>3. l \in 0..pcb[curr].page_table_size
        BY <4>2, <1>2
      <4> QED
        BY <3>1, <4>1, <4>3, <1>2, <1>3, <2>8
    <3>2. CASE q # curr
      BY <3>2, <1>7, <2>6, <2>8
    <3> QED
      BY <3>1, <3>2
  <2>10. i \in Nat
    <3>1. pcb[q].page_table_size \in Nat
      BY <1>1, <2>6, PCBFields DEF IInv, Counted, Live
    <3> QED
      BY <3>1, <2>9
  <2>11. PICK st : st = PAGE_evict(s, q, k)
    OBVIOUS
  <2>12. /\ st \in States(Live, Pids) /\ st.lru = s.lru /\ k \in DOMAIN s.pcb[q].page_table
         /\ Stored(st.fr, st.pcb, list, text) /\ ReadTo(st.pcb[q], u, f, i)
         /\ Differs(s.pcb, st.pcb, q, k) /\ Spaces(st.fr) # {}
    <3>1. ReadTo(s.pcb[q], text[q], f, i) /\ (3 * k + 3 <= f \/ f = Len(text[q])) /\ Last(lru) = <<q, k>>
      BY <2>4, <2>5, <2>6, <2>8, <2>9
    <3>2. EvictsOn(Live, Pids, s, lru, text, q, k, f, i, st)
      BY <3>1, <1>4, <2>4, <2>8, <2>10, <2>11, Zenon DEF EvictsOn
    <3>3. Stored(st.fr, st.pcb, Front(lru), text) /\ ReadTo(st.pcb[q], text[q], f, i)
      BY <3>2, EvictKeeps
    <3> QED
      BY <3>2, <3>3, <2>1, <2>8, EvictKeeps
  <2>13. ASSUME NEW p \in Live, NEW v, NEW m, NEW j, p # q, ReadTo(pcb[p], v, m, j) PROVE ReadTo(st.pcb[p], v, m, j)
    BY <2>4, <2>12, <2>13, OthersRead
  <2>14. ReadTo(st.pcb[curr], t, e, l)
    BY <1>1, <1>2, <1>3, <2>8, <2>9, <2>12, <2>13
  <2>15. ASSUME NEW p \in Live, p # curr
         PROVE  \E j \in 0..pcb[p].page_table_size : ReadTo(st.pcb[p], text[p], Ran1(p), j) /\ OnTime(pcb[p], Ran1(p), j)
    BY <1>7, <2>8, <2>9, <2>12, <2>13
  <2>16. st.pcb[curr].page_table_size = pcb[curr].page_table_size
    BY <1>1, <2>4, <2>12 DEF Differs, OnePage
  <2>17. Paged(load_PAGE(st, curr, page))
    BY <1>1, <1>9, <2>1, <2>3, <2>5, <2>6, <2>11, PageInEvicts
  <2> QED
    BY <1>6, <2>2, <2>4, <2>12, <2>14, <2>15, <2>16, <2>17
<1> QED
  BY <1>8, <1>9

\* What stays of the texts, of the space for starting pages and of what the
\* processes outside a turn have run, when a turn leaves them alone.
LEMMA SameTexts ==
    ASSUME PlainIInv, text' = text, executed' = executed, pid_counter' = pid_counter, Live' = Live
    PROVE  Texts' /\ \A p : Ran1(p)' = Ran1(p)
<1>1. Texts' <=> Texts
  BY DEF Texts, Ran1, Pids
<1> QED
  BY <1>1 DEF PlainIInv, Ran1

\* The starting pages are the same when the page tables have their sizes.
LEMMA SameStarters ==
    ASSUME PlainIInv, Live' = Live, \A p \in Live : pcb'[p].page_table_size = pcb[p].page_table_size
    PROVE  Enough'
<1>1. Starters' = Starters
  BY DEF Starters
<1> QED
  BY <1>1 DEF PlainIInv, Enough

\* After a page fault the process waits with the others.
LEMMA FaultQueue ==
    ASSUME PlainIInv, page_fault
    PROVE  /\ Waiting' = Range(others) \cup {curr} /\ cpu'.at = "first" /\ cpu'.pid = 0
           /\ \A p, q : Ahead(p, q)' <=> Before(Append(others, curr), p, q)
           /\ \A p, q : Ahead(p, q)' => p \in Range(others) /\ q \in Waiting'
           /\ \A p, q : Ahead(p, q)' /\ q # curr => Ahead(p, q) /\ p \in Range(others) /\ p # curr
<1>1. InTurn /\ IInv
  BY DEF PlainIInv, page_fault
<1>2. PICK list : Faulted(list)
  BY FaultStep
<1>3. queue' = Append(others, curr) /\ cpu' = [at |-> "first", pid |-> 0]
  BY <1>2 DEF Faulted
<1>4. others \in Seq(Live) /\ curr \in Live /\ curr \notin Range(others) /\ Distinct(others)
  BY <1>1, TurnFacts
<1>5. Waiting' = Range(others) \cup {curr}
  BY <1>3, <1>4, AddTail DEF Waiting, Range
<1>6. \A p, q : Ahead(p, q)' <=> Before(Append(others, curr), p, q)
  BY <1>3 DEF Ahead, Before
<1>7. ASSUME NEW p, NEW q, Before(Append(others, curr), p, q)
      PROVE  p \in Range(others) /\ q \in Waiting' /\ (q # curr => Ahead(p, q) /\ p # curr)
  <2>1. p \in Range(others) /\ (Before(others, p, q) \/ q = curr)
    BY <1>4, <1>7, BeforeAppend
  <2>2. Before(others, p, q) => Ahead(p, q) /\ q \in Range(others)
    BY <1>1, TurnOrder, BeforeInside
  <2> QED
    BY <2>1, <2>2, <1>4, <1>5
<1> QED
  BY <1>3, <1>5, <1>6, <1>7

\* The processes are in step after a page fault: all have run six lines.
LEMMA FaultInStep == PlainIInv /\ page_fault => InStep'
<1> SUFFICES ASSUME PlainIInv, page_fault PROVE InStep'
  OBVIOUS
<1>1. InTurn /\ pcb[curr].size > 0 /\ ~valid_bit
  BY DEF page_fault
<1>2. \A p \in Range(others) \cup {curr} : Early(p) = 6 /\ Ran1(p) >= 6 /\ Ran1(p) \in Nat
  <2>1. curr \in Pids
    BY <1>1, TurnFacts DEF PlainIInv
  <2> QED
    BY <2>1, <1>1, FaultLate, OthersBegun, TextFacts
<1>3. \A p : Ran1(p)' = Ran1(p)
  BY DEF page_fault, Ran1
<1>4. cpu'.at = "first" /\ cpu'.pid = 0 /\ Waiting' = Range(others) \cup {curr}
  BY FaultQueue
<1>5. ASSUME NEW p \in Range(others) \cup {curr} PROVE Early(p)' = 6
  <2>1. PICK f \in Nat : f = Ran1(p) /\ f >= 6
    BY <1>2
  <2>2. Begun(p)' = f
    BY <2>1, <1>3, <1>4 DEF Begun
  <2>3. ~(f < 6)
    BY <2>1
  <2> QED
    BY <2>2, <2>3 DEF Early
<1>6. \A p, q : Ahead(p, q)' => p \in Waiting' /\ q \in Waiting'
  BY <1>4, FaultQueue
<1>7. ASSUME NEW p, NEW q, Ahead(p, q)' PROVE Early(p)' <= Early(q)' /\ Early(q)' <= Early(p)' + 2
  <2>1. Early(p)' = 6 /\ Early(q)' = 6
    BY <1>4, <1>5, <1>6, <1>7
  <2> QED
    BY <2>1
<1>8. (Waiting \cup ({cpu.pid} \ {0}))' = Range(others) \cup {curr}
  BY <1>4
<1> QED
  BY <1>5, <1>7, <1>8 DEF InStep

\* A page that was listed and has a line to run is not of the process that
\* meets a page fault, and not the page that is brought in.
LEMMA FaultPages ==
    ASSUME PlainIInv, page_fault, NEW pg \in Range(lru)
    PROVE  pg # <<curr, page>> /\ (pg[1] = curr => pg[2] < page /\ ~ToRun(pg[1], pg[2]))
<1>1. InTurn /\ pcb[curr].size > 0 /\ ~valid_bit
  BY DEF page_fault
<1>2. PICK l \in Nat : Running(l) /\ page = l /\ Ran1(curr) = 3 * l
  BY <1>1, RunFacts DEF Running
<1>3. PICK k : k = pg[2] /\ k \in Nat /\ k \in DOMAIN pcb[pg[1]].page_table /\ pcb[pg[1]].page_table[k].valid_bit[0]
  BY ListedPage
<1>4. ASSUME pg[1] = curr PROVE k < l
  <2>1. CASE k >= l
    <3>1. pcb[curr].page_table[k] = PAGE_init
      BY <2>1, <1>2, <1>3, <1>4, Zenon DEF Running, ReadTo
    <3> QED
      BY <3>1, <1>3, <1>4 DEF PAGE_init
  <2> QED
    BY <2>1, <1>2, <1>3
<1>5. ASSUME pg[1] = curr PROVE ~ToRun(pg[1], pg[2])
  <2>1. k < l /\ Ran1(curr) = 3 * l
    BY <1>2, <1>4, <1>5
  <2>2. ~(3 * l < 3 * k + 3)
    BY <2>1, <1>2, <1>3
  <2> QED
    BY <2>1, <2>2, <1>3, <1>5 DEF ToRun
<1>6. pg # <<curr, page>>
  <2>1. CASE pg = <<curr, page>>
    <3>1. k = l /\ k < l
      BY <2>1, <1>2, <1>3, <1>4
    <3> QED
      BY <3>1, <1>2
  <2> QED
    BY <2>1
<1> QED
  BY <1>2, <1>3, <1>4, <1>5, <1>6

\* Since a process that waits used its page, the process that meets the page
\* fault has used the page before the one it brings in at most.
LEMMA FaultRecent ==
    ASSUME PlainIInv, page_fault, NEW q \in Range(others), NEW pg, Recent(pg, q),
           NEW z \in UpTo(lru, pg), z[1] = curr, page \in Nat
    PROVE  (z[2] % 2) # (page % 2)
<1>1. InTurn /\ pcb[curr].size > 0 /\ ~valid_bit /\ IInv
  BY DEF page_fault, PlainIInv
<1>2. PICK l \in Nat : Running(l) /\ page = l /\ Ran1(curr) = 3 * l /\ l >= 2
  BY <1>1, RunFacts DEF Running
<1>3. Ahead(z[1], q)
  BY <1>1, TurnOrder
<1>4. z[2] = (Ran1(z[1]) - 1) \div 3
  BY <1>3 DEF Recent
<1>5. z[2] = l - 1
  BY <1>2, <1>4, Parity
<1> QED
  BY <1>2, <1>5, Parity

\* Page replacement by age: what a page fault does to it.
LEMMA FaultUsedLately == PlainIInv /\ page_fault => UsedLately'
<1> SUFFICES ASSUME PlainIInv, page_fault PROVE UsedLately'
  OBVIOUS
<1>1. InTurn /\ pcb[curr].size > 0 /\ ~valid_bit /\ IInv /\ text' = text
  BY DEF page_fault, PlainIInv
<1>2. curr \in Live /\ curr \notin Range(others)
  BY <1>1, TurnFacts
<1>3. \A p : Ran1(p)' = Ran1(p)
  BY DEF page_fault, Ran1
<1>4. PICK list : Faulted(list)
  BY FaultStep
<1>5. PICK y : y = <<curr, page>> /\ y[1] = curr /\ y[2] = page /\ y \in Live \X Nat /\ page \in Nat
  <2>1. PICK c, k : c = curr /\ k = page /\ c \in Live /\ k \in Nat
    BY <1>1, <1>2, PageFacts
  <2>2. <<c, k>> \in Live \X Nat
    BY <2>1
  <2> QED
    BY <2>1, <2>2
<1>6. /\ list \in Seq(Live \X Nat) /\ Range(list) \subseteq Range(lru) /\ lru' = <<y>> \o list
      /\ \A pg : UpTo(list, pg) \subseteq UpTo(lru, pg)
  BY <1>4, <1>5 DEF Faulted
<1>7. y \notin Range(list)
  BY <1>5, <1>6, FaultPages
<1>8. /\ UpTo(lru', y) \subseteq {y} /\ Range(lru') = Range(list) \cup {y}
      /\ \A pg : pg # y => UpTo(lru', pg) \subseteq UpTo(lru, pg) \cup {y}
  <2>0. PICK S : list \in Seq(S) /\ y \in S
    BY <1>5, <1>6
  <2>1. /\ UpTo(<<y>> \o list, y) \subseteq {y}
        /\ \A pg : pg # y => UpTo(<<y>> \o list, pg) \subseteq UpTo(list, pg) \cup {y}
    BY <2>0, <1>7, UpToHead
  <2>2. Range(<<y>> \o list) = Range(list) \cup {y}
    BY <2>0, AddHead
  <2> QED
    BY <1>6, <2>1, <2>2
<1>9. ASSUME NEW pg \in Range(lru'), pg[1] \in Waiting', Ran1(pg[1]) >= 4, ToRun(pg[1], pg[2])
      PROVE  Recent(pg, pg[1])'
  <2>1. CASE pg = y
    <3>1. UpTo(lru', pg) \subseteq {y}
      BY <2>1, <1>8
    <3>2. PICK c : c = curr /\ c = y[1]
      BY <1>5
    <3>3. ~Ahead(c, c)'
      BY <1>2, <3>2, FaultQueue
    <3> QED
      BY <3>1, <3>2, <3>3, <2>1 DEF Recent
  <2>2. CASE pg # y
    <3>1. pg \in Range(lru)
      BY <2>2, <1>6, <1>8, <1>9
    <3>2. pg[1] # curr
      BY <3>1, <1>9, FaultPages
    <3>3. PICK q : q = pg[1] /\ q \in Range(others) /\ q # curr
      BY <3>2, <1>9, FaultQueue
    <3>4. q \in Waiting
      BY <3>3, <1>1, OthersBegun
    <3>5. Recent(pg, q)
      BY <3>1, <3>3, <3>4, <1>9 DEF PlainIInv, UsedLately
    <3>6. UpTo(lru', pg) \subseteq UpTo(lru, pg) \cup {y}
      BY <2>2, <1>8
    <3>7. ASSUME NEW z \in UpTo(lru, pg), z[1] = curr PROVE (z[2] % 2) # (y[2] % 2)
      BY <3>3, <3>5, <3>7, <1>5, FaultRecent
    <3>8. ASSUME NEW x \in UpTo(lru', pg), NEW z \in UpTo(lru', pg), x[1] = z[1], (x[2] % 2) = (z[2] % 2)
          PROVE  x = z
      <4>1. CASE x = y
        BY <4>1, <3>6, <3>7, <3>8, <1>5
      <4>2. CASE z = y
        BY <4>2, <3>6, <3>7, <3>8, <1>5
      <4>3. CASE x # y /\ z # y
        <5>1. x \in UpTo(lru, pg) /\ z \in UpTo(lru, pg)
          BY <4>3, <3>6
        <5> QED
          BY <5>1, <3>5, <3>8 DEF Recent
      <4> QED
        BY <4>1, <4>2, <4>3
    <3>9. ASSUME NEW x \in UpTo(lru', pg), Ahead(x[1], q)' PROVE FALSE
      <4>1. Ahead(x[1], q) /\ x[1] # curr
        BY <3>3, <3>9, FaultQueue
      <4>2. x \in UpTo(lru, pg)
        BY <4>1, <3>6, <1>5
      <4>3. cpu.at = "second" /\ x[1] = cpu.pid
        BY <4>1, <4>2, <3>5 DEF Recent
      <4> QED
        BY <4>1, <4>3 DEF curr
    <3> QED
      BY <3>3, <3>8, <3>9 DEF Recent
  <2> QED
    BY <2>1, <2>2
<1>10. \A p, k : ToRun(p, k)' <=> ToRun(p, k)
  BY <1>1, <1>3 DEF ToRun
<1> QED
  BY <1>3, <1>9, <1>10 DEF UsedLately

\* Every process is where it was in its script, its file read on for the one
\* that met the page fault.
LEMMA FaultFollows ==
    ASSUME PlainIInv, page_fault, NEW p \in Live
    PROVE  Follows(p)'
<1>1. PICK list : Faulted(list)
  BY FaultStep
<1>2. InTurn /\ pcb[curr].size > 0 /\ ~valid_bit /\ IInv /\ text' = text /\ Ran1(p)' = Ran1(p) /\ executed' = executed
  BY DEF page_fault, PlainIInv, Ran1
<1>3. pcb'[p].page_table_size = pcb[p].page_table_size
  BY <1>1 DEF Faulted
<1>4. CASE p # curr
  <2>1. PICK l \in 0..pcb[p].page_table_size : ReadTo(pcb'[p], text[p], Ran1(p), l) /\ OnTime(pcb[p], Ran1(p), l)
    BY <1>1, <1>4 DEF Faulted
  <2>2. OnTime(pcb'[p], Ran1(p), l)
    BY <2>1, <1>3 DEF OnTime
  <2> QED
    BY <2>1, <2>2, <1>2, <1>3 DEF Follows
<1>5. CASE p = curr
  <2>1. PICK l \in Nat : page = l /\ l < pcb[curr].page_table_size /\ Ran1(curr) = 3 * l /\ l >= 2
    BY <1>2, RunFacts DEF Running
  <2>2. ReadTo(pcb'[p], text[p], Ran1(p), l + 1)
    BY <2>1, <1>1, <1>5 DEF Faulted
  <2>3. PICK n \in Nat : n = pcb[curr].page_table_size
    BY <1>2, <1>5, PCBFields DEF IInv, Counted, Live
  <2>4. l + 1 \in 0..n /\ 3 * l <= 3 * (l + 1) /\ l + 1 >= 2 /\ (l + 1 > 2 => 3 * ((l + 1) - 1) <= 3 * l)
    BY <2>1, <2>3
  <2>5. OnTime(pcb'[p], 3 * l, l + 1)
    BY <2>4 DEF OnTime
  <2> QED
    BY <2>1, <2>2, <2>3, <2>4, <2>5, <1>2, <1>3, <1>5 DEF Follows
<1> QED
  BY <1>4, <1>5

\* page_fault keeps the invariant.
LEMMA FaultPlain == PlainIInv /\ page_fault => PlainIInv'
<1> SUFFICES ASSUME PlainIInv, page_fault PROVE PlainIInv'
  OBVIOUS
<1>1. PICK list : Faulted(list)
  BY FaultStep
<1>2. IInv'
  BY PageFaultIInv DEF PlainIInv
<1>3. Live' = Live /\ \A p \in Live : pcb'[p].page_table_size = pcb[p].page_table_size
  BY <1>1 DEF Faulted
<1>4. text' = text /\ executed' = executed /\ pid_counter' = pid_counter
  BY DEF page_fault
<1>5. Texts' /\ Enough'
  BY <1>3, <1>4, SameTexts, SameStarters
<1>6. \A p \in Live' : Follows(p)'
  BY <1>3, FaultFollows
<1>7. Stored(frames, pcb, lru, text)'
  BY <1>1, <1>4 DEF Faulted
<1>8. cpu'.at # "prompt"
  BY FaultQueue
<1> QED
  BY <1>2, <1>5, <1>6, <1>7, <1>8, FaultInStep, FaultUsedLately DEF PlainIInv

-----------------------------------------------------------------------------
(* cpu_run.                                                                *)

\* cpu_run of a line of a plain script: e lines have been run before it, it is
\* on page k, and the file has been read up to page l.
RunsOn(e, k, l) ==
    /\ e = Ran1(curr) /\ k = page /\ Running(l) /\ l \in 0..pcb[curr].page_table_size
    /\ e \in Nat /\ k \in Nat /\ l \in Nat /\ 3 * k <= e /\ e < 3 * k + 3 /\ k < l
    /\ e < Len(text[curr])
    /\ line = text[curr][e + 1] /\ <<curr, page>> \in Range(lru)
    /\ IInv /\ InTurn /\ pcb[curr].size > 0 /\ valid_bit /\ curr \in Live /\ curr \in Pids
    /\ pcb' = Ran /\ Touch /\ text' = text /\ frames' = frames /\ pid_counter' = pid_counter
    /\ executed' = [executed EXCEPT ![curr] = Append(@, line)]
    /\ queue' = IF cpu.at = "second" THEN Append(others, curr) ELSE others
    /\ cpu' = IF cpu.at = "first" /\ pcb[curr].size > 1 THEN [at |-> "second", pid |-> curr]
              ELSE [at |-> "first", pid |-> 0]

\* There is such a case in every cpu_run.
LEMMA RunStep ==
    ASSUME PlainIInv, cpu_run
    PROVE  \E e, k, l : RunsOn(e, k, l)
<1>1. InTurn /\ pcb[curr].size > 0 /\ valid_bit /\ IInv
  BY DEF PlainIInv, cpu_run
<1>2. PICK l \in 0..pcb[curr].page_table_size : Running(l)
  BY <1>1, RunFacts
<1>3. PICK e, k : e = Ran1(curr) /\ k = page
  OBVIOUS
<1>4. page < l
  BY <1>1, <1>2, Zenon DEF Running
<1>5. /\ e \in Nat /\ k \in Nat /\ l \in Nat /\ 3 * k <= e /\ e < 3 * k + 3 /\ k < l
      /\ e < Len(text[curr]) /\ line = text[curr][e + 1] /\ <<curr, page>> \in Range(lru)
  BY <1>2, <1>3, <1>4, Zenon DEF Running
<1>6. curr \in Live /\ curr \in Pids
  BY <1>1, TurnFacts
<1>7. /\ pcb' = Ran /\ Touch /\ text' = text /\ frames' = frames /\ pid_counter' = pid_counter
      /\ executed' = [executed EXCEPT ![curr] = Append(@, line)]
      /\ queue' = (IF cpu.at = "second" THEN Append(others, curr) ELSE others)
      /\ cpu' = (IF cpu.at = "first" /\ pcb[curr].size > 1 THEN [at |-> "second", pid |-> curr]
                 ELSE [at |-> "first", pid |-> 0])
  BY DEF cpu_run, Executed
<1>8. RunsOn(e, k, l)
  BY <1>1, <1>2, <1>3, <1>5, <1>6, <1>7, Zenon DEF RunsOn
<1> QED
  BY <1>8

\* remove_elem finds just the page that was used: no other is at its place.
LEMMA TouchPlain ==
    ASSUME PlainIInv, NEW e, NEW k, NEW l, RunsOn(e, k, l), NEW y, y = <<curr, page>>
    PROVE  /\ lru' \in Seq(Live \X Nat) /\ Range(lru') = Range(lru) /\ Distinct(lru') /\ Len(lru') = Len(lru)
           /\ UpTo(lru', y) \subseteq {y}
           /\ \A pg : pg # y => UpTo(lru', pg) \subseteq UpTo(lru, pg) \cup {y}
<1>1. IInv /\ InTurn /\ pcb[curr].size > 0 /\ valid_bit /\ Touch /\ y \in Range(lru)
  BY DEF RunsOn
<1>2. lru' \in Seq(Live \X Nat) /\ Range(lru') = Range(lru)
  BY <1>1, TouchFacts
<1>3. lru \in Seq(Live \X Nat) /\ Distinct(lru) /\ DOMAIN lru \subseteq Nat
  <2>1. lru \in Seq(Live \X Nat)
    BY <1>1 DEF IInv, QueueIntegrity, TypeOK
  <2>2. DOMAIN lru = 1..Len(lru) /\ Len(lru) \in Nat
    BY <2>1, LenProperties
  <2> QED
    BY <2>1, <2>2 DEF PlainIInv, Stored, Distinct
<1> DEFINE Position(pg) == pcb[pg[1]].page_table[pg[2]].index[0]
           S == {n \in DOMAIN lru : Position(lru[n]) = Position(<<curr, page>>)}
           m == Lowest(S)
<1>4. PICK n \in DOMAIN lru : lru[n] = y
  BY <1>1 DEF Range
<1>5. n \in S
  BY <1>4
<1>6. m \in S
  <2> HIDE DEF S
  <2>0. S \subseteq Nat
    BY <1>3 DEF S
  <2>1. \E x \in S : \A z \in S : x <= z
    BY <1>5, <2>0, LeastNat
  <2> QED
    BY <2>1, Zenon DEF Lowest
<1>7. PICK i \in DOMAIN lru : i = m /\ lru[i] = y
  <2>1. m \in DOMAIN lru /\ Base(pcb, lru[m]) = Base(pcb, y)
    BY <1>6 DEF Base
  <2>2. lru[m] \in Range(lru)
    BY <2>1 DEF Range
  <2> QED
    BY <2>1, <2>2, <1>1 DEF PlainIInv, Stored
<1>8. lru' = <<y>> \o RemoveAt(lru, i)
  <2>1. lru' = <<lru[m]>> \o RemoveAt(lru, m)
    BY <1>1, Zenon DEF Touch
  <2> HIDE DEF m
  <2> QED
    BY <2>1, <1>7
<1>9. PICK u : u = RemoveAt(lru, i)
  OBVIOUS
<1>10. /\ u \in Seq(Live \X Nat) /\ Distinct(u) /\ y \notin Range(u) /\ Len(u) + 1 = Len(lru)
       /\ \A pg : UpTo(u, pg) \subseteq UpTo(lru, pg)
  <2>1. PICK T : T = Live \X Nat
    OBVIOUS
  <2>2. PICK s : s = lru /\ s \in Seq(T) /\ Distinct(s) /\ i \in DOMAIN s /\ s[i] = y /\ u = RemoveAt(s, i)
    BY <1>3, <1>7, <1>9, <2>1
  <2>3. /\ u \in Seq(T) /\ Distinct(u) /\ s[i] \notin Range(u) /\ Len(u) + 1 = Len(s)
        /\ \A pg : UpTo(u, pg) \subseteq UpTo(s, pg)
    BY <2>2, RemoveDistinct
  <2> QED
    BY <2>1, <2>2, <2>3
<1>11. PICK T : u \in Seq(T) /\ y \in T
  <2>1. y \in Live \X Nat
    BY <1>1, <1>3, RangeInside
  <2> QED
    BY <2>1, <1>10
<1>12. /\ UpTo(<<y>> \o u, y) \subseteq {y}
       /\ \A pg : pg # y => UpTo(<<y>> \o u, pg) \subseteq UpTo(u, pg) \cup {y}
  BY <1>10, <1>11, UpToHead
<1>13. Distinct(<<y>> \o u) /\ Len(<<y>> \o u) = Len(u) + 1
  BY <1>10, <1>11, HeadDistinct
<1> QED
  BY <1>2, <1>8, <1>9, <1>10, <1>12, <1>13

\* What has been run of the scripts after the line.
LEMMA RunTexts ==
    ASSUME PlainIInv, NEW e, NEW k, NEW l, RunsOn(e, k, l)
    PROVE  /\ Texts' /\ Live' = Live
           /\ \A p \in Pids : (Ran1(p))' = IF p = curr THEN e + 1 ELSE Ran1(p)
<1>1. /\ curr \in Live /\ curr \in Pids /\ e \in Nat /\ e = Ran1(curr) /\ line = text[curr][e + 1]
      /\ executed' = [executed EXCEPT ![curr] = Append(@, line)]
      /\ text' = text /\ pid_counter' = pid_counter /\ pcb' = Ran /\ IInv /\ InTurn /\ pcb[curr].size > 0
  BY DEF RunsOn
<1>2. Live' = Live
  BY <1>1, PageFacts DEF Live
<1>3. /\ text \in Seq(Seq(Lines)) /\ executed \in Seq(Seq(Lines))
      /\ Len(text) = pid_counter - 1 /\ Len(executed) = pid_counter - 1
  BY DEF PlainIInv, Texts
<1>4. pid_counter - 1 \in Nat /\ DOMAIN executed = Pids
  <2>1. DOMAIN executed = Pids /\ Len(executed) \in Nat
    BY <1>3, LenProperties DEF Pids
  <2> QED
    BY <2>1, <1>3
<1>5. PICK x, t : x = executed[curr] /\ t = text[curr] /\ x \in Seq(Lines) /\ t \in Seq(Lines)
  BY <1>1, TextFacts
<1>6. PICK n \in Nat : n = Len(t) /\ e < n /\ DOMAIN t = 1..n
  <2>1. Len(t) \in Nat /\ DOMAIN t = 1..Len(t)
    BY <1>5, LenProperties
  <2>2. e < Len(t)
    BY <1>5 DEF RunsOn
  <2> QED
    BY <2>1, <2>2
<1>7. line \in Lines
  <2>1. e + 1 \in 1..n
    BY <1>1, <1>6
  <2> QED
    BY <2>1, <1>1, <1>5, <1>6, ElementOfSeq
<1>8. PICK x1 : x1 = Append(x, line)
  OBVIOUS
<1>9. x1 \in Seq(Lines) /\ Len(x1) = e + 1 /\ x1[e + 1] = line /\ \A i \in 1..e : x1[i] = x[i]
  <2>1. Len(x) = e
    BY <1>1, <1>5 DEF Ran1
  <2> QED
    BY <2>1, <1>5, <1>7, <1>8, AppendProperties
<1>10. /\ executed' \in Seq(Seq(Lines)) /\ Len(executed') = Len(executed)
       /\ executed'[curr] = x1 /\ \A p \in Pids : p # curr => executed'[p] = executed[p]
  <2>1. executed' = [executed EXCEPT ![curr] = x1]
    BY <1>1, <1>5, <1>8
  <2> QED
    BY <2>1, <1>1, <1>3, <1>4, <1>9, ExceptSeq
<1>11. \A p \in Pids : (Ran1(p))' = IF p = curr THEN e + 1 ELSE Ran1(p)
  BY <1>9, <1>10 DEF Ran1
<1>12. ASSUME NEW p \in Pids
       PROVE  /\ \E f \in DOMAIN Script : text'[p] = LinesOf(f)
              /\ Ran1(p)' <= Len(text'[p])
              /\ \A i \in 1..Ran1(p)' : executed'[p][i] = text'[p][i]
              /\ p \notin Live' => Ran1(p)' = Len(text'[p])
  <2>1. /\ \E f \in DOMAIN Script : text[p] = LinesOf(f)
        /\ Ran1(p) <= Len(text[p])
        /\ \A i \in 1..Ran1(p) : executed[p][i] = text[p][i]
        /\ p \notin Live => Ran1(p) = Len(text[p])
    BY DEF PlainIInv, Texts
  <2>2. CASE p # curr
    BY <2>1, <2>2, <1>1, <1>2, <1>10, <1>11
  <2>3. CASE p = curr
    <3>1. \A i \in 1..e : x[i] = t[i]
      BY <2>1, <2>3, <1>1, <1>5
    <3>2. \A i \in 1..(e + 1) : x1[i] = t[i]
      BY <3>1, <1>1, <1>5, <1>9
    <3>3. Ran1(p)' = e + 1 /\ e + 1 <= Len(t)
      BY <2>3, <1>1, <1>6, <1>11
    <3>4. text'[p] = t /\ executed'[p] = x1 /\ p \in Live' /\ text[p] = t
      BY <2>3, <1>1, <1>2, <1>5, <1>10
    <3> QED
      BY <3>2, <3>3, <3>4, <2>1, Zenon
  <2> QED
    BY <2>2, <2>3
<1>13. Pids' = Pids /\ Len(text') = pid_counter' - 1 /\ Len(executed') = pid_counter' - 1 /\ text' \in Seq(Seq(Lines))
  BY <1>1, <1>3, <1>10 DEF Pids
<1>14. Texts'
  BY <1>10, <1>12, <1>13 DEF Texts
<1> QED
  BY <1>2, <1>11, <1>14

\* The PCBs after the line.
LEMMA RunPCBs ==
    ASSUME PlainIInv, NEW e, NEW k, NEW l, RunsOn(e, k, l)
    PROVE  /\ Live' = Live /\ Live \subseteq Pids
           /\ \A p \in Live : /\ pcb'[p].page_table = pcb[p].page_table
                              /\ pcb'[p].page_table_size = pcb[p].page_table_size
                              /\ p # curr => pcb'[p] = pcb[p]
                              /\ p = curr => Follows(p)'
<1>1. /\ IInv /\ InTurn /\ pcb[curr].size > 0 /\ pcb' = Ran /\ curr \in Live /\ text' = text /\ curr \in Pids
      /\ e \in Nat /\ k \in Nat /\ l \in Nat /\ e = Ran1(curr) /\ 3 * k <= e /\ e < 3 * k + 3 /\ k < l /\ e < Len(text[curr])
  BY DEF RunsOn
<1>2. /\ Live' = Live /\ Live \subseteq Pids
      /\ \A p \in Live : pcb'[p].page_table = pcb[p].page_table /\ (p # curr => pcb'[p] = pcb[p])
  BY <1>1, PageFacts DEF Live, IInv, QueueIntegrity, TypeOK
<1>3. PICK c : c = pcb[curr] /\ IsPCB(c) /\ c.size > 0
  BY <1>1 DEF IInv, Counted, Live
<1>4. PICK d : d = pcb'[curr] /\ RanOne(c, d, page)
  <2>1. pcb'[curr] = [c EXCEPT !.program_counter[page] = @ + 1, !.size = @ - 1]
    BY <1>1, <1>3 DEF Ran, Live
  <2> QED
    BY <2>1 DEF RanOne
<1>5. PICK t, n : t = text[curr] /\ n = Len(t) /\ n \in Nat /\ e < n
  BY <1>1, TextFacts
<1>6. ReadTo(c, t, e, l) /\ OnTime(c, e, l)
  BY <1>1, <1>3, <1>5 DEF RunsOn, Running
<1>7. /\ HasRun(d, e + 1) /\ d.size = c.size - 1 /\ d.page_table = c.page_table
      /\ d.page_table_size = c.page_table_size
  <2>1. page = Lowest({i \in DOMAIN c.program_counter : c.program_counter[i] # 3})
    BY <1>3 DEF page
  <2>2. HasRun(c, e)
    BY <1>6 DEF ReadTo
  <2> QED
    BY <2>1, <2>2, <1>1, <1>3, <1>4, RanCounts
<1>8. d.source_file = c.source_file
  BY <1>4 DEF RanOne
<1>9. c.size \in Nat /\ c.page_table_size \in Nat /\ DOMAIN c.page_table = 0..(c.page_table_size - 1)
  BY <1>3, PCBFields
<1>10. ReadTo(d, t, e + 1, l)
  <2>1. c.size + e = n /\ c.source_file = SubSeq(t, 3 * l + 1, Len(t))
    BY <1>5, <1>6 DEF ReadTo
  <2>2. d.size + (e + 1) = n
    BY <2>1, <1>1, <1>7, <1>9
  <2>3. ASSUME NEW j \in DOMAIN c.page_table
        PROVE  IF j >= l THEN c.page_table[j] = PAGE_init
               ELSE \/ c.page_table[j].valid_bit[0]
                    \/ c.page_table[j] = Evicted /\ (3 * j + 3 <= e + 1 \/ e + 1 = n)
    <3>1. IF j >= l THEN c.page_table[j] = PAGE_init
          ELSE \/ c.page_table[j].valid_bit[0]
               \/ c.page_table[j] = Evicted /\ (3 * j + 3 <= e \/ e = n)
      BY <1>5, <1>6 DEF ReadTo
    <3>2. e # n /\ (3 * j + 3 <= e => 3 * j + 3 <= e + 1)
      BY <1>1, <1>5, <1>9
    <3> QED
      BY <3>1, <3>2, Zenon
  <2>4. \A j \in DOMAIN d.page_table :
               IF j >= l THEN d.page_table[j] = PAGE_init
               ELSE \/ d.page_table[j].valid_bit[0]
                    \/ d.page_table[j] = Evicted /\ (3 * j + 3 <= e + 1 \/ e + 1 = Len(t))
    BY <2>3, <1>5, <1>7, Zenon
  <2> QED
    BY <2>1, <2>2, <2>4, <1>5, <1>7, <1>8, Zenon DEF ReadTo
<1>11. OnTime(d, e + 1, l)
  <2>1. e <= 3 * l /\ (l = c.page_table_size \/ l >= 2) /\ (l > 2 => 3 * (l - 1) <= e)
    BY <1>6 DEF OnTime
  <2>2. e + 1 <= 3 * l /\ (l > 2 => 3 * (l - 1) <= e + 1)
    BY <2>1, <1>1
  <2> QED
    BY <2>1, <2>2, <1>7 DEF OnTime
<1>12. ASSUME NEW p \in Live, p = curr PROVE Follows(p)'
  <2>1. (Ran1(p))' = e + 1
    BY <1>1, <1>12, RunTexts
  <2>2. l \in 0..c.page_table_size
    BY <1>3 DEF RunsOn
  <2>3. /\ pcb'[p] = d /\ text'[p] = t /\ d.page_table_size = c.page_table_size
    BY <1>1, <1>4, <1>5, <1>7, <1>12
  <2> QED
    BY <2>1, <2>2, <2>3, <1>10, <1>11 DEF Follows
<1>13. \A p \in Live : pcb'[p].page_table_size = pcb[p].page_table_size
  BY <1>2, <1>3, <1>4, <1>7
<1> QED
  BY <1>2, <1>12, <1>13

\* The frames match the pages, whatever else of the PCBs changes.
LEMMA StoredSame ==
    ASSUME NEW fr, NEW procs, NEW procs1, NEW list, NEW list1, NEW txt, Stored(fr, procs, list, txt),
           DOMAIN procs1 = DOMAIN procs, \A p \in DOMAIN procs : procs1[p].page_table = procs[p].page_table,
           Range(list1) = Range(list), Distinct(list1), Len(list1) = Len(list)
    PROVE  Stored(fr, procs1, list1, txt)
<1>1. PagesIn(procs1) = PagesIn(procs)
  BY DEF PagesIn
<1>2. \A pg \in Range(list) : procs1[pg[1]].page_table = procs[pg[1]].page_table /\ Base(procs1, pg) = Base(procs, pg)
  <2> SUFFICES ASSUME NEW pg \in Range(list)
               PROVE  procs1[pg[1]].page_table = procs[pg[1]].page_table /\ Base(procs1, pg) = Base(procs, pg)
    OBVIOUS
  <2>1. pg[1] \in DOMAIN procs
    BY ListedIn
  <2>2. procs1[pg[1]].page_table = procs[pg[1]].page_table
    BY <2>1
  <2> QED
    BY <2>2, Zenon DEF Base
<1>3. \A pg, t, a : pg \in Range(list) /\ InFrame(fr, procs, pg, t, a) => InFrame(fr, procs1, pg, t, a)
  BY <1>2 DEF InFrame
<1>4. \A pg \in Range(list1) : \E a \in FrameSlots : InFrame(fr, procs1, pg, txt[pg[1]], a)
  BY <1>3 DEF Stored
<1>5. \A pg, qg \in Range(list1) : Base(procs1, pg) = Base(procs1, qg) => pg = qg
  BY <1>2 DEF Stored
<1>6. \A i \in Used(fr) : \E pg \in Range(list1) : \E j \in 0..2 : i = Base(procs1, pg) + j
  BY <1>2 DEF Stored
<1>7. Range(list1) = PagesIn(procs1) /\ 3 * Len(list1) = Cardinality(Used(fr))
  BY <1>1 DEF Stored
<1> QED
  BY <1>4, <1>5, <1>6, <1>7 DEF Stored, Distinct

\* The three ways cpu_run ends: between the lines of a turn, after the last
\* line of a script in the first place of a turn, and after the second line.
Second == cpu.at = "first" /\ queue' = others /\ cpu' = [at |-> "second", pid |-> curr]
Finished == cpu.at = "first" /\ queue' = others /\ cpu' = [at |-> "first", pid |-> 0]
Requeued == /\ cpu.at = "second" /\ curr = cpu.pid
            /\ queue' = Append(others, curr) /\ cpu' = [at |-> "first", pid |-> 0]

\* One of the three it is.
LEMMA RunEnds ==
    ASSUME NEW e, NEW k, NEW l, RunsOn(e, k, l)
    PROVE  Second \/ Finished \/ Requeued
<1>1. InTurn
  BY DEF RunsOn
<1>2. CASE cpu.at = "second"
  BY <1>1, <1>2 DEF RunsOn, Requeued, curr
<1>3. CASE cpu.at = "first"
  BY <1>1, <1>3 DEF RunsOn, Second, Finished
<1> QED
  BY <1>1, <1>2, <1>3 DEF InTurn

\* Who has a turn before whom after the line.
LEMMA RunOrder ==
    ASSUME PlainIInv, NEW e, NEW k, NEW l, RunsOn(e, k, l), NEW p, NEW q, Ahead(p, q)'
    PROVE  /\ (q \in Range(others) /\ Ahead(p, q)) \/ (Requeued /\ q = curr /\ p \in Range(others))
           /\ p = curr => Second
           /\ p = curr \/ p \in Range(others)
<1>1. InTurn /\ IInv
  BY DEF RunsOn
<1>2. others \in Seq(Live) /\ curr \in Live /\ curr \notin Range(others)
  BY <1>1, TurnFacts
<1>3. ASSUME Before(others, p, q) PROVE p \in Range(others) /\ q \in Range(others) /\ Ahead(p, q) /\ p # curr
  BY <1>1, <1>2, <1>3, TurnOrder, BeforeInside
<1>4. CASE Second
  <2>1. Before(others, p, q) \/ (p = curr /\ q \in Range(others))
    BY <1>4 DEF Second, Ahead, Before, Waiting, Range
  <2>2. \A r \in Range(others) : Ahead(curr, r)
    BY <1>1, TurnOrder
  <2> QED
    BY <2>1, <2>2, <1>3, <1>4
<1>5. CASE Finished
  <2>1. Before(others, p, q)
    BY <1>5 DEF Finished, Ahead, Before
  <2> QED
    BY <2>1, <1>3
<1>6. CASE Requeued
  <2>1. Before(Append(others, curr), p, q)
    BY <1>6 DEF Requeued, Ahead, Before
  <2>2. p \in Range(others) /\ (Before(others, p, q) \/ q = curr)
    BY <2>1, <1>2, BeforeAppend
  <2> QED
    BY <2>2, <1>2, <1>3, <1>6
<1> QED
  BY <1>4, <1>5, <1>6, RunEnds

\* Who waits after the line.
LEMMA RunWaiting ==
    ASSUME PlainIInv, NEW e, NEW k, NEW l, RunsOn(e, k, l)
    PROVE  Waiting' = IF Requeued THEN Range(others) \cup {curr} ELSE Range(others)
<1>1. InTurn /\ IInv
  BY DEF RunsOn
<1>2. others \in Seq(Live) /\ curr \in Live /\ curr \notin Range(others) /\ Distinct(others)
  BY <1>1, TurnFacts
<1>3. CASE Requeued
  <2>1. Range(Append(others, curr)) = Range(others) \cup {curr}
    BY <1>2, AddTail
  <2>2. Waiting' = Range(Append(others, curr))
    BY <1>3 DEF Requeued, Waiting, Range
  <2> QED
    BY <2>1, <2>2, <1>3
<1>4. CASE ~Requeued
  <2>1. queue' = others
    BY <1>4, RunEnds DEF Second, Finished
  <2> QED
    BY <2>1, <1>4 DEF Waiting, Range
<1> QED
  BY <1>3, <1>4

\* The turns of the others are as long as they were, and the one of the
\* process that ran is a line longer, or two when it is over.
LEMMA RunEarly ==
    ASSUME PlainIInv, NEW e, NEW k, NEW l, RunsOn(e, k, l), NEW p
    PROVE  /\ p \in Range(others) => (Early(p))' = Early(p)
           /\ p = curr /\ Second => (Early(p))' = Early(p)
           /\ p = curr /\ Requeued => \/ Early(p) \in {0, 2, 4} /\ (Early(p))' = Early(p) + 2
                                      \/ Early(p) = 6 /\ (Early(p))' = 6
           /\ p \in Range(others) \/ p = curr => Early(p) \in {0, 2, 4, 6}
<1>1. InTurn /\ IInv /\ curr \in Live /\ curr \in Pids /\ e \in Nat /\ e = Ran1(curr)
  BY DEF RunsOn
<1>2. curr \notin Range(others) /\ curr # 0
  BY <1>1, TurnFacts DEF Pids
<1>3. ASSUME p \in Range(others) \/ p = curr PROVE Early(p) \in {0, 2, 4, 6}
  <2>1. p \in Waiting \cup ({cpu.pid} \ {0})
    <3>1. CASE p \in Range(others)
      BY <3>1, <1>1, TurnOrder
    <3>2. CASE p = curr
      <4>1. CASE cpu.at = "second"
        BY <4>1, <3>2, <1>2 DEF curr
      <4>2. CASE cpu.at # "second"
        <5>1. queue \in Seq(Live) /\ queue # <<>> /\ curr = Head(queue)
          BY <4>2, <1>1 DEF IInv, QueueIntegrity, TypeOK, InTurn, queue_done, curr
        <5>2. Head(queue) \in Range(queue)
          BY <5>1, <1>1, PopHead DEF IInv, QueueIntegrity, Distinct
        <5> QED
          BY <5>1, <5>2, <3>2, WaitingRange
      <4> QED
        BY <4>1, <4>2
    <3> QED
      BY <3>1, <3>2, <1>3
  <2> QED
    BY <2>1 DEF PlainIInv, InStep
<1>4. ASSUME p \in Range(others) PROVE (Early(p))' = Early(p)
  <2>1. p \in Pids /\ Begun(p) = Ran1(p) /\ p # curr
    BY <1>1, <1>4, OthersBegun
  <2>2. (Ran1(p))' = Ran1(p)
    BY <2>1, RunTexts
  <2>3. cpu' = [at |-> "second", pid |-> curr] \/ cpu' = [at |-> "first", pid |-> 0]
    BY RunEnds DEF Second, Finished, Requeued
  <2>4. (Begun(p))' = Begun(p)
    BY <2>1, <2>2, <2>3 DEF Begun
  <2> QED
    BY <2>4 DEF Early
<1>5. ASSUME p = curr PROVE (Ran1(p))' = e + 1
  BY <1>1, <1>5, RunTexts
<1>6. ASSUME p = curr, Second PROVE (Early(p))' = Early(p)
  <2>1. (Begun(p))' = e + 1 - 1 /\ Begun(p) = e
    BY <1>1, <1>5, <1>6 DEF Second, Begun
  <2>2. (Begun(p))' = Begun(p)
    BY <2>1, <1>1
  <2> QED
    BY <2>2 DEF Early
<1>7. ASSUME p = curr, Requeued
      PROVE  \/ Early(p) \in {0, 2, 4} /\ (Early(p))' = Early(p) + 2
             \/ Early(p) = 6 /\ (Early(p))' = 6
  <2>1. (Begun(p))' = e + 1 /\ Begun(p) = e - 1
    BY <1>1, <1>5, <1>7 DEF Requeued, Begun
  <2>2. Early(p) = (IF e - 1 < 6 THEN e - 1 ELSE 6) /\ (Early(p))' = (IF e + 1 < 6 THEN e + 1 ELSE 6)
    BY <2>1 DEF Early
  <2>3. Early(p) \in {0, 2, 4, 6}
    BY <1>3, <1>7
  <2> QED
    BY <2>2, <2>3, <1>1
<1> QED
  BY <1>3, <1>4, <1>6, <1>7

\* The processes are in step after the line.
LEMMA RunInStep ==
    ASSUME PlainIInv, NEW e, NEW k, NEW l, RunsOn(e, k, l)
    PROVE  InStep'
<1>1. InTurn /\ IInv /\ curr \in Live /\ Range(others) \subseteq Live
  <2>1. InTurn /\ IInv
    BY DEF RunsOn
  <2> QED
    BY <2>1, TurnFacts, RangeInside
<1>2. ASSUME NEW p \in (Waiting \cup ({cpu.pid} \ {0}))' PROVE (Early(p))' \in {0, 2, 4, 6}
  <2>1. p \in Range(others) \/ (p = curr /\ (Requeued \/ Second))
    <3>1. CASE Requeued
      BY <3>1, <1>2, RunWaiting DEF Requeued
    <3>2. CASE Second
      BY <3>2, <1>2, RunWaiting DEF Requeued, Second
    <3>3. CASE Finished
      BY <3>3, <1>2, RunWaiting DEF Requeued, Finished
    <3> QED
      BY <3>1, <3>2, <3>3, RunEnds
  <2>2. CASE p \in Range(others)
    BY <2>2, RunEarly
  <2>3. CASE p = curr /\ Second
    BY <2>3, RunEarly
  <2>4. CASE p = curr /\ Requeued
    <3>1. (Early(p) \in {0, 2, 4} /\ (Early(p))' = Early(p) + 2) \/ (Early(p) = 6 /\ (Early(p))' = 6)
      BY <2>4, RunEarly
    <3> QED
      BY <3>1
  <2> QED
    BY <2>1, <2>2, <2>3, <2>4
<1>3. ASSUME NEW p, NEW q, Ahead(p, q)'
      PROVE  (Early(p))' <= (Early(q))' /\ (Early(q))' <= (Early(p))' + 2
  <2>1. CASE q \in Range(others) /\ Ahead(p, q)
    <3>1. (Early(q))' = Early(q)
      BY <2>1, RunEarly
    <3>2. (Early(p))' = Early(p) /\ p \in Live
      <4>1. (p = curr /\ Second) \/ p \in Range(others)
        BY <1>3, RunOrder
      <4> QED
        BY <4>1, <1>1, RunEarly
    <3>3. Early(p) <= Early(q) /\ Early(q) <= Early(p) + 2
      BY <2>1, <3>2, <1>1 DEF PlainIInv, InStep
    <3> QED
      BY <3>1, <3>2, <3>3
  <2>2. CASE Requeued /\ q = curr /\ p \in Range(others)
    <3>1. Ahead(q, p)
      BY <2>2, <1>1, TurnOrder
    <3>2. Early(q) <= Early(p) /\ Early(p) <= Early(q) + 2
      BY <2>2, <3>1, <1>1 DEF PlainIInv, InStep
    <3>3. (Early(p))' = Early(p) /\ Early(p) \in {0, 2, 4, 6}
      BY <2>2, RunEarly
    <3>4. (Early(q) \in {0, 2, 4} /\ (Early(q))' = Early(q) + 2) \/ (Early(q) = 6 /\ (Early(q))' = 6)
      BY <2>2, RunEarly
    <3> QED
      BY <3>2, <3>3, <3>4
  <2> QED
    BY <2>1, <2>2, <1>3, RunOrder
<1> QED
  BY <1>2, <1>3 DEF InStep

\* The page a line is on, and the page of the line before.
LEMMA Halves ==
    \A e, k \in Nat : 3 * k <= e /\ e < 3 * k + 3 =>
        /\ ((e + 1) - 1) \div 3 = k
        /\ e >= 1 => \A z \in Nat : z = (e - 1) \div 3 /\ (z % 2) = (k % 2) => z = k
  OBVIOUS

\* The process whose turn is over has no page to run but the one it is on.
LEMMA OnePageToRun ==
    ASSUME PlainIInv, NEW e, NEW k, NEW l, RunsOn(e, k, l), NEW pg \in Range(lru), pg[1] = curr,
           e + 1 >= 4, e + 1 < 3 * pg[2] + 3
    PROVE  pg[2] = k
<1>1. PICK j : j = pg[2] /\ j \in Nat /\ j \in DOMAIN pcb[curr].page_table /\ pcb[curr].page_table[j].valid_bit[0]
  BY ListedPage
<1>2. e \in Nat /\ k \in Nat /\ l \in Nat /\ 3 * k <= e /\ e < 3 * k + 3 /\ Running(l)
  BY DEF RunsOn
<1>3. j < l
  <2>1. CASE j >= l
    <3>1. pcb[curr].page_table[j] = PAGE_init
      BY <2>1, <1>1, <1>2, Zenon DEF Running, ReadTo
    <3> QED
      BY <3>1, <1>1 DEF PAGE_init
  <2> QED
    BY <2>1, <1>1, <1>2
<1>4. l > 2 => 3 * (l - 1) <= e
  <2>1. OnTime(pcb[curr], e, l)
    BY DEF RunsOn, Running
  <2> QED
    BY <2>1 DEF OnTime
<1>5. e + 1 >= 4 /\ e + 1 < 3 * j + 3
  BY <1>1
<1>6. j = k
  BY <1>1, <1>2, <1>3, <1>4, <1>5
<1> QED
  BY <1>1, <1>6

\* The ages of the pages after the line, of the page pg of a process that
\* waits and has not just run.
LEMMA RunRecent ==
    ASSUME PlainIInv, NEW e, NEW k, NEW l, RunsOn(e, k, l), NEW q \in Range(others), NEW pg, Recent(pg, q),
           NEW y, y = <<curr, k>>, y[1] = curr, y[2] = k, UpTo(lru', pg) \subseteq UpTo(lru, pg) \cup {y},
           \A z \in UpTo(lru, pg) : z = <<z[1], z[2]>> /\ z[2] \in Nat
    PROVE  (Recent(pg, q))'
<1>1. /\ InTurn /\ IInv /\ e \in Nat /\ k \in Nat /\ 3 * k <= e /\ e < 3 * k + 3 /\ e = Ran1(curr)
      /\ curr \in Live /\ curr \in Pids
  BY DEF RunsOn
<1>2. curr \notin Range(others) /\ Ahead(curr, q)
  BY <1>1, TurnFacts, TurnOrder
<1>3. ASSUME NEW z \in UpTo(lru, pg), z[1] = curr PROVE Requeued /\ z[2] = (e - 1) \div 3
  <2>1. cpu.at = "second" /\ z[1] = cpu.pid /\ z[2] = (Ran1(z[1]) - 1) \div 3
    BY <1>2, <1>3 DEF Recent
  <2>2. Requeued
    BY <2>1, RunEnds DEF Second, Finished
  <2> QED
    BY <2>1, <2>2, <1>1, <1>3
<1>4. Requeued => e >= 1
  <2>1. ASSUME Requeued PROVE e >= 1
    <3>1. Early(curr) \in {0, 2, 4, 6}
      BY RunEarly
    <3>2. Begun(curr) = e - 1
      BY <1>1, <2>1 DEF Requeued, Begun
    <3> QED
      BY <3>1, <3>2, <1>1 DEF Early
  <2> QED
    BY <2>1
<1>5. ASSUME NEW z \in UpTo(lru, pg), z[1] = curr, (z[2] % 2) = (k % 2) PROVE z = y
  <2>1. z[2] = (e - 1) \div 3 /\ e >= 1 /\ z[2] \in Nat
    BY <1>3, <1>4, <1>5
  <2>2. z[2] = k
    BY <2>1, <1>1, <1>5, Halves
  <2> QED
    BY <2>2, <1>5
<1>6. ASSUME NEW x \in UpTo(lru', pg), NEW z \in UpTo(lru', pg), x[1] = z[1], (x[2] % 2) = (z[2] % 2)
      PROVE  x = z
  <2>1. CASE x = y
    BY <2>1, <1>5, <1>6
  <2>2. CASE z = y
    BY <2>2, <1>5, <1>6
  <2>3. CASE x # y /\ z # y
    BY <2>3, <1>6 DEF Recent
  <2> QED
    BY <2>1, <2>2, <2>3
<1>7. ASSUME NEW x \in UpTo(lru', pg), (Ahead(x[1], q))'
      PROVE  cpu'.at = "second" /\ x[1] = cpu'.pid /\ x[2] = ((Ran1(x[1]))' - 1) \div 3
  <2>1. PICK p : p = x[1] /\ (Ahead(p, q))'
    BY <1>7
  <2>2. q # curr
    BY <1>2
  <2>3. Ahead(p, q) /\ (p = curr => Second) /\ (p = curr \/ p \in Range(others))
    BY <2>1, <2>2, RunOrder
  <2>4. CASE x = y
    <3>1. p = curr /\ Second
      BY <2>1, <2>3, <2>4
    <3>2. cpu'.at = "second" /\ cpu'.pid = curr
      BY <3>1 DEF Second
    <3>3. (Ran1(p))' = e + 1
      BY <3>1, <1>1, RunTexts
    <3>4. ((e + 1) - 1) \div 3 = k
      BY <1>1, Halves
    <3> QED
      BY <3>1, <3>2, <3>3, <3>4, <2>1, <2>4
  <2>5. CASE x # y
    <3>1. x \in UpTo(lru, pg)
      BY <2>5
    <3>2. cpu.at = "second" /\ x[1] = cpu.pid
      BY <3>1, <2>1, <2>3 DEF Recent
    <3>3. p = curr /\ Requeued
      BY <3>2, <2>1, RunEnds DEF Second, Finished, curr
    <3> QED
      BY <3>3, <2>3 DEF Requeued, Second
  <2> QED
    BY <2>4, <2>5
<1> QED
  BY <1>6, <1>7 DEF Recent

\* Page replacement by age: what a line does to it.
LEMMA RunUsedLately ==
    ASSUME PlainIInv, NEW e, NEW k, NEW l, RunsOn(e, k, l)
    PROVE  UsedLately'
<1>1. /\ InTurn /\ IInv /\ e \in Nat /\ k \in Nat /\ e = Ran1(curr) /\ k = page /\ curr \in Live /\ curr \in Pids
      /\ text' = text
  BY DEF RunsOn
<1>2. PICK y, c : y = <<curr, k>> /\ y[1] = curr /\ y[2] = k /\ c = curr /\ y = <<c, k>>
  OBVIOUS
<1>3. /\ Range(lru') = Range(lru) /\ UpTo(lru', y) \subseteq {y}
      /\ \A pg : pg # y => UpTo(lru', pg) \subseteq UpTo(lru, pg) \cup {y}
  <2>1. y = <<curr, page>>
    BY <1>1, <1>2
  <2> QED
    BY <2>1, TouchPlain
<1>4. curr \notin Range(others) /\ Live \subseteq Pids
  BY <1>1, TurnFacts, RunPCBs
<1>5. ASSUME NEW pg \in Range(lru'), pg[1] \in Waiting', (Ran1(pg[1]))' >= 4, (ToRun(pg[1], pg[2]))'
      PROVE  (Recent(pg, pg[1]))'
  <2>1. PICK q, j : q = pg[1] /\ j = pg[2] /\ q \in Live /\ j \in Nat
    BY <1>3, <1>5, ListedPage
  <2>2. q \in Range(others) \/ (q = curr /\ Requeued)
    BY <1>5, <2>1, RunWaiting
  <2>3. CASE q = curr /\ Requeued
    <3>1. (Ran1(q))' = e + 1
      BY <2>3, <1>1, RunTexts
    <3>2. e + 1 >= 4 /\ e + 1 < 3 * j + 3
      BY <3>1, <1>5, <2>1 DEF ToRun
    <3>3. j = k
      <4>1. pg \in Range(lru) /\ pg[1] = curr /\ e + 1 < 3 * pg[2] + 3
        BY <3>2, <2>1, <2>3, <1>3, <1>5
      <4>2. pg[2] = k
        BY <4>1, <3>2, OnePageToRun
      <4> QED
        BY <4>2, <2>1
    <3>4. pg = y
      <4>1. pg = <<pg[1], pg[2]>>
        BY <1>3, <1>5, ListedPage
      <4> QED
        BY <4>1, <3>3, <2>1, <2>3, <1>2
    <3>5. UpTo(lru', pg) \subseteq {y}
      BY <3>4, <1>3
    <3>6. ~(Ahead(c, c))'
      <4>1. SUFFICES ASSUME (Ahead(c, c))' PROVE FALSE
        OBVIOUS
      <4>2. Second
        BY <4>1, <1>2, RunOrder
      <4> QED
        BY <4>2, <2>3 DEF Second, Requeued
    <3>7. ASSUME NEW x \in UpTo(lru', pg) PROVE ~(Ahead(x[1], c))'
      <4>1. x[1] = c
        BY <3>5, <3>7, <1>2
      <4> QED
        BY <4>1, <3>6
    <3>8. pg[1] = c
      BY <2>1, <2>3, <1>2
    <3> QED
      BY <3>5, <3>7, <3>8 DEF Recent
  <2>4. CASE q \in Range(others)
    <3>1. q \in Waiting /\ q # curr /\ Ran1(q) \in Nat /\ q \in Pids
      BY <2>4, <1>1, OthersBegun
    <3>2. (Ran1(q))' = Ran1(q)
      BY <3>1, RunTexts
    <3>3. ToRun(q, j) /\ Ran1(q) >= 4
      BY <3>2, <2>1, <1>1, <1>5 DEF ToRun
    <3>4. Recent(pg, q)
      BY <3>1, <3>3, <2>1, <1>3, <1>5 DEF PlainIInv, UsedLately
    <3>5. pg # y
      BY <3>1, <2>1, <1>2
    <3>6. UpTo(lru', pg) \subseteq UpTo(lru, pg) \cup {y}
      BY <3>5, <1>3
    <3>7. ASSUME NEW z \in UpTo(lru, pg) PROVE z = <<z[1], z[2]>> /\ z[2] \in Nat
      <4>1. z \in Range(lru)
        BY DEF UpTo, Range
      <4> QED
        BY <4>1, ListedPage
    <3>8. (Recent(pg, q))'
      BY <3>4, <3>6, <3>7, <2>4, <1>2, RunRecent
    <3> QED
      BY <3>8, <2>1
  <2> QED
    BY <2>2, <2>3, <2>4
<1> QED
  BY <1>5 DEF UsedLately

\* cpu_run keeps the invariant.
LEMMA RunPlain == PlainIInv /\ cpu_run => PlainIInv'
<1> SUFFICES ASSUME PlainIInv, cpu_run PROVE PlainIInv'
  OBVIOUS
<1>1. PICK e, k, l : RunsOn(e, k, l)
  BY RunStep
<1>2. IInv'
  BY CpuRunIInv DEF PlainIInv
<1>3. /\ Live' = Live
      /\ \A p \in Live : /\ pcb'[p].page_table = pcb[p].page_table
                         /\ pcb'[p].page_table_size = pcb[p].page_table_size
                         /\ p # curr => pcb'[p] = pcb[p]
                         /\ p = curr => Follows(p)'
  BY <1>1, RunPCBs
<1>4. Texts' /\ Enough' /\ frames' = frames /\ text' = text
  <2>1. Texts' /\ frames' = frames /\ text' = text
    BY <1>1, RunTexts DEF RunsOn
  <2> QED
    BY <2>1, <1>3, SameStarters
<1>5. \A p \in Live' : Follows(p)'
  <2>1. ASSUME NEW p \in Live, p # curr PROVE Follows(p)'
    <3>1. p \in Pids
      BY <1>1, <2>1, RunPCBs
    <3>2. (Ran1(p))' = Ran1(p)
      BY <3>1, <1>1, <2>1, RunTexts
    <3>3. pcb'[p] = pcb[p] /\ Follows(p)
      BY <1>3, <2>1 DEF PlainIInv
    <3> QED
      BY <3>2, <3>3, <1>4 DEF Follows
  <2> QED
    BY <2>1, <1>3
<1>6. Stored(frames, pcb, lru, text)'
  <2>1. Range(lru') = Range(lru) /\ Distinct(lru') /\ Len(lru') = Len(lru)
    BY <1>1, TouchPlain
  <2>2. DOMAIN pcb' = DOMAIN pcb /\ \A p \in DOMAIN pcb : pcb'[p].page_table = pcb[p].page_table
    BY <1>3 DEF Live
  <2>3. Stored(frames, pcb', lru', text)
    BY <2>1, <2>2, StoredSame DEF PlainIInv
  <2> QED
    BY <2>3, <1>4
<1>7. cpu'.at # "prompt"
  BY <1>1, RunEnds DEF Second, Finished, Requeued
<1>8. InStep' /\ UsedLately'
  BY <1>1, RunInStep, RunUsedLately
<1> QED
  BY <1>2, <1>4, <1>5, <1>6, <1>7, <1>8 DEF PlainIInv

-----------------------------------------------------------------------------
(* The other steps of run_proc_RR, and free_PCB.                           *)

\* No line of a plain script returns 1.
LEMMA NoOnes ==
    ASSUME AllPlain, PlainIInv, ReturnsOne
    PROVE  FALSE
<1>1. InTurn /\ pcb[curr].size > 0 /\ valid_bit /\ Kind(line) = "one" /\ IInv
  BY DEF PlainIInv, ReturnsOne
<1>2. curr \in Pids
  BY <1>1, TurnFacts
<1>3. PICK l : Running(l)
  BY <1>1, RunFacts
<1>4. PICK e \in Nat, n \in Nat : e = Ran1(curr) /\ n = Len(text[curr]) /\ e < n /\ line = text[curr][e + 1]
  BY <1>1, <1>3, Zenon DEF Running
<1>5. PICK f \in DOMAIN Script : text[curr] = LinesOf(f)
  BY <1>2 DEF PlainIInv, Texts
<1>6. Script[f].lines \in Seq({"ok"})
  BY DEF AllPlain, IsPlain
<1>7. text[curr] \in Seq(Lines)
  BY <1>2, TextFacts
<1>8. DOMAIN text[curr] = 1..n /\ DOMAIN text[curr] = DOMAIN Script[f].lines
  BY <1>4, <1>5, <1>7, LenProperties DEF LinesOf
<1>9. e + 1 \in DOMAIN Script[f].lines
  BY <1>4, <1>8
<1>10. line = <<f, e + 1>>
  BY <1>4, <1>5, <1>9 DEF LinesOf
<1>11. line # NoLine
  BY <1>4, <1>10 DEF NoLine
<1>12. Kind(line) = Script[f].lines[e + 1]
  BY <1>10, <1>11 DEF Kind
<1>13. Script[f].lines[e + 1] \in {"ok"}
  BY <1>6, <1>9, ElementOfSeq, LenProperties
<1> QED
  BY <1>1, <1>12, <1>13

\* The page PAGE_evict takes is in a frame, so it frees no variable, and never
\* leaves the memory.
LEMMA FreedFrames ==
    ASSUME PlainIInv
    PROVE  lru # <<>> => Freed \subseteq FrameSlots
<1> SUFFICES ASSUME lru # <<>>, NEW i \in Freed PROVE i \in FrameSlots
  OBVIOUS
<1>1. PICK pg, t : pg = Last(lru) /\ t = text[pg[1]]
  OBVIOUS
<1>2. pg \in Range(lru)
  BY <1>1, DropLast DEF PlainIInv, IInv, QueueIntegrity, TypeOK
<1>3. PICK a \in Nat : InFrame(frames, pcb, pg, t, a)
  BY <1>1, <1>2, SlotsAreNats DEF PlainIInv, Stored
<1>4. \A j \in 0..2 : 3 * a + j \in FrameSlots /\ pcb[pg[1]].page_table[pg[2]].index[j] = 3 * a + j
  BY <1>3, FrameOfPage
<1>5. i \in PageSlots(pcb[pg[1]], pg[2])
  BY <1>1, Zenon DEF Freed
<1> QED
  BY <1>4, <1>5 DEF PageSlots

LEMMA NoneOutside ==
    ASSUME PlainIInv, EvictOutside
    PROVE  FALSE
<1>1. InTurn /\ ~InMemory /\ IInv
  BY DEF EvictOutside, PlainIInv
<1>2. lru # <<>>
  BY <1>1, TurnFacts DEF IInv, InTurnOK
<1> QED
  BY <1>1, <1>2, FreedFrames DEF InMemory

\* A process without lines left is not queued again.
LEMMA DropPlain == PlainIInv /\ Drop => PlainIInv'
<1> SUFFICES ASSUME PlainIInv, Drop PROVE PlainIInv'
  OBVIOUS
<1>1. /\ InTurn /\ IInv /\ pcb[curr].size <= 0 /\ queue' = others
      /\ UNCHANGED <<frames, variables, pcb, lru, pid_counter, cpu, status, stored, text, executed>>
  BY DEF PlainIInv, Drop
<1>2. cpu.at = "first"
  <2>1. CASE cpu.at = "second"
    <3>1. cpu.pid \in Live /\ pcb[cpu.pid].size > 0 /\ curr = cpu.pid
      BY <2>1, <1>1 DEF IInv, InTurnOK, curr
    <3>2. PICK n \in Nat : n = pcb[cpu.pid].size
      BY <3>1, <1>1, PCBFields DEF IInv, Counted, Live
    <3> QED
      BY <3>1, <3>2, <1>1
  <2> QED
    BY <2>1, <1>1 DEF InTurn
<1>3. IInv'
  BY <1>1, DropIInv
<1>4. Waiting' \subseteq Waiting /\ cpu'.pid = cpu.pid /\ Live' = Live
  <2>1. Waiting' = Range(others)
    BY <1>1 DEF Waiting, Range
  <2> QED
    BY <2>1, <1>1, TurnOrder DEF Live
<1>5. \A p, q : Ahead(p, q)' => Ahead(p, q)
  BY <1>1, <1>2, TurnOrder DEF Ahead, Before
<1>6. \A p : Ran1(p)' = Ran1(p) /\ Early(p)' = Early(p)
  BY <1>1 DEF Ran1, Early, Begun
<1>7. InStep'
  BY <1>4, <1>5, <1>6 DEF PlainIInv, InStep
<1>8. \A pg, q : Recent(pg, q) => Recent(pg, q)'
  <2>1. SUFFICES ASSUME NEW pg, NEW q, Recent(pg, q) PROVE Recent(pg, q)'
    OBVIOUS
  <2>2. \A x, y \in UpTo(lru', pg) : x[1] = y[1] /\ (x[2] % 2) = (y[2] % 2) => x = y
    BY <2>1, <1>1 DEF Recent
  <2>3. \A x \in UpTo(lru', pg) : (Ahead(x[1], q))' => cpu.at = "second"
    BY <2>1, <1>1, <1>5 DEF Recent
  <2> QED
    BY <2>2, <2>3, <1>2 DEF Recent
<1>9. UsedLately'
  BY <1>1, <1>4, <1>6, <1>8 DEF PlainIInv, UsedLately, ToRun
<1>10. Texts' /\ Enough'
  BY <1>1, <1>4, SameTexts, SameStarters
<1>11. \A p \in Live' : Follows(p)'
  BY <1>1, <1>4, <1>6 DEF PlainIInv, Follows
<1>12. Stored(frames, pcb, lru, text)'
  BY <1>1 DEF PlainIInv
<1> QED
  BY <1>1, <1>2, <1>3, <1>7, <1>9, <1>10, <1>11, <1>12 DEF PlainIInv

\* The invariant says nothing of the variables of the shell.
LEMMA SamePlain ==
    ASSUME PlainIInv, IInv', UNCHANGED <<frames, pcb, queue, lru, pid_counter, cpu, text, executed>>
    PROVE  PlainIInv'
<1>1. Live' = Live /\ Waiting' = Waiting /\ \A p : Ran1(p)' = Ran1(p) /\ Early(p)' = Early(p)
  BY DEF Live, Waiting, Ran1, Early, Begun
<1>2. \A p, q : Ahead(p, q)' <=> Ahead(p, q)
  BY <1>1 DEF Ahead
<1>3. InStep'
  BY <1>1, <1>2 DEF PlainIInv, InStep
<1>4. \A pg, q : Recent(pg, q) => Recent(pg, q)'
  <2>1. SUFFICES ASSUME NEW pg, NEW q, Recent(pg, q) PROVE Recent(pg, q)'
    OBVIOUS
  <2>2. \A x, y \in UpTo(lru', pg) : x[1] = y[1] /\ (x[2] % 2) = (y[2] % 2) => x = y
    BY <2>1 DEF Recent
  <2>3. \A x \in UpTo(lru', pg) : (Ahead(x[1], q))' =>
          cpu'.at = "second" /\ x[1] = cpu'.pid /\ x[2] = ((Ran1(x[1]))' - 1) \div 3
    BY <2>1, <1>1, <1>2 DEF Recent
  <2> QED
    BY <2>2, <2>3 DEF Recent
<1>5. UsedLately'
  BY <1>1, <1>4 DEF PlainIInv, UsedLately, ToRun
<1>6. Texts' /\ Enough'
  BY <1>1, SameTexts, SameStarters
<1>7. \A p \in Live' : Follows(p)'
  BY <1>1 DEF PlainIInv, Follows
<1>8. Stored(frames, pcb, lru, text)' /\ (cpu.at = "prompt" => Live = {} /\ queue = <<>>)'
  BY <1>1 DEF PlainIInv
<1> QED
  BY <1>3, <1>5, <1>6, <1>7, <1>8 DEF PlainIInv

\* When all that wait have nothing to run, all scripts have been run.
LEMMA AllRun ==
    ASSUME PlainIInv, cpu.at = "first", queue_done, NEW p \in Live
    PROVE  pcb[p].size = 0 /\ Ran1(p) = Len(text[p]) /\ p \in Pids
<1>1. IInv /\ p \in Pids /\ IsPCB(pcb[p])
  BY DEF PlainIInv, IInv, QueueIntegrity, TypeOK, Counted, Live
<1>2. PICK c : c = pcb[p] /\ IsPCB(c)
  BY <1>1
<1>3. PICK e \in Nat, n \in Nat : e = Ran1(p) /\ n = Len(text[p])
  BY <1>1, TextFacts
<1>4. c.size + e = n /\ HasRun(c, e)
  BY <1>2, <1>3 DEF PlainIInv, Follows, ReadTo
<1>5. c.size \in Nat
  BY <1>2, PCBFields
<1>6. c.size = 0
  <2>1. CASE p \in Waiting
    <3>1. PCB_done(p)
      BY <2>1 DEF queue_done, Waiting
    <3>2. ~(c.size > 0)
      BY <3>1, <1>2, <1>3, <1>4, NotDone DEF PCB_done
    <3> QED
      BY <3>2, <1>5
  <2>2. CASE p \notin Waiting
    <3>1. cpu.pid = 0 /\ p # 0
      BY <1>1 DEF IInv, InTurnOK, Pids
    <3> QED
      BY <2>2, <3>1, <1>1, <1>2 DEF IInv
  <2> QED
    BY <2>1, <2>2
<1>7. e = n
  BY <1>3, <1>4, <1>6
<1> QED
  BY <1>1, <1>2, <1>3, <1>6, <1>7

\* Then no page is at the position of one that was never loaded: all positions
\* are in whole frames.
LEMMA EndPlaces ==
    ASSUME PlainIInv, cpu.at = "first", queue_done, NEW p \in Live, NEW i \in Positions(p)
    PROVE  \E a \in Nat : i \in Nat /\ 3 * a <= i /\ i <= 3 * a + 2 /\ 3 * a + 2 < FRAME_STORE_SIZE
<1>1. PICK k \in DOMAIN pcb[p].page_table, j \in 0..2 : i = pcb[p].page_table[k].index[j]
  BY DEF Positions
<1>2. PICK c : c = pcb[p] /\ IsPCB(c) /\ c.size = 0
  BY AllRun DEF PlainIInv, IInv, Counted, Live
<1>0. PICK e \in Nat : e = Ran1(p) /\ e = Len(text[p])
  BY AllRun, TextFacts
<1>3. PICK t : e = Ran1(p) /\ t = text[p] /\ e = Len(t)
  BY <1>0
<1>4. PICK l \in 0..c.page_table_size : ReadTo(c, t, e, l) /\ OnTime(c, e, l)
  BY <1>2, <1>3 DEF PlainIInv, Follows
<1>5. c.page_table_size \in Nat /\ DOMAIN c.page_table = 0..(c.page_table_size - 1)
  BY <1>2, PCBFields
<1>6. k < l /\ k \in Nat
  <2>1. PAGE_table_size(e) = c.page_table_size
    <3>1. HasRun(c, e)
      BY <1>4 DEF ReadTo
    <3>2. PAGE_table_size(c.size + e) = c.page_table_size
      BY <3>1 DEF HasRun
    <3>3. c.size + e = e
      BY <1>2
    <3> QED
      BY <3>2, <3>3
  <2>2. k \in Nat /\ k < PAGE_table_size(e)
    BY <2>1, <1>1, <1>2, <1>5
  <2>3. 3 * k < e
    BY <2>2, PagesOfLines
  <2>4. e <= 3 * l
    BY <1>4 DEF OnTime
  <2> QED
    BY <2>2, <2>3, <2>4, <1>5
<1>7. c.page_table[k].valid_bit[0] \/ c.page_table[k] = Evicted
  <2>1. ~(k >= l)
    BY <1>6, <1>5
  <2> QED
    BY <2>1, <1>1, <1>2, <1>4, Zenon DEF ReadTo
<1>8. ASSUME NEW pg \in Range(lru)
      PROVE  \E a \in Nat : /\ 3 * a + 2 < FRAME_STORE_SIZE
                            /\ \A h \in 0..2 : pcb[pg[1]].page_table[pg[2]].index[h] = 3 * a + h
  <2>1. PICK a \in Nat : InFrame(frames, pcb, pg, text[pg[1]], a)
    BY SlotsAreNats DEF PlainIInv, Stored
  <2> QED
    BY <2>1, FrameOfPage
<1>9. CASE c.page_table[k].valid_bit[0]
  <2>1. PICK pg : pg = <<p, k>> /\ pg[1] = p /\ pg[2] = k
    <3>1. <<p, k>>[1] = p /\ <<p, k>>[2] = k
      OBVIOUS
    <3> QED
      BY <3>1, Zenon
  <2>2. pg \in Range(lru)
    <3>1. <<p, k>> \in PagesIn(pcb)
      BY <1>1, <1>2, <1>9 DEF PagesIn, Live
    <3> QED
      BY <3>1, <2>1 DEF PlainIInv, Stored
  <2>3. PICK a \in Nat : 3 * a + 2 < FRAME_STORE_SIZE /\ i = 3 * a + j
    BY <2>1, <2>2, <1>1, <1>8
  <2>4. i \in Nat /\ 3 * a <= i /\ i <= 3 * a + 2
    BY <2>3
  <2> QED
    BY <2>3, <2>4
<1>10. CASE c.page_table[k] = Evicted
  <2>1. lru # <<>> /\ lru \in Seq(Live \X Nat)
    BY DEF PlainIInv, IInv, InTurnOK, QueueIntegrity, TypeOK
  <2>2. Last(lru) \in Range(lru)
    BY <2>1, DropLast
  <2>3. PICK a \in Nat : 3 * a + 2 < FRAME_STORE_SIZE
    BY <2>2, <1>8
  <2>4. 2 < FRAME_STORE_SIZE
    BY <2>3, StoreAssumption
  <2>5. i = 0
    BY <1>1, <1>2, <1>10 DEF Evicted
  <2>6. 3 * 0 <= i /\ i <= 3 * 0 + 2 /\ 3 * 0 + 2 < FRAME_STORE_SIZE /\ 0 \in Nat /\ i \in Nat
    BY <2>4, <2>5
  <2> QED
    BY <2>6
<1> QED
  BY <1>7, <1>9, <1>10

\* free_PCB reads and writes nothing but slots, and goes no further behind the
\* border than the spill.
LEMMA ClearedSlots ==
    ASSUME PlainIInv, cpu.at = "first", queue_done
    PROVE  /\ Cleared \subseteq FrameSlots \cup VarSlots
           /\ \A s \in Cleared : s < FRAME_VAR_BORDER + Spill
<1> SUFFICES ASSUME NEW s \in Cleared
             PROVE  s \in FrameSlots \cup VarSlots /\ s < FRAME_VAR_BORDER + Spill
  OBVIOUS
<1>1. PICK p \in Live : \E i \in Positions(p) : s \in i..(i + 2)
  BY DEF Cleared, Live
<1>9. PICK i \in Positions(p) : s \in i..(i + 2)
  BY <1>1
<1>2. PICK a \in Nat : i \in Nat /\ 3 * a <= i /\ i <= 3 * a + 2 /\ 3 * a + 2 < FRAME_STORE_SIZE
  BY <1>9, EndPlaces
<1>3. PICK m \in Nat, n \in Nat : m = FRAME_STORE_SIZE /\ n = VAR_STORE_SIZE /\ n >= 2
  BY StoreAssumption
<1>4. s \in Nat /\ s <= 3 * a + 4
  BY <1>9, <1>2
<1>5. s \in 0..(m - 1) \/ s \in m..(m + n - 1)
  BY <1>2, <1>3, <1>4
<1>6. s < m + (2 - (m % 3))
  BY <1>2, <1>3, <1>4
<1> QED
  BY <1>3, <1>5, <1>6 DEF FrameSlots, VarSlots, FRAME_VAR_BORDER, Spill

\* The end of a command gives every frame back.
LEMMA AllFreed ==
    ASSUME PlainIInv, free_PCB
    PROVE  /\ cpu.at = "first" /\ queue_done /\ status = "ok"
           /\ Used(frames') = {} /\ pcb' = <<>> /\ queue' = <<>> /\ lru' = <<>> /\ cpu' = Prompt
           /\ pid_counter' = pid_counter /\ text' = text /\ executed' = executed
<1>1. cpu.at = "first" /\ queue_done /\ status = "ok"
  BY DEF free_PCB
<1>2. frames' = [i \in FrameSlots |-> IF i \in Cleared THEN none ELSE frames[i]]
  BY <1>1, ClearedSlots DEF free_PCB
<1>3. ASSUME NEW i \in Used(frames) PROVE i \in Cleared
  <2>1. PICK pg \in Range(lru), j \in 0..2 : i = Base(pcb, pg) + j
    BY DEF PlainIInv, Stored
  <2>2. pg[1] \in Live /\ pg[2] \in DOMAIN pcb[pg[1]].page_table
    BY ListedPage
  <2>3. Base(pcb, pg) \in Positions(pg[1])
    <3>1. PICK p, k : p = pg[1] /\ k = pg[2] /\ k \in DOMAIN pcb[p].page_table
      BY <2>2
    <3>2. pcb[p].page_table[k].index[0] \in Positions(p)
      BY <3>1 DEF Positions
    <3> QED
      BY <3>1, <3>2, Zenon DEF Base
  <2>4. PICK b \in Nat : b = Base(pcb, pg)
    BY <1>1, <2>2, <2>3, EndPlaces
  <2>5. i \in b..(b + 2)
    BY <2>1, <2>4
  <2> QED
    BY <2>2, <2>3, <2>4, <2>5 DEF Cleared, Live
<1>4. Used(frames') = {}
  <2>1. ASSUME NEW i \in FrameSlots PROVE frames'[i].owner = 0
    BY <1>2, <1>3, <2>1 DEF Used, none
  <2> QED
    BY <2>1 DEF Used
<1> QED
  BY <1>1, <1>4 DEF free_PCB

\* free_PCB keeps the invariant.
LEMMA FreePlain == PlainIInv /\ free_PCB => PlainIInv'
<1> SUFFICES ASSUME PlainIInv, free_PCB PROVE PlainIInv'
  OBVIOUS
<1>1. /\ cpu.at = "first" /\ queue_done
      /\ Used(frames') = {} /\ pcb' = <<>> /\ queue' = <<>> /\ lru' = <<>> /\ cpu' = Prompt
      /\ pid_counter' = pid_counter /\ text' = text /\ executed' = executed
  BY AllFreed
<1>2. IInv'
  BY FreePCBIInv DEF PlainIInv
<1>3. Live' = {} /\ Waiting' = {} /\ Range(lru') = {} /\ Pids' = Pids /\ DOMAIN queue' = {} /\ cpu'.pid = 0
      /\ cpu'.at = "prompt"
  BY <1>1 DEF Live, Waiting, Range, Pids, Prompt
<1>4. \A p : Ran1(p)' = Ran1(p)
  BY <1>1 DEF Ran1
<1>5. Texts'
  <2>1. \A p \in Pids : Ran1(p) = Len(text[p])
    <3>1. \A p \in Pids : p \notin Live => Ran1(p) = Len(text[p])
      BY DEF PlainIInv, Texts
    <3> QED
      BY <3>1, <1>1, AllRun
  <2> QED
    BY <2>1, <1>1, <1>3, <1>4 DEF PlainIInv, Texts
<1>6. Stored(frames, pcb, lru, text)'
  <2>1. PagesIn(pcb') = {} /\ DOMAIN lru' = {}
    BY <1>1 DEF PagesIn
  <2>2. 3 * Len(lru') = Cardinality(Used(frames'))
    <3>1. Len(lru') = 0 /\ Cardinality({}) = 0
      BY <1>1, FS_EmptySet
    <3> QED
      BY <3>1, <1>1
  <2> QED
    BY <2>1, <2>2, <1>1, <1>3 DEF Stored
<1>7. InStep' /\ UsedLately'
  BY <1>1, <1>3 DEF InStep, UsedLately, Ahead, Before
<1>8. Enough'
  <2>1. Starters' = {} /\ Cardinality({}) = 0
    BY <1>3, FS_EmptySet DEF Starters
  <2>2. 0 <= FRAME_STORE_SIZE \div 3
    BY StoreAssumption
  <2> QED
    BY <2>1, <2>2 DEF Enough
<1> QED
  BY <1>1, <1>2, <1>3, <1>5, <1>6, <1>7, <1>8 DEF PlainIInv

-----------------------------------------------------------------------------
(* new_proc and exec.                                                      *)

\* count_lines counts the lines of a plain script.
LEMMA PlainLines ==
    ASSUME AllPlain, NEW f \in DOMAIN Script
    PROVE  /\ LinesOf(f) \in Seq(Lines) /\ Len(LinesOf(f)) = count_lines(f)
           /\ count_lines(f) \in Nat /\ count_lines(f) >= 1
<1>1. PICK s : s = Script[f].lines /\ s \in Seq({"ok"}) /\ s # <<>> /\ ~Script[f].trailing
  BY DEF AllPlain, IsPlain
<1>2. PICK n \in Nat : n = Len(s) /\ DOMAIN s = 1..n /\ s \in [1..n -> {"ok"}]
  BY <1>1, LenProperties
<1>3. n >= 1
  BY <1>1, <1>2, EmptySeq
<1>4. {i \in 1..(n - 1) : s[i] # "blank"} = 1..(n - 1)
  <2>1. \A i \in 1..(n - 1) : i \in 1..n
    BY <1>2
  <2>2. \A i \in 1..n : s[i] = "ok"
    BY <1>2
  <2> QED
    BY <2>1, <2>2
<1>5. Cardinality(1..(n - 1)) = n - 1
  <2>1. 1 \in Int /\ n - 1 \in Int
    BY <1>2
  <2>2. Cardinality(1..(n - 1)) = IF 1 > n - 1 THEN 0 ELSE (n - 1) - 1 + 1
    BY <2>1, FS_Interval
  <2> QED
    BY <2>2, <1>2, <1>3
<1>6. count_lines(f) = 1 + Cardinality({i \in 1..(n - 1) : s[i] # "blank"})
  BY <1>1, <1>2 DEF count_lines
<1>7. count_lines(f) = n
  <2>1. Cardinality({i \in 1..(n - 1) : s[i] # "blank"}) = n - 1
    BY <1>4, <1>5, Zenon
  <2>2. count_lines(f) = 1 + (n - 1)
    BY <2>1, <1>6, Zenon
  <2>3. 1 + (n - 1) = n
    OBVIOUS
  <2> QED
    BY <2>2, <2>3, Zenon
<1>8. PICK u : u = LinesOf(f) /\ u = [i \in 1..n |-> <<f, i>>]
  BY <1>1, <1>2 DEF LinesOf
<1>9. u \in Seq(Lines)
  <2>1. \A i \in 1..n : <<f, i>> \in Lines
    BY <1>1, <1>2 DEF Lines
  <2>2. u \in [1..n -> Lines]
    BY <2>1, <1>8, Zenon
  <2> QED
    BY <2>2, SeqDef
<1>10. Len(u) = n
  <2>1. DOMAIN u = 1..n
    BY <1>8, Zenon
  <2> QED
    BY <2>1, <1>2, <1>9, LenProperties
<1> QED
  BY <1>2, <1>3, <1>7, <1>8, <1>9, <1>10

\* The PCB before any page is loaded: nothing of the file has been read.
LEMMA FreshRead ==
    ASSUME AllPlain, NEW f \in DOMAIN Script
    PROVE  ReadTo(FreshPCB(f), LinesOf(f), 0, 0)
<1>1. PICK l, t : l \in Nat /\ l = count_lines(f) /\ t = LinesOf(f) /\ t \in Seq(Lines) /\ Len(t) = l
  BY PlainLines
<1>2. PICK n \in Nat : n = PAGE_table_size(l)
  BY <1>1, Sizes
<1>3. PICK c : c = FreshPCB(f) /\ HasRun(c, 0)
  BY FreshType
<1>4. /\ c.size = l /\ c.source_file = t /\ c.page_table = [k \in 0..(n - 1) |-> PAGE_init]
  BY <1>1, <1>2, <1>3 DEF FreshPCB
<1>5. SubSeq(t, 1, l) = t
  BY <1>1, LenProperties
<1>6. c.size + 0 = Len(t) /\ c.source_file = SubSeq(t, 3 * 0 + 1, Len(t))
  BY <1>1, <1>4, <1>5
<1>7. \A k \in DOMAIN c.page_table : k >= 0 /\ c.page_table[k] = PAGE_init
  BY <1>2, <1>4
<1>8. ReadTo(c, t, 0, 0)
  BY <1>3, <1>6, <1>7 DEF ReadTo
<1> QED
  BY <1>1, <1>3, <1>8

\* What new_proc does when it finds the frames it needs.
NewFilled(P, Q, s, p, f, txt, t) ==
    /\ t \in States(P, Q)
    /\ Stored(t.fr, t.pcb, t.lru, txt)
    /\ ReadTo(t.pcb[p], txt[p], 0, InitialPages(f))
    /\ t.pcb[p].page_table_size = s.pcb[p].page_table_size
    /\ \A q \in P : q # p => t.pcb[q] = s.pcb[q]
    /\ Range(s.lru) \subseteq Range(t.lru)
    /\ \A k \in {0, 1} : k < s.pcb[p].page_table_size => <<p, k>> \in Range(t.lru)

\* What it finds.
NewWanted(P, Q, s, p, f, txt, t) ==
    /\ s \in States(P, Q) /\ p \in P /\ p \in Q /\ 0 \notin P /\ f \in DOMAIN Script
    /\ txt[p] \in Seq(Lines) /\ Stored(s.fr, s.pcb, s.lru, txt) /\ ReadTo(s.pcb[p], txt[p], 0, 0)
    /\ s.pcb[p].page_table_size = PAGE_table_size(count_lines(f))
    /\ t = new_proc(s, p, f) /\ t.ok

\* A page for which there is no frame is not loaded.
LEMMA NoFrame ==
    ASSUME NEW s, NEW p, NEW k, NEW P, NEW Q, s \in States(P, Q), Spaces(s.fr) = {}
    PROVE  ~load_PAGE(s, p, k).ok
<1>1. load_PAGE(s, p, k) = [s EXCEPT !.ok = FALSE]
  BY DEF load_PAGE
<1> QED
  BY <1>1 DEF States

\* new_proc loads the first pages and lists them.
LEMMA NewProcFills ==
    ASSUME NEW P, NEW Q, NEW s, NEW p, NEW f, NEW txt, NEW t, NewWanted(P, Q, s, p, f, txt, t)
    PROVE  NewFilled(P, Q, s, p, f, txt, t)
<1>0. /\ s \in States(P, Q) /\ p \in P /\ p \in Q /\ 0 \notin P /\ f \in DOMAIN Script
      /\ txt[p] \in Seq(Lines) /\ Stored(s.fr, s.pcb, s.lru, txt) /\ ReadTo(s.pcb[p], txt[p], 0, 0)
      /\ s.pcb[p].page_table_size = PAGE_table_size(count_lines(f))
      /\ t = new_proc(s, p, f) /\ t.ok
  BY Zenon DEF NewWanted
<1>1. PICK one, two : one = load_PAGE(s, p, 0) /\ two = load_PAGE(one, p, 1)
  OBVIOUS
<1>2. s.pcb \in [P -> PCBs] /\ s.lru \in Seq(P \X Nat) /\ DOMAIN s.pcb = P
  BY <1>0 DEF States
<1>3. PICK n \in Nat : n = s.pcb[p].page_table_size /\ n >= 1 /\ InitialPages(f) = (IF n < 2 THEN n ELSE 2)
  BY <1>0, Sizes DEF InitialPages
<1>4. PICK x, y : x = <<p, 0>> /\ y = <<p, 1>> /\ x \in P \X Nat /\ y \in P \X Nat
  <2>1. p \in P
    BY <1>0, Zenon
  <2>2. <<p, 0>> \in P \X Nat /\ <<p, 1>> \in P \X Nat
    BY <2>1
  <2> QED
    BY <2>2, Zenon
<1>5. PICK m : m = <<x>> \o s.lru
  OBVIOUS
<1>6. m \in Seq(P \X Nat) /\ Range(m) = Range(s.lru) \cup {x}
  <2>1. PICK S : S = P \X Nat /\ s.lru \in Seq(S) /\ x \in S
    BY <1>2, <1>4
  <2>2. <<x>> \o s.lru \in Seq(S) /\ Range(<<x>> \o s.lru) = Range(s.lru) \cup {x}
    BY <2>1, AddHead
  <2> QED
    BY <2>1, <2>2, <1>5
<1>7. t.ok => one.ok
  <2>1. CASE InitialPages(f) = 1
    <3>1. t = [one EXCEPT !.lru = <<<<p, 0>>>> \o @]
      BY <1>0, <1>1, <2>1, Zenon DEF new_proc
    <3>2. one \in States(P, Q)
      <4>1. 0 \in DOMAIN s.pcb[p].page_table
        <5>1. DOMAIN s.pcb[p].page_table = 0..(n - 1)
          BY <1>0, <1>2, <1>3, PCBFields, PCBsArePCBs
        <5> QED
          BY <5>1, <1>3
      <4> QED
        BY <4>1, <1>0, <1>1, LoadPage
    <3> QED
      BY <3>1, <3>2 DEF States
  <2>2. CASE InitialPages(f) # 1 /\ ~one.ok
    <3>1. t = one
      BY <1>0, <1>1, <2>2, Zenon DEF new_proc
    <3> QED
      BY <3>1
  <2> QED
    BY <2>1, <2>2
<1>8. Spaces(s.fr) # {}
  BY <1>0, <1>1, <1>7, NoFrame
<1>9. /\ one \in States(P, Q) /\ one.lru = s.lru /\ Stored(one.fr, one.pcb, <<<<p, 0>>>> \o s.lru, txt)
      /\ ReadTo(one.pcb[p], txt[p], 0, 0 + 1) /\ Differs(s.pcb, one.pcb, p, 0)
  <2>1. 0 < s.pcb[p].page_table_size /\ 0 \in Nat
    BY <1>3
  <2>2. LoadsOn(P, Q, s, p, s.lru, txt, 0, 0, one)
    BY <2>1, <1>0, <1>1, <1>2, <1>8, Zenon DEF LoadsOn
  <2> QED
    BY <2>2, LoadKeeps
<1>10. Stored(one.fr, one.pcb, m, txt) /\ ReadTo(one.pcb[p], txt[p], 0, 1)
  <2>1. <<<<p, 0>>>> \o s.lru = m
    BY <1>4, <1>5, Zenon
  <2>2. 0 + 1 = 1
    OBVIOUS
  <2>3. Stored(one.fr, one.pcb, m, txt)
    BY <2>1, <1>9, Zenon
  <2>4. ReadTo(one.pcb[p], txt[p], 0, 1)
    BY <2>2, <1>9, Zenon
  <2> QED
    BY <2>3, <2>4
<1>11. one.pcb[p].page_table_size = n /\ DOMAIN one.pcb = P /\ \A q \in P : q # p => one.pcb[q] = s.pcb[q]
  BY <1>0, <1>2, <1>3, <1>9 DEF Differs, OnePage
<1>12. CASE n < 2
  <2>1. InitialPages(f) = 1
    BY <1>3, <1>12
  <2>2. t = [one EXCEPT !.lru = <<<<p, 0>>>> \o @]
    BY <1>0, <1>1, <2>1, Zenon DEF new_proc
  <2>3. t = [one EXCEPT !.lru = m]
    BY <2>2, <1>4, <1>5, <1>9
  <2>4. t \in States(P, Q) /\ t.lru = m /\ t.pcb = one.pcb /\ t.fr = one.fr
    BY <2>3, <1>6, <1>9 DEF States
  <2>5. \A k \in {0, 1} : k < n => <<p, k>> \in Range(m)
    BY <1>4, <1>6, <1>12
  <2> QED
    BY <2>1, <2>4, <2>5, <1>3, <1>6, <1>10, <1>11 DEF NewFilled
<1>13. CASE ~(n < 2)
  <2>1. InitialPages(f) = 2
    BY <1>3, <1>13
  <2>2. t = [two EXCEPT !.lru = <<<<p, 1>>>> \o (<<<<p, 0>>>> \o @)]
    <3>1. InitialPages(f) # 1 /\ one.ok
      BY <2>1, <1>0, <1>7
    <3> QED
      BY <3>1, <1>0, <1>1, Zenon DEF new_proc
  <2>3. two \in States(P, Q)
    <3>1. DOMAIN one.pcb[p].page_table = 0..(n - 1)
      <4>1. IsPCB(one.pcb[p])
        BY <1>0, <1>9, PCBsArePCBs DEF States
      <4> QED
        BY <4>1, <1>11, PCBFields
    <3>2. 1 \in DOMAIN one.pcb[p].page_table
      BY <3>1, <1>13
    <3> QED
      BY <3>2, <1>0, <1>1, <1>9, LoadPage
  <2>4. two.ok
    BY <2>2, <2>3, <1>0 DEF States
  <2>5. Spaces(one.fr) # {}
    BY <2>4, <1>1, <1>9, NoFrame
  <2>6. /\ two.lru = one.lru /\ Stored(two.fr, two.pcb, <<<<p, 1>>>> \o m, txt)
        /\ ReadTo(two.pcb[p], txt[p], 0, 1 + 1) /\ Differs(one.pcb, two.pcb, p, 1)
    <3>1. 1 < one.pcb[p].page_table_size /\ 0 \in Nat /\ 1 \in Nat
      BY <1>11, <1>13
    <3>2. LoadsOn(P, Q, one, p, m, txt, 0, 1, two)
      BY <3>1, <2>5, <1>0, <1>1, <1>6, <1>9, <1>10, Zenon DEF LoadsOn
    <3> QED
      BY <3>2, LoadKeeps
  <2>7. PICK l : l = <<y>> \o m
    OBVIOUS
  <2>8. l \in Seq(P \X Nat) /\ Range(l) = Range(m) \cup {y}
    <3>1. PICK S : S = P \X Nat /\ m \in Seq(S) /\ y \in S
      BY <1>4, <1>6
    <3>2. <<y>> \o m \in Seq(S) /\ Range(<<y>> \o m) = Range(m) \cup {y}
      BY <3>1, AddHead
    <3> QED
      BY <3>1, <3>2, <2>7
  <2>9. t = [two EXCEPT !.lru = l]
    BY <2>2, <2>6, <2>7, <1>4, <1>5, <1>9
  <2>10. t \in States(P, Q) /\ t.lru = l /\ t.pcb = two.pcb /\ t.fr = two.fr
    BY <2>3, <2>8, <2>9 DEF States
  <2>11. Stored(t.fr, t.pcb, t.lru, txt) /\ ReadTo(t.pcb[p], txt[p], 0, 2)
    <3>1. Stored(two.fr, two.pcb, l, txt) /\ ReadTo(two.pcb[p], txt[p], 0, 2)
      BY <2>6, <2>7, <1>4
    <3> QED
      BY <3>1, <2>10
  <2>12. t.pcb[p].page_table_size = n /\ \A q \in P : q # p => t.pcb[q] = s.pcb[q]
    BY <2>6, <2>10, <1>0, <1>11 DEF Differs, OnePage
  <2>13. \A k \in {0, 1} : <<p, k>> \in Range(l)
    BY <2>8, <1>4, <1>6
  <2> QED
    BY <2>1, <2>8, <2>10, <2>11, <2>12, <2>13, <1>3, <1>6 DEF NewFilled
<1> QED
  BY <1>12, <1>13

\* The m elements of s and after them the n of u.
Joined(S, s, u, m, n, t) ==
    s \in Seq(S) /\ u \in Seq(S) /\ m \in Nat /\ n \in Nat /\ m = Len(s) /\ n = Len(u) /\ t = s \o u

\* One sequence after another, element by element.
LEMMA Appended ==
    ASSUME NEW S, NEW s, NEW u, NEW m, NEW n, NEW t, Joined(S, s, u, m, n, t)
    PROVE  /\ t \in Seq(S) /\ Len(t) = m + n /\ DOMAIN t = 1..(m + n)
           /\ \A i \in 1..m : t[i] = s[i]
           /\ \A i \in 1..n : t[m + i] = u[i]
<1> SUFFICES ASSUME s \in Seq(S), u \in Seq(S), m \in Nat, n \in Nat, m = Len(s), n = Len(u), t = s \o u
             PROVE  /\ t \in Seq(S) /\ Len(t) = m + n /\ DOMAIN t = 1..(m + n)
                    /\ \A i \in 1..m : t[i] = s[i]
                    /\ \A i \in 1..n : t[m + i] = u[i]
  BY DEF Joined
<1>1. s \o u \in Seq(S) /\ Len(s \o u) = Len(s) + Len(u)
  BY ConcatProperties
<1>2. \A i \in 1..(Len(s) + Len(u)) : (s \o u)[i] = IF i <= Len(s) THEN s[i] ELSE u[i - Len(s)]
  BY ConcatProperties
<1>3. t \in Seq(S) /\ Len(t) = m + n
  BY <1>1, Zenon
<1>4. \A i \in 1..(m + n) : t[i] = IF i <= m THEN s[i] ELSE u[i - m]
  BY <1>2, Zenon
<1>5. DOMAIN t = 1..(m + n)
  BY <1>3, LenProperties
<1>6. \A i \in 1..m : t[i] = s[i]
  <2>1. \A i \in 1..m : i \in 1..(m + n) /\ i <= m
    OBVIOUS
  <2> QED
    BY <2>1, <1>4, Zenon
<1>7. \A i \in 1..n : t[m + i] = u[i]
  <2>1. \A i \in 1..n : m + i \in 1..(m + n) /\ ~(m + i <= m) /\ (m + i) - m = i
    OBVIOUS
  <2> QED
    BY <2>1, <1>4, Zenon
<1> QED
  BY <1>3, <1>5, <1>6, <1>7

\* At the prompt all frames are free.
LEMMA PromptFree ==
    ASSUME PlainIInv, cpu.at = "prompt"
    PROVE  Live = {} /\ Used(frames) = {} /\ \A i \in FrameSlots : frames[i].owner = 0
<1>1. Live = {} /\ DOMAIN pcb = {}
  BY DEF PlainIInv, Live
<1>2. Range(lru) = {}
  BY <1>1 DEF PlainIInv, Stored, PagesIn
<1>3. Used(frames) = {}
  BY <1>2 DEF PlainIInv, Stored
<1> QED
  BY <1>1, <1>3 DEF Used

\* The arguments of exec: N scripts that exist, and the first pid is c.
Begins(fs, N, c) ==
    /\ N \in Nat \ {0} /\ Len(fs) = N /\ DOMAIN fs = 1..N /\ \A i \in 1..N : fs[i] \in DOMAIN Script
    /\ c \in Nat \ {0} /\ c = pid_counter

\* The texts of their processes.
TextsOf(fs, N, c, t) ==
    /\ \A p \in 1..(c - 1) : t[p] = text[p]
    /\ \A p \in c..(c + N - 1) : p - c + 1 \in 1..N /\ t[p] = LinesOf(fs[p - c + 1])

\* When n of them have been loaded, and the list and the frames are those of s.
SoFar(P, s, t, c, n, fs) ==
    s.ok => /\ Stored(s.fr, s.pcb, s.lru, t)
            /\ \A p \in P : s.pcb[p].page_table_size = PAGE_table_size(count_lines(fs[p - c + 1]))
            /\ \A p \in P : p >= c + n => ReadTo(s.pcb[p], t[p], 0, 0)
            /\ \A p \in P : p < c + n => /\ ReadTo(s.pcb[p], t[p], 0, InitialPages(fs[p - c + 1]))
                                         /\ \A k \in {0, 1} : k < s.pcb[p].page_table_size => <<p, k>> \in Range(s.lru)

\* Before the first of them.
LEMMA BatchStart ==
    ASSUME AllPlain, NEW fs, NEW N, NEW c, Begins(fs, N, c), NEW t, TextsOf(fs, N, c, t),
           Used(frames) = {}, NEW P, P = c..(c + N - 1),
           NEW s, s = [fr |-> frames, pcb |-> [p \in P |-> FreshPCB(fs[p - c + 1])], lru |-> <<>>, ok |-> TRUE]
    PROVE  SoFar(P, s, t, c, 0, fs)
<1>1. /\ N \in Nat \ {0} /\ \A i \in 1..N : fs[i] \in DOMAIN Script
      /\ c \in Nat \ {0}
  BY DEF Begins
<1>2. s.fr = frames /\ s.lru = <<>> /\ DOMAIN s.pcb = P /\ \A p \in P : s.pcb[p] = FreshPCB(fs[p - c + 1])
  OBVIOUS
<1>3. ASSUME NEW p \in P
      PROVE  /\ ReadTo(s.pcb[p], t[p], 0, 0)
             /\ s.pcb[p].page_table_size = PAGE_table_size(count_lines(fs[p - c + 1]))
             /\ \A k \in DOMAIN s.pcb[p].page_table : ~s.pcb[p].page_table[k].valid_bit[0]
  <2>1. p - c + 1 \in 1..N /\ t[p] = LinesOf(fs[p - c + 1])
    BY <1>3 DEF TextsOf
  <2>2. PICK f \in DOMAIN Script : f = fs[p - c + 1]
    BY <2>1, <1>1
  <2>3. PICK d : d = FreshPCB(f) /\ d = s.pcb[p]
    BY <2>2, <1>2, <1>3
  <2>4. ReadTo(d, t[p], 0, 0)
    BY <2>1, <2>2, <2>3, FreshRead
  <2>5. d.page_table_size = PAGE_table_size(count_lines(f)) /\ \A k \in DOMAIN d.page_table : Invalid(d.page_table[k])
    BY <2>3, FreshType
  <2>6. \A k \in DOMAIN d.page_table : ~d.page_table[k].valid_bit[0]
    <3>1. 0 \in 0..2
      OBVIOUS
    <3> QED
      BY <3>1, <2>5, Zenon DEF Invalid
  <2> QED
    BY <2>2, <2>3, <2>4, <2>5, <2>6, Zenon
<1>4. PagesIn(s.pcb) = {}
  <2> SUFFICES ASSUME NEW pg \in PagesIn(s.pcb) PROVE FALSE
    OBVIOUS
  <2>1. PICK p \in P : pg \in {p} \X DOMAIN s.pcb[p].page_table
    BY <1>2 DEF PagesIn
  <2>2. pg[1] = p /\ pg[2] \in DOMAIN s.pcb[p].page_table
    BY <2>1
  <2>3. s.pcb[p].page_table[pg[2]].valid_bit[0]
    BY <2>2, Zenon DEF PagesIn
  <2> QED
    BY <2>2, <2>3, <1>3, Zenon
<1>5. Range(s.lru) = {} /\ DOMAIN s.lru = {}
  BY <1>2 DEF Range
<1>6. 3 * Len(s.lru) = Cardinality(Used(s.fr))
  <2>1. Len(s.lru) = 0
    BY <1>2
  <2>2. Cardinality(Used(s.fr)) = 0
    BY <1>2, FS_EmptySet, Zenon
  <2>3. 3 * 0 = 0
    OBVIOUS
  <2> QED
    BY <2>1, <2>2, <2>3, Zenon
<1>7. Stored(s.fr, s.pcb, s.lru, t)
  BY <1>2, <1>4, <1>5, <1>6 DEF Stored
<1>8. \A p \in P : ~(p < c + 0)
  BY <1>1
<1> QED
  BY <1>3, <1>7, <1>8 DEF SoFar

\* One more.
LEMMA BatchStep ==
    ASSUME AllPlain, NEW fs, NEW N, NEW c, Begins(fs, N, c), NEW t, TextsOf(fs, N, c, t),
           NEW P, P = c..(c + N - 1), NEW Q, P \subseteq Q,
           NEW n \in 1..N, NEW s, NEW u, s \in States(P, Q), SoFar(P, s, t, c, n - 1, fs),
           u = IF s.ok THEN new_proc(s, c + n - 1, fs[n]) ELSE s
    PROVE  SoFar(P, u, t, c, n, fs)
<1>1. SUFFICES ASSUME u.ok PROVE SoFar(P, u, t, c, n, fs)
  BY DEF SoFar
<1>2. /\ N \in Nat \ {0} /\ \A i \in 1..N : fs[i] \in DOMAIN Script
      /\ c \in Nat \ {0}
  BY DEF Begins
<1>3. PICK q \in P, f \in DOMAIN Script : q = c + n - 1 /\ f = fs[n] /\ q - c + 1 = n /\ q = c + (n - 1)
  <2>1. c + n - 1 \in P /\ (c + n - 1) - c + 1 = n /\ c + n - 1 = c + (n - 1)
    BY <1>2
  <2> QED
    BY <2>1, <1>2
<1>4. s.ok /\ u = new_proc(s, q, f)
  BY <1>1, <1>3
<1>5. /\ Stored(s.fr, s.pcb, s.lru, t)
      /\ \A p \in P : s.pcb[p].page_table_size = PAGE_table_size(count_lines(fs[p - c + 1]))
      /\ \A p \in P : p >= c + (n - 1) => ReadTo(s.pcb[p], t[p], 0, 0)
      /\ \A p \in P : p < c + (n - 1) =>
           /\ ReadTo(s.pcb[p], t[p], 0, InitialPages(fs[p - c + 1]))
           /\ \A k \in {0, 1} : k < s.pcb[p].page_table_size => <<p, k>> \in Range(s.lru)
  BY <1>4, Zenon DEF SoFar
<1>6. t[q] \in Seq(Lines)
  <2>1. t[q] = LinesOf(f)
    BY <1>3 DEF TextsOf
  <2> QED
    BY <2>1, PlainLines
<1>7. ReadTo(s.pcb[q], t[q], 0, 0) /\ s.pcb[q].page_table_size = PAGE_table_size(count_lines(f))
  <2>1. q >= c + (n - 1)
    BY <1>2, <1>3
  <2> QED
    BY <2>1, <1>3, <1>5, Zenon
<1>8. 0 \notin P
  BY <1>2
<1>9. NewWanted(P, Q, s, q, f, t, u)
  BY <1>1, <1>3, <1>4, <1>5, <1>6, <1>7, <1>8, Zenon DEF NewWanted
<1>10. /\ Stored(u.fr, u.pcb, u.lru, t)
       /\ ReadTo(u.pcb[q], t[q], 0, InitialPages(f))
       /\ u.pcb[q].page_table_size = s.pcb[q].page_table_size
       /\ \A p \in P : p # q => u.pcb[p] = s.pcb[p]
       /\ Range(s.lru) \subseteq Range(u.lru)
       /\ \A k \in {0, 1} : k < s.pcb[q].page_table_size => <<q, k>> \in Range(u.lru)
  <2>1. NewFilled(P, Q, s, q, f, t, u)
    BY <1>9, NewProcFills, Zenon
  <2> QED
    BY <2>1, Zenon DEF NewFilled
<1>11. \A p \in P : u.pcb[p].page_table_size = PAGE_table_size(count_lines(fs[p - c + 1]))
  BY <1>5, <1>10
<1>12. \A p \in P : p >= c + n => ReadTo(u.pcb[p], t[p], 0, 0)
  <2>1. \A p \in P : p >= c + n => p # q /\ p >= c + (n - 1)
    BY <1>2, <1>3
  <2> QED
    BY <2>1, <1>5, <1>10, Zenon
<1>13. ASSUME NEW p \in P, p < c + n
       PROVE  /\ ReadTo(u.pcb[p], t[p], 0, InitialPages(fs[p - c + 1]))
              /\ \A k \in {0, 1} : k < u.pcb[p].page_table_size => <<p, k>> \in Range(u.lru)
  <2>1. CASE p = q
    BY <2>1, <1>3, <1>10
  <2>2. CASE p # q
    <3>1. p < c + (n - 1)
      BY <2>2, <1>2, <1>3, <1>13
    <3>2. u.pcb[p] = s.pcb[p]
      BY <2>2, <1>10, <1>13
    <3>3. /\ ReadTo(s.pcb[p], t[p], 0, InitialPages(fs[p - c + 1]))
          /\ \A k \in {0, 1} : k < s.pcb[p].page_table_size => <<p, k>> \in Range(s.lru)
      BY <3>1, <1>5, <1>13
    <3> QED
      BY <3>2, <3>3, <1>10
  <2> QED
    BY <2>1, <2>2
<1> QED
  BY <1>10, <1>11, <1>12, <1>13 DEF SoFar

\* After all of them.
LEMMA BatchLoads ==
    ASSUME AllPlain, NEW fs, NEW N, NEW c, Begins(fs, N, c), NEW t, TextsOf(fs, N, c, t),
           Used(frames) = {}, NEW P, P = c..(c + N - 1), NEW Q, P \subseteq Q,
           NEW h, NewProcs(fs, N, Q, h)
    PROVE  SoFar(P, Processes(fs), t, c, N, fs)
<1>1. N \in Nat \ {0} /\ c = pid_counter
  BY DEF Begins
<1>2. PICK new : new = [p \in P |-> FreshPCB(fs[p - c + 1])]
  OBVIOUS
<1>3. /\ h[0] = [fr |-> frames, pcb |-> new, lru |-> <<>>, ok |-> TRUE]
      /\ \A n \in 1..N : h[n] = IF h[n - 1].ok THEN new_proc(h[n - 1], c + n - 1, fs[n]) ELSE h[n - 1]
      /\ \A n \in 0..N : h[n] \in Starting(P, Q, new)
      /\ Processes(fs) = h[N]
  BY <1>1, <1>2, Zenon DEF NewProcs
<1>4. PICK T : T = {n \in 0..N : SoFar(P, h[n], t, c, n, fs)}
  OBVIOUS
<1>5. 0 \in T
  <2>1. SoFar(P, h[0], t, c, 0, fs)
    BY <1>2, <1>3, BatchStart
  <2> QED
    BY <2>1, <1>1, <1>4
<1>6. \A n \in 1..N : n - 1 \in T => n \in T
  <2> SUFFICES ASSUME NEW n \in 1..N, n - 1 \in T PROVE n \in T
    OBVIOUS
  <2>1. n - 1 \in 0..N /\ n \in 0..N
    BY <1>1
  <2>2. h[n - 1] \in States(P, Q)
    BY <2>1, <1>3 DEF Starting
  <2>3. SoFar(P, h[n - 1], t, c, n - 1, fs)
    BY <1>4
  <2>4. h[n] = IF h[n - 1].ok THEN new_proc(h[n - 1], c + n - 1, fs[n]) ELSE h[n - 1]
    BY <1>3
  <2>5. SoFar(P, h[n], t, c, n, fs)
    BY <2>2, <2>3, <2>4, BatchStep
  <2> QED
    BY <2>1, <2>5, <1>4
<1>7. 0..N \subseteq T
  <2>1. N \in Nat
    BY <1>1
  <2> QED
    BY <2>1, <1>5, <1>6, Climb
<1>8. SoFar(P, h[N], t, c, N, fs)
  <2>1. N \in 0..N
    BY <1>1
  <2> QED
    BY <2>1, <1>4, <1>7
<1> QED
  BY <1>3, <1>8

\* What exec of N plain scripts leaves when there are frames enough.
ExecRuns(fs, N, c, P) ==
    /\ Begins(fs, N, c) /\ P = c..(c + N - 1)
    /\ text' \in Seq(Seq(Lines)) /\ Len(text') = c + N - 1 /\ TextsOf(fs, N, c, text')
    /\ executed' \in Seq(Seq(Lines)) /\ Len(executed') = c + N - 1
    /\ \A p \in 1..(c - 1) : executed'[p] = executed[p]
    /\ \A p \in P : executed'[p] = <<>>
    /\ pid_counter' = c + N /\ cpu' = [at |-> "first", pid |-> 0]
    /\ Live' = P /\ Pids' = 1..(c + N - 1)
    /\ Stored(frames', pcb', lru', text')
    /\ \A p \in P : LET f == fs[p - c + 1]
                    IN  /\ f \in DOMAIN Script /\ text'[p] = LinesOf(f)
                        /\ ReadTo(pcb'[p], text'[p], 0, InitialPages(f))
                        /\ pcb'[p].page_table_size = PAGE_table_size(count_lines(f))
                        /\ \A k \in {0, 1} : k < pcb'[p].page_table_size => <<p, k>> \in Range(lru')

\* exec adds the texts of the new processes, of which nothing has been run.
Longer(fs, t, x) ==
    /\ t = text \o [i \in DOMAIN fs |-> LinesOf(fs[i])]
    /\ x = executed \o [i \in DOMAIN fs |-> <<>>]

\* Then every process has a text, and the old ones the lines they have run.
HaveTexts(fs, N, c, t, x) ==
    /\ t \in Seq(Seq(Lines)) /\ Len(t) = c + N - 1 /\ TextsOf(fs, N, c, t)
    /\ x \in Seq(Seq(Lines)) /\ Len(x) = c + N - 1
    /\ \A p \in 1..(c - 1) : x[p] = executed[p]
    /\ \A p \in c..(c + N - 1) : x[p] = <<>>

\* The texts and the lines run, with the new processes.
LEMMA ExecTexts ==
    ASSUME AllPlain, PlainIInv, NEW fs, NEW N, NEW c, Begins(fs, N, c), NEW t, NEW x, Longer(fs, t, x)
    PROVE  HaveTexts(fs, N, c, t, x)
<1>1. /\ N \in Nat \ {0} /\ DOMAIN fs = 1..N /\ \A i \in 1..N : fs[i] \in DOMAIN Script
      /\ c \in Nat \ {0} /\ c = pid_counter
  BY DEF Begins
<1>2. PICK S : S = Seq(Lines)
  OBVIOUS
<1>3. text \in Seq(S) /\ executed \in Seq(S) /\ Len(text) = c - 1 /\ Len(executed) = c - 1
  BY <1>1, <1>2 DEF PlainIInv, Texts
<1>4. PICK u : u = [i \in 1..N |-> LinesOf(fs[i])]
  OBVIOUS
<1>5. PICK v : v = [i \in 1..N |-> <<>>]
  OBVIOUS
<1>6. u \in Seq(S) /\ Len(u) = N
  <2>1. \A i \in 1..N : LinesOf(fs[i]) \in S
    BY <1>1, <1>2, PlainLines
  <2>2. u \in [1..N -> S]
    BY <2>1, <1>4, Zenon
  <2>3. u \in Seq(S)
    BY <2>2, <1>1, SeqDef
  <2>4. DOMAIN u = 1..N
    BY <1>4, Zenon
  <2> QED
    BY <2>3, <2>4, <1>1, LenProperties
<1>7. v \in Seq(S) /\ Len(v) = N
  <2>1. <<>> \in S
    BY <1>2
  <2>2. v \in [1..N -> S]
    BY <2>1, <1>5, Zenon
  <2>3. v \in Seq(S)
    BY <2>2, <1>1, SeqDef
  <2>4. DOMAIN v = 1..N
    BY <1>5, Zenon
  <2> QED
    BY <2>3, <2>4, <1>1, LenProperties
<1>8. PICK m \in Nat : m = c - 1
  BY <1>1
<1>9. t = text \o u /\ x = executed \o v
  BY <1>1, <1>4, <1>5, Zenon DEF Longer
<1>10. t \in Seq(S) /\ Len(t) = m + N /\ (\A i \in 1..m : t[i] = text[i]) /\ \A i \in 1..N : t[m + i] = u[i]
  <2>1. Joined(S, text, u, m, N, t)
    BY <1>1, <1>3, <1>6, <1>8, <1>9 DEF Joined
  <2> QED
    BY <2>1, Appended
<1>11. x \in Seq(S) /\ Len(x) = m + N /\ (\A i \in 1..m : x[i] = executed[i]) /\ \A i \in 1..N : x[m + i] = v[i]
  <2>1. Joined(S, executed, v, m, N, x)
    BY <1>1, <1>3, <1>7, <1>8, <1>9 DEF Joined
  <2> QED
    BY <2>1, Appended
<1>12. m + N = c + N - 1
  BY <1>1, <1>8
<1>13. \A p \in c..(c + N - 1) : p - c + 1 \in 1..N /\ m + (p - c + 1) = p
  BY <1>1, <1>8
<1>14. \A p \in c..(c + N - 1) : t[p] = LinesOf(fs[p - c + 1]) /\ x[p] = <<>>
  <2> SUFFICES ASSUME NEW p \in c..(c + N - 1) PROVE t[p] = LinesOf(fs[p - c + 1]) /\ x[p] = <<>>
    OBVIOUS
  <2>1. PICK i \in 1..N : i = p - c + 1 /\ m + i = p
    BY <1>13
  <2>2. t[p] = u[i] /\ x[p] = v[i]
    BY <2>1, <1>10, <1>11
  <2>3. u[i] = LinesOf(fs[i]) /\ v[i] = <<>>
    BY <1>4, <1>5, Zenon
  <2> QED
    BY <2>1, <2>2, <2>3, Zenon
<1>15. TextsOf(fs, N, c, t)
  BY <1>8, <1>10, <1>13, <1>14, Zenon DEF TextsOf
<1> QED
  BY <1>2, <1>8, <1>10, <1>11, <1>12, <1>14, <1>15, Zenon DEF HaveTexts

\* exec starts the scripts or leaves all but the status.
LEMMA ExecStarts ==
    ASSUME AllPlain, PlainIInv, NEW fs \in Batches, exec(fs)
    PROVE  \/ UNCHANGED <<frames, pcb, queue, lru, pid_counter, cpu, text, executed>>
           \/ \E N, c, P : ExecRuns(fs, N, c, P) /\ queue' = [i \in 1..N |-> c + i - 1]
<1> DEFINE st == Processes(fs)
<1>1. cpu.at = "prompt"
  BY Zenon DEF exec
<1>2. \/ /\ \A i \in DOMAIN fs : fs[i] \in DOMAIN Script
         /\ Start(fs, st)
      \/ UNCHANGED <<frames, pcb, queue, lru, pid_counter, cpu, text, executed>>
  BY Zenon DEF exec, Ends
<1>3. CASE ~st.ok /\ Start(fs, st)
  BY <1>3, Zenon DEF Start, Ends
<1>4. ASSUME \A i \in DOMAIN fs : fs[i] \in DOMAIN Script, st.ok, Start(fs, st)
      PROVE  \E N, c, P : ExecRuns(fs, N, c, P) /\ queue' = [i \in 1..N |-> c + i - 1]
  <2>1. PICK N \in Nat \ {0} : N = Len(fs) /\ DOMAIN fs = 1..N
    BY ScriptAssumption
  <2>2. PICK c \in Nat \ {0} : c = pid_counter
    BY DEF PlainIInv, IInv, QueueIntegrity, TypeOK
  <2>3. Begins(fs, N, c)
    BY <1>4, <2>1, <2>2 DEF Begins
  <2>4. PICK P : P = c..(c + N - 1)
    OBVIOUS
  <2>5. PICK Q : Q = 1..(c + N - 1)
    OBVIOUS
  <2>6. /\ frames' = st.fr /\ pcb' = st.pcb /\ lru' = st.lru /\ queue' = [i \in 1..N |-> c + i - 1]
        /\ pid_counter' = c + N /\ cpu' = [at |-> "first", pid |-> 0]
        /\ text' = text \o [i \in DOMAIN fs |-> LinesOf(fs[i])]
        /\ executed' = executed \o [i \in DOMAIN fs |-> <<>>]
    BY <1>4, <2>1, <2>2, Zenon DEF Start
  <2>7. P \subseteq Q /\ Pids \subseteq Q /\ pid_counter \in Nat
        /\ pid_counter..(pid_counter + N - 1) \subseteq Q
    BY <2>1, <2>2, <2>4, <2>5 DEF Pids
  <2>8. frames \in [FrameSlots -> [owner : Q \cup {0}, line : Lines]]
    <3>1. frames \in [FrameSlots -> [owner : Pids \cup {0}, line : Lines]]
      BY DEF PlainIInv, IInv, QueueIntegrity, TypeOK
    <3>2. \A r : r \in [owner : Pids \cup {0}, line : Lines] => r \in [owner : Q \cup {0}, line : Lines]
      BY <2>7
    <3> QED
      BY <3>1, <3>2
  <2>9. PICK h : NewProcs(fs, N, Q, h)
    <3>1. \A i \in 1..N : fs[i] \in DOMAIN Script
      BY <1>4, <2>1
    <3> QED
      BY <3>1, <2>1, <2>7, <2>8, ProcessesStart
  <2>10. /\ text' \in Seq(Seq(Lines)) /\ Len(text') = c + N - 1 /\ TextsOf(fs, N, c, text')
         /\ executed' \in Seq(Seq(Lines)) /\ Len(executed') = c + N - 1
         /\ \A p \in 1..(c - 1) : executed'[p] = executed[p]
         /\ \A p \in c..(c + N - 1) : executed'[p] = <<>>
    <3>1. PICK t, x : t = text' /\ x = executed'
      OBVIOUS
    <3>2. Longer(fs, t, x)
      BY <3>1, <2>6, Zenon DEF Longer
    <3>3. HaveTexts(fs, N, c, t, x)
      BY <3>2, <2>3, ExecTexts
    <3> QED
      BY <3>1, <3>3, Zenon DEF HaveTexts
  <2>11. SoFar(P, st, text', c, N, fs)
    <3>1. PICK t : t = text'
      OBVIOUS
    <3>2. TextsOf(fs, N, c, t)
      BY <3>1, <2>10, Zenon
    <3>3. Used(frames) = {}
      BY <1>1, PromptFree
    <3>4. SoFar(P, st, t, c, N, fs)
      BY <3>2, <3>3, <2>3, <2>4, <2>7, <2>9, BatchLoads
    <3> QED
      BY <3>1, <3>4, Zenon
  <2>12. /\ Stored(frames', pcb', lru', text')
         /\ \A p \in P : pcb'[p].page_table_size = PAGE_table_size(count_lines(fs[p - c + 1]))
         /\ \A p \in P : p < c + N => /\ ReadTo(pcb'[p], text'[p], 0, InitialPages(fs[p - c + 1]))
                                      /\ \A k \in {0, 1} : k < pcb'[p].page_table_size => <<p, k>> \in Range(lru')
    BY <1>4, <2>6, <2>11, Zenon DEF SoFar
  <2>13. DOMAIN st.pcb = P
    <3>1. h[N] = st /\ h[N] \in Starting(pid_counter..(pid_counter + N - 1), Q,
                                    [p \in pid_counter..(pid_counter + N - 1) |-> FreshPCB(fs[p - pid_counter + 1])])
      <4>1. N \in 0..N
        BY <2>1
      <4> QED
        BY <4>1, <2>9 DEF NewProcs
    <3> QED
      BY <3>1, <2>2, <2>4 DEF Starting, States
  <2>14. Live' = P /\ Pids' = 1..(c + N - 1)
    <3>1. Live' = P
      BY <2>6, <2>13 DEF Live
    <3>2. Pids' = 1..((c + N) - 1) /\ (c + N) - 1 = c + N - 1
      BY <2>1, <2>2, <2>6 DEF Pids
    <3> QED
      BY <3>1, <3>2
  <2>15. \A p \in P : p < c + N /\ p - c + 1 \in 1..N
    BY <2>1, <2>2, <2>4
  <2>16. \A p \in P : /\ fs[p - c + 1] \in DOMAIN Script
                      /\ text'[p] = LinesOf(fs[p - c + 1])
    BY <2>3, <2>4, <2>10, <2>15, Zenon DEF Begins, TextsOf
  <2>17. ExecRuns(fs, N, c, P)
    BY <2>3, <2>4, <2>6, <2>10, <2>12, <2>14, <2>15, <2>16, Zenon DEF ExecRuns
  <2> QED
    BY <2>6, <2>17
<1> QED
  BY <1>2, <1>3, <1>4

\* The facts about the number of starting pages.
LEMMA FirstPages ==
    ASSUME AllPlain, NEW f \in DOMAIN Script
    PROVE  LET n == PAGE_table_size(count_lines(f))
               l == InitialPages(f)
           IN  n \in Nat /\ l \in 0..n /\ l <= 2 /\ (l = n \/ l >= 2)
<1>1. PICK n \in Nat : n = PAGE_table_size(count_lines(f)) /\ n >= 1
  BY Sizes
<1>2. InitialPages(f) = IF n < 2 THEN n ELSE 2
  BY <1>1, Zenon DEF InitialPages
<1> QED
  BY <1>1, <1>2

\* What exec leaves the invariant's parts about scripts and texts.
LEMMA ExecFollows ==
    ASSUME AllPlain, PlainIInv, cpu.at = "prompt", NEW fs, NEW N, NEW c, NEW P, ExecRuns(fs, N, c, P)
    PROVE  /\ Texts' /\ \A p \in Live' : Follows(p)'
           /\ \A p \in P : Ran1(p)' = 0
<1>1. /\ N \in Nat \ {0} /\ c \in Nat \ {0} /\ c = pid_counter /\ P = c..(c + N - 1)
  BY DEF ExecRuns, Begins
<1>2. /\ text' \in Seq(Seq(Lines)) /\ Len(text') = c + N - 1
      /\ executed' \in Seq(Seq(Lines)) /\ Len(executed') = c + N - 1
      /\ pid_counter' = c + N /\ Live' = P /\ Pids' = 1..(c + N - 1)
  BY DEF ExecRuns
<1>3. \A p \in P : Ran1(p)' = 0
  <2> SUFFICES ASSUME NEW p \in P PROVE Ran1(p)' = 0
    OBVIOUS
  <2>1. executed'[p] = <<>>
    BY DEF ExecRuns
  <2>2. Ran1(p)' = Len(<<>>)
    BY <2>1, Zenon DEF Ran1
  <2> QED
    BY <2>2
<1>4. ASSUME NEW p \in P
      PROVE  \E f \in DOMAIN Script :
               /\ text'[p] = LinesOf(f)
               /\ ReadTo(pcb'[p], text'[p], 0, InitialPages(f))
               /\ pcb'[p].page_table_size = PAGE_table_size(count_lines(f))
  BY <1>4, Zenon DEF ExecRuns
<1>5. ASSUME NEW p \in P PROVE Follows(p)'
  <2>1. PICK f \in DOMAIN Script : /\ ReadTo(pcb'[p], text'[p], 0, InitialPages(f))
                                   /\ pcb'[p].page_table_size = PAGE_table_size(count_lines(f))
    BY <1>4
  <2>2. PICK n, l : n = PAGE_table_size(count_lines(f)) /\ l = InitialPages(f)
    OBVIOUS
  <2>3. n \in Nat /\ l \in 0..n /\ l <= 2 /\ (l = n \/ l >= 2)
    BY <2>2, FirstPages
  <2>4. PICK d, t, e : d = pcb'[p] /\ t = text'[p] /\ e = Ran1(p)'
    OBVIOUS
  <2>5. e = 0 /\ d.page_table_size = n /\ ReadTo(d, t, e, l)
    BY <2>1, <2>2, <2>4, <1>3, Zenon
  <2>6. OnTime(d, e, l)
    BY <2>3, <2>5 DEF OnTime
  <2>7. \E m \in 0..d.page_table_size : ReadTo(d, t, e, m) /\ OnTime(d, e, m)
    BY <2>3, <2>5, <2>6
  <2> QED
    BY <2>4, <2>7, Zenon DEF Follows
<1>6. ASSUME NEW p \in 1..(c + N - 1)
      PROVE  /\ \E f \in DOMAIN Script : text'[p] = LinesOf(f)
             /\ Ran1(p)' <= Len(text'[p])
             /\ \A i \in 1..Ran1(p)' : executed'[p][i] = text'[p][i]
             /\ p \notin P => Ran1(p)' = Len(text'[p])
  <2>1. CASE p \in P
    <3>1. Ran1(p)' = 0
      BY <2>1, <1>3
    <3>2. PICK f \in DOMAIN Script : text'[p] = LinesOf(f)
      BY <2>1, <1>4
    <3>3. Len(text'[p]) \in Nat
      BY <1>2, <1>6, LenProperties
    <3> QED
      BY <2>1, <3>1, <3>2, <3>3
  <2>2. CASE p \notin P
    <3>1. p \in 1..(c - 1) /\ p \in Pids
      BY <2>2, <1>1, <1>6 DEF Pids
    <3>2. text'[p] = text[p] /\ executed'[p] = executed[p]
      BY <3>1 DEF ExecRuns, TextsOf
    <3>3. Ran1(p)' = Ran1(p)
      BY <3>2, Zenon DEF Ran1
    <3>4. p \notin Live
      BY DEF PlainIInv
    <3>5. /\ \E f \in DOMAIN Script : text[p] = LinesOf(f)
          /\ Ran1(p) <= Len(text[p])
          /\ \A i \in 1..Ran1(p) : executed[p][i] = text[p][i]
          /\ Ran1(p) = Len(text[p])
      BY <3>1, <3>4 DEF PlainIInv, Texts
    <3> QED
      BY <3>2, <3>3, <3>5, Zenon
  <2> QED
    BY <2>1, <2>2
<1>7. Texts'
  <2>1. Len(text') = pid_counter' - 1 /\ Len(executed') = pid_counter' - 1
    BY <1>1, <1>2
  <2> QED
    BY <2>1, <1>2, <1>6, Zenon DEF Texts
<1>8. \A p \in Live' : Follows(p)'
  BY <1>2, <1>5, Zenon
<1> QED
  BY <1>3, <1>7, <1>8

\* There is a frame for each page that exec has loaded.
LEMMA ExecEnough ==
    ASSUME AllPlain, IInv', NEW fs, NEW N, NEW c, NEW P, ExecRuns(fs, N, c, P)
    PROVE  Enough'
<1>1. PICK r : r = lru'
  OBVIOUS
<1>2. PICK S : S = P \X Nat
  OBVIOUS
<1>3. r \in Seq(S)
  BY <1>1, <1>2, Zenon DEF IInv, QueueIntegrity, TypeOK, ExecRuns
<1>4. PICK U : U = Used(frames') /\ Distinct(r) /\ 3 * Len(r) = Cardinality(U)
  BY <1>1, Zenon DEF ExecRuns, Stored, Distinct
<1>5. IsFiniteSet(Range(r)) /\ Cardinality(Range(r)) = Len(r)
  BY <1>3, <1>4, DistinctCount
<1>6. IsFiniteSet(U) /\ Cardinality(U) \in Nat /\ Cardinality(U) <= FRAME_STORE_SIZE
  <2>1. U \subseteq FrameSlots
    BY <1>4 DEF Used
  <2>2. Cardinality(U) <= Cardinality(FrameSlots) /\ IsFiniteSet(U)
    BY <2>1, SlotsAreNats, FS_Subset
  <2> QED
    BY <2>2, SlotsAreNats, FS_CardinalityType
<1>7. PICK W : W = Starters'
  OBVIOUS
<1>8. W \subseteq Range(r)
  <2> SUFFICES ASSUME NEW x \in W PROVE x \in Range(r)
    OBVIOUS
  <2>1. x \in Live' \X {0, 1} /\ x[2] < pcb'[x[1]].page_table_size
    BY <1>7 DEF Starters
  <2>2. PICK p \in P, k \in {0, 1} : x = <<p, k>> /\ k < pcb'[p].page_table_size
    <3>1. Live' = P
      BY DEF ExecRuns
    <3> QED
      BY <2>1, <3>1
  <2>3. <<p, k>> \in Range(lru')
    BY <2>2, Zenon DEF ExecRuns
  <2> QED
    BY <2>2, <2>3, <1>1, Zenon
<1>9. IsFiniteSet(W) /\ Cardinality(W) <= Cardinality(Range(r)) /\ Cardinality(W) \in Nat
  BY <1>5, <1>8, FS_Subset, FS_CardinalityType
<1>10. PICK w, n, u \in Nat : w = Cardinality(W) /\ n = Cardinality(Range(r)) /\ u = Cardinality(U)
  BY <1>5, <1>6, <1>9, FS_CardinalityType
<1>11. w <= n /\ 3 * n = u /\ u <= FRAME_STORE_SIZE
  BY <1>4, <1>5, <1>6, <1>9, <1>10, Zenon
<1>12. w <= FRAME_STORE_SIZE \div 3
  BY <1>11, StoreAssumption
<1> QED
  BY <1>7, <1>10, <1>12, Zenon DEF Enough

\* exec of plain scripts keeps the invariant.
LEMMA ExecPlain ==
    ASSUME AllPlain, PlainIInv, NEW fs \in Batches, exec(fs)
    PROVE  PlainIInv'
<1>1. IInv'
  BY ExecIInv DEF PlainIInv
<1>2. CASE UNCHANGED <<frames, pcb, queue, lru, pid_counter, cpu, text, executed>>
  BY <1>1, <1>2, SamePlain
<1>3. ASSUME NEW N, NEW c, NEW P, ExecRuns(fs, N, c, P), queue' = [i \in 1..N |-> c + i - 1] PROVE PlainIInv'
  <2>1. cpu.at = "prompt"
    BY Zenon DEF exec
  <2>2. /\ Texts' /\ \A p \in Live' : Follows(p)'
        /\ \A p \in P : Ran1(p)' = 0
    BY <1>3, <2>1, ExecFollows
  <2>3. Enough'
    BY <1>1, <1>3, ExecEnough
  <2>4. /\ Live' = P /\ cpu' = [at |-> "first", pid |-> 0]
        /\ Stored(frames', pcb', lru', text')
    BY <1>3 DEF ExecRuns
  <2>5. cpu'.at = "first" /\ cpu'.pid = 0
    BY <2>4
  <2>6. Waiting' \subseteq P
    BY <1>1, <2>4 DEF IInv, QueueIntegrity
  <2>7. ASSUME NEW p \in P PROVE Early(p)' = 0
    <3>1. Begun(p)' = 0
      BY <2>2, <2>5, <2>7 DEF Begun
    <3> QED
      BY <3>1 DEF Early
  <2>8. InStep'
    <3>1. 0 \in {0, 2, 4, 6} /\ 0 <= 0 /\ 0 <= 0 + 2
      OBVIOUS
    <3>2. \A p \in Waiting' \cup ({cpu'.pid} \ {0}) : Early(p)' \in {0, 2, 4, 6}
      BY <2>5, <2>6, <2>7, <3>1
    <3>3. \A p, q \in Live' : Early(p)' <= Early(q)' /\ Early(q)' <= Early(p)' + 2
      BY <2>4, <2>7, <3>1
    <3> QED
      BY <3>2, <3>3, Zenon DEF InStep
  <2>9. UsedLately'
    <3>1. \A p \in Waiting' : ~(Ran1(p)' >= 4)
      BY <2>2, <2>6
    <3> QED
      BY <3>1, Zenon DEF UsedLately
  <2> QED
    BY <1>1, <2>2, <2>3, <2>4, <2>5, <2>8, <2>9, Zenon DEF PlainIInv
<1> QED
  BY <1>2, <1>3, ExecStarts

\* The initial state.
LEMMA InitPlain == Init => PlainIInv
<1> SUFFICES ASSUME Init PROVE PlainIInv
  OBVIOUS
<1>1. IInv
  BY InitIInv
<1>2. /\ frames = [i \in FrameSlots |-> none] /\ pcb = <<>> /\ queue = <<>> /\ lru = <<>>
      /\ pid_counter = 1 /\ cpu = Prompt /\ text = <<>> /\ executed = <<>>
  BY DEF Init
<1>3. Live = {} /\ Waiting = {} /\ Range(lru) = {} /\ Pids = {} /\ DOMAIN queue = {} /\ cpu.pid = 0 /\ cpu.at = "prompt"
  BY <1>2 DEF Live, Waiting, Range, Pids, Prompt
<1>4. Texts
  BY <1>2, <1>3 DEF Texts
<1>5. Used(frames) = {}
  BY <1>2 DEF Used, none
<1>6. Stored(frames, pcb, lru, text)
  <2>1. PagesIn(pcb) = {} /\ DOMAIN lru = {}
    BY <1>2 DEF PagesIn
  <2>2. 3 * Len(lru) = Cardinality(Used(frames))
    <3>1. Len(lru) = 0 /\ Cardinality({}) = 0
      BY <1>2, FS_EmptySet
    <3> QED
      BY <3>1, <1>5
  <2> QED
    BY <2>1, <2>2, <1>3, <1>5 DEF Stored
<1>7. InStep /\ UsedLately
  BY <1>3 DEF InStep, UsedLately, Ahead, Before
<1>8. Enough
  <2>1. Starters = {} /\ Cardinality({}) = 0
    BY <1>3, FS_EmptySet DEF Starters
  <2>2. 0 <= FRAME_STORE_SIZE \div 3
    BY StoreAssumption
  <2> QED
    BY <2>1, <2>2 DEF Enough
<1> QED
  BY <1>1, <1>2, <1>3, <1>4, <1>6, <1>7, <1>8 DEF PlainIInv

\* Every step keeps the invariant of plain scripts.
LEMMA NextPlain ==
    ASSUME AllPlain, PlainIInv, [Next]_vars
    PROVE  PlainIInv'
<1>1. IInv'
  BY NextIInv DEF PlainIInv
<1>2. CASE UNCHANGED vars
  BY <1>1, <1>2, SamePlain DEF vars
<1>3. ASSUME NEW fs \in Batches, exec(fs) PROVE PlainIInv'
  BY <1>3, ExecPlain
<1>4. ASSUME NEW x \in Names, set(x) PROVE PlainIInv'
  <2>1. UNCHANGED <<frames, pcb, queue, lru, pid_counter, cpu, text, executed>>
    BY <1>4 DEF set
  <2> QED
    BY <1>1, <2>1, SamePlain
<1>5. CASE resetmem
  <2>1. UNCHANGED <<frames, pcb, queue, lru, pid_counter, cpu, text, executed>>
    BY <1>5 DEF resetmem
  <2> QED
    BY <1>1, <2>1, SamePlain
<1>6. CASE page_fault
  BY <1>6, FaultPlain
<1>7. CASE CommandReturnsOne
  BY <1>7, NoOnes DEF CommandReturnsOne
<1>8. CASE cpu_run
  BY <1>8, RunPlain
<1>9. CASE Drop
  BY <1>9, DropPlain
<1>10. CASE free_PCB
  BY <1>10, FreePlain
<1>11. CASE EvictOutside
  BY <1>11, NoneOutside
<1> QED
  BY <1>2, <1>3, <1>4, <1>5, <1>6, <1>7, <1>8, <1>9, <1>10, <1>11 DEF Next, Kernel

\* The invariant of plain scripts holds in every state.
THEOREM PlainInvariance == ASSUME AllPlain PROVE Spec => []PlainIInv
<1>1. Init => PlainIInv
  BY InitPlain
<1>2. PlainIInv /\ [Next]_vars => PlainIInv'
  BY NextPlain
<1> QED
  BY <1>1, <1>2, PTL DEF Spec

\* The pages that are in frames, as the model and as the invariant say it.
LEMMA LoadedPages == IInv => Loaded = PagesIn(pcb)
<1> SUFFICES ASSUME IInv PROVE Loaded = PagesIn(pcb)
  OBVIOUS
<1>1. ASSUME NEW x \in Loaded PROVE x \in PagesIn(pcb)
  <2>0. PICK p \in Live : \E k \in DOMAIN pcb[p].page_table : x = <<p, k>> /\ pcb[p].page_table[k].valid_bit[0]
    BY <1>1, Zenon DEF Loaded
  <2>1. PICK k \in DOMAIN pcb[p].page_table : x = <<p, k>> /\ pcb[p].page_table[k].valid_bit[0]
    BY <2>0
  <2>2. x[1] = p /\ x[2] = k /\ x \in {p} \X DOMAIN pcb[p].page_table
    BY <2>1
  <2> QED
    BY <2>1, <2>2, Zenon DEF PagesIn, Live
<1>2. ASSUME NEW x \in PagesIn(pcb) PROVE x \in Loaded
  <2>1. PICK p \in Live : x \in {p} \X DOMAIN pcb[p].page_table
    BY <1>2 DEF PagesIn, Live
  <2>2. PICK k \in DOMAIN pcb[p].page_table : x = <<p, k>> /\ x[1] = p /\ x[2] = k
    BY <2>1
  <2>3. pcb[p].page_table[k].valid_bit[0]
    BY <1>2, <2>2, Zenon DEF PagesIn
  <2>4. x \in {<<p, i>> : i \in {i \in DOMAIN pcb[p].page_table : pcb[p].page_table[i].valid_bit[0]}}
    BY <2>2, <2>3
  <2> QED
    BY <2>4 DEF Loaded
<1> QED
  BY <1>1, <1>2

\* The list and the frames agree.
LEMMA PlainLRU == PlainIInv => LRUMatchesFrames
<1> SUFFICES ASSUME PlainIInv PROVE LRUMatchesFrames
  OBVIOUS
<1>1. Range(lru) = Loaded
  BY LoadedPages DEF PlainIInv, Stored
<1>2. {lru[n] : n \in DOMAIN lru} = Loaded
  BY <1>1 DEF Range
<1>3. Len(lru) = Cardinality(Loaded)
  <2>1. PICK S : S = Live \X Nat
    OBVIOUS
  <2>2. lru \in Seq(S) /\ Distinct(lru)
    BY <2>1 DEF PlainIInv, IInv, QueueIntegrity, TypeOK, Stored, Distinct
  <2>3. Cardinality(Range(lru)) = Len(lru)
    BY <2>2, DistinctCount
  <2> QED
    BY <2>3, <1>1, Zenon
<1>4. ASSUME NEW pg \in Loaded, NEW j \in 0..2
      PROVE  frames[pcb[pg[1]].page_table[pg[2]].index[j]].owner = pg[1]
  <2>0. PICK t : t = text[pg[1]]
    OBVIOUS
  <2>1. PICK a \in FrameSlots : InFrame(frames, pcb, pg, t, a)
    BY <1>1, <2>0 DEF PlainIInv, Stored
  <2>2. a \in Nat
    BY SlotsAreNats
  <2>3. pcb[pg[1]].page_table[pg[2]].index[j] = 3 * a + j /\ frames[3 * a + j].owner = pg[1]
    BY <2>1, <2>2, FrameOfPage
  <2> QED
    BY <2>3
<1>5. 3 * Len(lru) = Cardinality({i \in FrameSlots : frames[i].owner # 0})
  BY Zenon DEF PlainIInv, Stored, Used
<1> QED
  BY <1>2, <1>3, <1>4, <1>5, Zenon DEF LRUMatchesFrames

\* A line of a text is among the lines on its page.
LEMMA LineOnPage ==
    ASSUME NEW n \in Nat, NEW k \in Nat, NEW j \in 0..2, 3 * k + j < n, NEW t, n = Len(t)
    PROVE  \E m \in Nat : m = LinesOn(t, k) /\ j < m
<1>1. n - 3 * k \in Nat /\ j < n - 3 * k /\ j < 3
  OBVIOUS
<1>2. LinesOn(t, k) = (IF n - 3 * k < 3 THEN n - 3 * k ELSE 3)
  BY DEF LinesOn
<1>3. PICK m : m = LinesOn(t, k)
  OBVIOUS
<1>4. CASE n - 3 * k < 3
  <2>1. m = n - 3 * k
    BY <1>2, <1>3, <1>4, Zenon
  <2> QED
    BY <2>1, <1>1, <1>3, Zenon
<1>5. CASE ~(n - 3 * k < 3)
  <2>1. m = 3 /\ 3 \in Nat
    BY <1>2, <1>3, <1>5
  <2> QED
    BY <2>1, <1>1, <1>3, Zenon
<1> QED
  BY <1>4, <1>5

\* Page k of process p is in memory or was, and line j of it is to be run.
ToRunOn(p, k, j, c, t, n) ==
    /\ c = pcb[p] /\ t = text[p] /\ n = Len(t) /\ k \in DOMAIN c.page_table
    /\ c.program_counter[k] < 3 /\ c.page_table[k].index[0] # 1000
    /\ j \in c.program_counter[k]..2 /\ 3 * k + j < n

\* Such a line is where it was put.
LEMMA LineStays ==
    ASSUME PlainIInv, NEW p \in Live, NEW k, NEW j, NEW c, NEW t, NEW n, ToRunOn(p, k, j, c, t, n)
    PROVE  c.page_table[k].valid_bit[j] /\ frames[c.page_table[k].index[j]].line = t[3 * k + j + 1]
<1>1. p \in Pids /\ IsPCB(pcb[p])
  BY DEF PlainIInv, IInv, QueueIntegrity, TypeOK
<1>2. c = pcb[p] /\ t = text[p] /\ k \in DOMAIN c.page_table
  BY DEF ToRunOn
<1>3. PICK e \in Nat : n \in Nat /\ e = Ran1(p) /\ n = Len(t) /\ e <= n
  BY <1>1, TextFacts DEF ToRunOn
<1>4. PICK l \in 0..c.page_table_size : ReadTo(c, t, e, l)
  BY <1>2, <1>3 DEF PlainIInv, Follows
<1>5. /\ c.page_table_size \in Nat /\ DOMAIN c.page_table = 0..(c.page_table_size - 1)
      /\ DOMAIN c.program_counter = 0..(c.page_table_size - 1) /\ k \in Nat
      /\ c.program_counter \in [0..(c.page_table_size - 1) -> 0..3]
  <2>1. IsPCB(c)
    BY <1>1, <1>2
  <2> QED
    BY <2>1, <1>2, PCBFields
<1>6. PICK pc \in 0..2 : /\ pc = c.program_counter[k]
                         /\ pc = IF 3 * k + 3 <= e THEN 3 ELSE IF e <= 3 * k THEN 0 ELSE e - 3 * k
  <2>1. c.program_counter[k] \in 0..3 /\ c.program_counter[k] < 3
    BY <1>2, <1>5 DEF ToRunOn
  <2>2. c.program_counter[k] = IF 3 * k + 3 <= e THEN 3 ELSE IF e <= 3 * k THEN 0 ELSE e - 3 * k
    BY <1>2, <1>4, <1>5 DEF ReadTo, HasRun
  <2> QED
    BY <2>1, <2>2
<1>7. j \in pc..2 /\ j \in 0..2 /\ 3 * k + j < n
  <2>1. j \in pc..2 /\ 3 * k + j < n
    BY <1>6 DEF ToRunOn
  <2> QED
    BY <2>1
<1>8. e < 3 * k + 3 /\ e <= 3 * k + j
  BY <1>3, <1>5, <1>6, <1>7
<1>9. c.page_table[k].valid_bit[0]
  <2>1. ~(3 * k + 3 <= e) /\ ~(e = n)
    BY <1>3, <1>5, <1>7, <1>8
  <2>2. c.page_table[k] # PAGE_init
    <3>1. PAGE_init.index[0] = 1000
      BY DEF PAGE_init
    <3> QED
      BY <3>1, Zenon DEF ToRunOn
  <2>3. \/ c.page_table[k] = PAGE_init \/ c.page_table[k].valid_bit[0]
        \/ (c.page_table[k] = Evicted /\ (3 * k + 3 <= e \/ e = Len(t)))
    BY <1>2, <1>4, Zenon DEF ReadTo
  <2> QED
    BY <2>1, <2>2, <2>3, <1>3, Zenon
<1>10. PICK pg : pg = <<p, k>> /\ pg \in Range(lru) /\ pg[1] = p /\ pg[2] = k
  <2>1. <<p, k>> \in PagesIn(pcb)
    BY <1>2, <1>9 DEF PagesIn, Live
  <2> QED
    BY <2>1 DEF PlainIInv, Stored
<1>11. PICK a \in Nat : InFrame(frames, pcb, pg, t, a)
  BY <1>2, <1>10, SlotsAreNats DEF PlainIInv, Stored
<1>12. PICK m \in Nat : m = LinesOn(t, k) /\ j < m
  BY <1>3, <1>5, <1>7, LineOnPage
<1>13. c.page_table[k].valid_bit[j]
  <2>1. c.page_table[k] = PageAt(3 * a, m)
    BY <1>2, <1>10, <1>11, <1>12, Zenon DEF InFrame
  <2>2. PageAt(3 * a, m).valid_bit[j]
    BY <1>7, <1>12, ValidBits
  <2> QED
    BY <2>1, <2>2, Zenon
<1>14. frames[c.page_table[k].index[j]].line = t[3 * k + j + 1]
  <2>1. c.page_table[k].index[j] = 3 * a + j
    BY <1>2, <1>7, <1>10, <1>11, FrameOfPage
  <2>2. frames[3 * a + j].line = t[3 * k + j + 1]
    BY <1>7, <1>10, <1>11, <1>12 DEF InFrame
  <2> QED
    BY <2>1, <2>2
<1> QED
  BY <1>13, <1>14, Zenon

\* Lines that are still to be run stay where they are.
LEMMA PlainNeeded == PlainIInv => NeededPagesStay
<1> SUFFICES ASSUME PlainIInv, NEW p \in Live, NEW k \in DOMAIN pcb[p].page_table,
                    pcb[p].program_counter[k] < 3, pcb[p].page_table[k].index[0] # 1000,
                    NEW j \in pcb[p].program_counter[k]..2, 3 * k + j < Len(text[p])
             PROVE  /\ pcb[p].page_table[k].valid_bit[j]
                    /\ frames[pcb[p].page_table[k].index[j]].line = text[p][3 * k + j + 1]
  BY DEF NeededPagesStay
<1>1. PICK c, t, n : c = pcb[p] /\ t = text[p] /\ n = Len(t)
  OBVIOUS
<1>2. ToRunOn(p, k, j, c, t, n)
  BY <1>1, Zenon DEF ToRunOn
<1>3. c.page_table[k].valid_bit[j] /\ frames[c.page_table[k].index[j]].line = t[3 * k + j + 1]
  BY <1>2, LineStays
<1> QED
  BY <1>1, <1>3, Zenon

\* What has been run is the beginning of the script.
LEMMA PlainExecutes == PlainIInv => ExecutesScript
<1> SUFFICES ASSUME PlainIInv, NEW p \in Pids
             PROVE  /\ executed[p] = SubSeq(text[p], 1, Len(executed[p]))
                    /\ p \notin Live => Len(executed[p]) >= Len(text[p])
  BY DEF ExecutesScript
<1>1. PICK x, t : x = executed[p] /\ t = text[p] /\ x \in Seq(Lines) /\ t \in Seq(Lines)
  BY TextFacts
<1>2. PICK e, n \in Nat : e = Len(x) /\ n = Len(t) /\ e <= n
  BY <1>1, TextFacts DEF Ran1
<1>3. PICK u : u = SubSeq(t, 1, e)
  OBVIOUS
<1>4. \A i \in 1..e : x[i] = t[i]
  BY <1>1, <1>2 DEF PlainIInv, Texts, Ran1
<1>5. u \in Seq(Lines) /\ Len(u) = e /\ \A i \in 1..e : u[i] = t[i]
  <2>1. \A i \in 1..e : t[i] \in Lines
    <3>1. DOMAIN t = 1..n
      BY <1>1, <1>2, LenProperties
    <3>2. \A i \in 1..e : i \in 1..n
      BY <1>2
    <3> QED
      BY <3>1, <3>2, <1>1, <1>2, ElementOfSeq
  <2>2. /\ SubSeq(t, 1, e) \in Seq(Lines)
        /\ Len(SubSeq(t, 1, e)) = IF 1 <= e THEN e - 1 + 1 ELSE 0
        /\ \A i \in 1..(e - 1 + 1) : SubSeq(t, 1, e)[i] = t[1 + i - 1]
    <3>1. 1 \in Int /\ e \in Int
      BY <1>2
    <3> QED
      BY <3>1, <2>1, SubSeqProperties
  <2>3. (IF 1 <= e THEN e - 1 + 1 ELSE 0) = e /\ e - 1 + 1 = e /\ \A i \in 1..e : 1 + i - 1 = i
    BY <1>2
  <2>4. Len(u) = e
    BY <2>2, <2>3, <1>3, Zenon
  <2>5. \A i \in 1..e : u[i] = t[i]
    BY <2>2, <2>3, <1>3, Zenon
  <2> QED
    BY <2>2, <2>4, <2>5, <1>3, Zenon
<1>6. x = u
  <2>1. DOMAIN x = 1..e /\ DOMAIN u = 1..e /\ x = [i \in DOMAIN x |-> x[i]] /\ u = [i \in DOMAIN u |-> u[i]]
    BY <1>1, <1>2, <1>5, LenProperties
  <2>2. \A i \in 1..e : x[i] = u[i]
    BY <1>4, <1>5, Zenon
  <2> QED
    BY <2>1, <2>2
<1>7. p \notin Live => e = n
  BY <1>1, <1>2 DEF PlainIInv, Texts, Ran1
<1>8. p \notin Live => e >= n
  BY <1>2, <1>7
<1> QED
  BY <1>1, <1>2, <1>3, <1>6, <1>8, Zenon

\* All frames are free at the prompt.
LEMMA PlainReturned == PlainIInv => FramesReturned
  BY PromptFree DEF FramesReturned

\* A variable behind the spill is not touched by a step of run_proc_RR: the
\* slots PAGE_evict frees are in frames, and free_PCB does not reach it.
LEMMA BehindStep ==
    ASSUME AllPlain, PlainIInv, [Next]_vars, cpu.at # "prompt",
           NEW i \in VarSlots, i >= FRAME_VAR_BORDER + Spill
    PROVE  variables'[i] = variables[i]
<1>1. CASE UNCHANGED variables
  BY <1>1
<1>2. ASSUME NEW fs \in Batches, exec(fs) PROVE FALSE
  BY <1>2, Zenon DEF exec
<1>3. ASSUME NEW x \in Names, set(x) PROVE FALSE
  BY <1>3, Zenon DEF set
<1>4. CASE resetmem
  BY <1>4 DEF resetmem
<1>5. i \notin FrameSlots
  BY StoreAssumption DEF VarSlots, FrameSlots, FRAME_VAR_BORDER
<1>6. CASE page_fault
  <2>1. InTurn /\ FreeVariables /\ IInv
    BY <1>6 DEF page_fault, PageIn, PlainIInv
  <2>2. lru # <<>>
    BY <2>1, TurnFacts DEF IInv, InTurnOK
  <2>3. i \notin Freed
    BY <2>2, <1>5, FreedFrames
  <2> QED
    BY <2>1, <2>3 DEF FreeVariables
<1>7. CASE CommandReturnsOne
  BY <1>7, NoOnes DEF CommandReturnsOne
<1>8. CASE EvictOutside
  BY <1>8, NoneOutside
<1>9. CASE cpu_run \/ Drop
  BY <1>1, <1>9 DEF cpu_run, Drop
<1>10. CASE free_PCB
  <2>1. cpu.at = "first" /\ queue_done
    BY <1>10 DEF free_PCB
  <2>2. i \in Int /\ FRAME_VAR_BORDER + Spill \in Int
    BY StoreAssumption DEF VarSlots, FRAME_VAR_BORDER, Spill
  <2>3. i \notin Cleared
    BY <2>1, <2>2, ClearedSlots
  <2>4. variables' = [h \in VarSlots |-> IF h \in Cleared THEN NoName ELSE variables[h]]
    BY <2>1, <1>10, ClearedSlots DEF free_PCB
  <2> QED
    BY <2>3, <2>4
<1> QED
  BY <1>1, <1>2, <1>3, <1>4, <1>6, <1>7, <1>8, <1>9, <1>10 DEF Next, Kernel, vars

-----------------------------------------------------------------------------
(* What the shell keeps for plain scripts.                                 *)

\* The LRU list and the page tables say the same of the frames: each page
\* with a line in memory is on the list once, in three slots of its own, so
\* PAGE_evict frees no other process's lines.
THEOREM LRUMatches == ASSUME AllPlain PROVE Spec => []LRUMatchesFrames
  BY PlainInvariance, PlainLRU, PTL

\* Page replacement takes no page with a line that is still to be run, which
\* load_PAGE, reading the file on and never again, could not bring back.
THEOREM NeededStay == ASSUME AllPlain PROVE Spec => []NeededPagesStay
  BY PlainInvariance, PlainNeeded, PTL

\* Every process runs the lines of its own script in order, and all of them
\* by the time run or exec comes back.
THEOREM ScriptsExecuted == ASSUME AllPlain PROVE Spec => []ExecutesScript
  BY PlainInvariance, PlainExecutes, PTL

\* free_PCB gives back every frame.
THEOREM FramesComeBack == ASSUME AllPlain PROVE Spec => []FramesReturned
  BY PlainInvariance, PlainReturned, PTL

\* Running scripts clears no variable behind the spill, whatever the number of
\* slots: clear_frame goes at most two slots beyond the last frame.
THEOREM VariablesBehind == ASSUME AllPlain PROVE Spec => VariablesBehindKept
<1>1. PlainIInv /\ [Next]_vars =>
        [PlainSoFar /\ cpu.at # "prompt" =>
           \A i \in VarSlots : i >= FRAME_VAR_BORDER + Spill => variables'[i] = variables[i]]_vars
  BY BehindStep
<1>2. Spec => []PlainIInv
  BY PlainInvariance
<1> QED
  BY <1>1, <1>2, PTL DEF Spec, VariablesBehindKept
=============================================================================
