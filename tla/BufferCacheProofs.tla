-------------------------- MODULE BufferCacheProofs --------------------------
(***************************************************************************)
(* Proofs about BufferCache for every number of sectors and slots.         *)
(***************************************************************************)
EXTENDS BufferCache, TLAPS

\* With one copy per sector, buffer_cache_lookup finds the slot that holds it.
LEMMA LookupUnique ==
    TypeOK /\ OneCopy =>
        \A s \in Sectors, i \in Slots :
            i \in Holding(s) => Holding(s) = {i} /\ buffer_cache_lookup(s) = i
<1> SUFFICES ASSUME TypeOK, OneCopy, NEW s \in Sectors, NEW i \in Slots, i \in Holding(s)
             PROVE  Holding(s) = {i} /\ buffer_cache_lookup(s) = i
  OBVIOUS
<1>1. Holding(s) = {i}
  BY DEF Holding, OneCopy
<1>2. i <= i
  BY CacheSizeAssumption DEF Slots
<1>3. buffer_cache_lookup(s) = i
  BY <1>1, <1>2 DEF buffer_cache_lookup
<1> QED
  BY <1>1, <1>3

\* The view of a cached sector is its buffer, of any other the disk image.
ViewReads ==
    /\ View \in [Sectors -> Data]
    /\ \A i \in Slots : cache[i].occupied
          => View[cache[i].disk_sector] = cache[i].buffer
    /\ \A s \in Sectors : (\A i \in Slots : ~(cache[i].occupied /\ cache[i].disk_sector = s))
          => View[s] = disk[s]

\* What the cache presents for a sector, from the slot that holds it.
LEMMA ViewValue == TypeOK /\ OneCopy => ViewReads
<1> SUFFICES ASSUME TypeOK, OneCopy PROVE ViewReads
  OBVIOUS
<1>1. \A s \in Sectors : Holding(s) = {} => View[s] = disk[s]
  BY DEF View
<1>2. ASSUME NEW i \in Slots, cache[i].occupied
      PROVE  View[cache[i].disk_sector] = cache[i].buffer
  <2>1. cache[i].disk_sector \in Sectors /\ i \in Holding(cache[i].disk_sector)
    BY <1>2 DEF Holding, TypeOK, Entry
  <2>2. Holding(cache[i].disk_sector) # {} /\ buffer_cache_lookup(cache[i].disk_sector) = i
    BY <2>1, LookupUnique
  <2> QED
    BY <2>1, <2>2 DEF View
<1>3. ASSUME NEW s \in Sectors PROVE View[s] \in Data
  <2>1. CASE Holding(s) = {}
    BY <2>1, <1>1 DEF TypeOK
  <2>2. CASE Holding(s) # {}
    <3>1. PICK i \in Slots : cache[i].occupied /\ cache[i].disk_sector = s
      BY <2>2 DEF Holding
    <3> QED
      BY <3>1, <1>2 DEF TypeOK, Entry
  <2> QED
    BY <2>1, <2>2
<1>4. \A s \in Sectors : (\A i \in Slots : ~(cache[i].occupied /\ cache[i].disk_sector = s))
          => Holding(s) = {}
  BY DEF Holding
<1>5. View \in [Sectors -> Data]
  BY <1>3 DEF View
<1> QED
  BY <1>1, <1>2, <1>4, <1>5 DEF ViewReads

\* The initial state satisfies the inductive invariant.
LEMMA InitIInv == Init => IInv
<1> SUFFICES ASSUME Init PROVE IInv
  OBVIOUS
<1> USE NumSectorsAssumption, ZerosAssumption, CacheSizeAssumption
<1>1. 0 \in Sectors /\ 0 \in Slots /\ BUFFER_CACHE_SIZE \in 0..BUFFER_CACHE_SIZE
  BY DEF Sectors, Slots
<1>2. EmptyEntry \in Entry /\ NoCall \in Call /\ NoCall.op = "none"
  BY <1>1 DEF EmptyEntry, Entry, NoCall, Call
<1>3. TypeOK
  BY <1>1, <1>2 DEF Init, TypeOK
<1>4. \A i \in Slots : ~cache[i].occupied
  BY DEF Init, EmptyEntry
<1> QED
  BY <1>2, <1>3, <1>4 DEF Init, IInv, OneCopy, CleanMatchesDisk, FlushedSoFar, CallMissed, NotClosing

\* Every step of the cache preserves the inductive invariant.
LEMMA NextIInv == IInv /\ [Next]_vars => IInv'
<1> SUFFICES ASSUME IInv, [Next]_vars PROVE IInv'
  OBVIOUS
<1> USE NumSectorsAssumption, ZerosAssumption, CacheSizeAssumption
<1>t. TypeOK /\ OneCopy /\ CleanMatchesDisk /\ FlushedSoFar /\ CallMissed
  BY DEF IInv
<1>z. 0 \in Sectors /\ 0 \in Slots
  BY DEF Sectors, Slots
<1>1. ASSUME NEW s \in Sectors, ReadHit(s) PROVE IInv'
  <2>1. PICK i \in Slots : i \in Holding(s) /\ buffer_cache_lookup(s) = i
    BY <1>1, <1>t, LookupUnique DEF ReadHit, Holding
  <2>2. cache' = [cache EXCEPT ![i].access = TRUE] /\ result' = {<<s, cache[i].buffer>>}
    BY <1>1, <2>1 DEF ReadHit
  <2>a. cache' \in [Slots -> Entry]
    BY <1>t, <2>2 DEF TypeOK, Entry
  <2>b. cache[i].buffer \in Data
    BY <1>t DEF TypeOK, Entry
  <2>3. TypeOK'
    BY <1>1, <1>t, <2>2, <2>a, <2>b DEF ReadHit, TypeOK
  <2> QED
    BY <1>1, <1>t, <2>2, <2>3 DEF ReadHit, IInv, OneCopy, CleanMatchesDisk, FlushedSoFar,
       CallMissed, TypeOK, Entry, Idle, NotClosing
<1>2. ASSUME NEW s \in Sectors, NEW d \in Data, WriteHit(s, d) PROVE IInv'
  <2>1. PICK i \in Slots : i \in Holding(s) /\ buffer_cache_lookup(s) = i
    BY <1>2, <1>t, LookupUnique DEF WriteHit, Holding
  <2>2. cache' = [cache EXCEPT ![i].access = TRUE, ![i].dirty = TRUE, ![i].buffer = d]
    BY <1>2, <2>1 DEF WriteHit
  <2>a. cache' \in [Slots -> Entry]
    BY <1>t, <2>2, ZenonT(60) DEF TypeOK, Entry
  <2>3. TypeOK'
    BY <1>2, <1>t, <2>a DEF WriteHit, TypeOK
  <2> QED
    BY <1>2, <1>t, <2>2, <2>3 DEF WriteHit, IInv, OneCopy, CleanMatchesDisk, FlushedSoFar,
       CallMissed, TypeOK, Entry, Idle, NotClosing
<1>3. ASSUME NEW op \in {"read", "write"}, NEW s \in Sectors, NEW d \in Data, Miss(op, s, d)
      PROVE  IInv'
  BY <1>3, <1>t DEF Miss, IInv, TypeOK, Call, OneCopy, CleanMatchesDisk, FlushedSoFar,
     CallMissed, Holding, Idle, NotClosing
<1>4. CASE SecondChance
  <2>a. cache' \in [Slots -> Entry]
    BY <1>4, <1>t DEF SecondChance, TypeOK, Entry
  <2>b. clock' \in Slots
    BY <1>4, <1>t DEF SecondChance, TypeOK, Slots
  <2>1. TypeOK'
    BY <1>4, <1>t, <2>a, <2>b DEF SecondChance, TypeOK
  <2> QED
    BY <1>4, <1>t, <2>1 DEF SecondChance, IInv, TypeOK, Entry, OneCopy, CleanMatchesDisk,
       FlushedSoFar, CallMissed, Holding, NotClosing
<1>5. CASE Evict
  <2>1. TypeOK'
    <3>1. cache' \in [Slots -> Entry]
      BY <1>5, <1>t DEF Evict, TypeOK, Entry
    <3>2. cache[clock].disk_sector \in Sectors /\ cache[clock].buffer \in Data
      BY <1>t DEF TypeOK, Entry
    <3>3. disk' \in [Sectors -> Data]
      BY <1>5, <1>t, <3>2 DEF Evict, Flushed, TypeOK
    <3> QED
      BY <1>5, <1>t, <3>1, <3>3 DEF Evict, TypeOK
  <2>2. OneCopy' /\ CallMissed' /\ FlushedSoFar'
    BY <1>5, <1>t DEF Evict, TypeOK, Entry, OneCopy, CallMissed, FlushedSoFar, Holding, NotClosing
  <2>3. CleanMatchesDisk'
    BY <1>5, <1>t DEF Evict, TypeOK, Entry, OneCopy, CleanMatchesDisk, Flushed
  <2> QED
    BY <2>1, <2>2, <2>3 DEF IInv
<1>6. CASE Fill
  <2>1. TypeOK'
    <3>1. disk[call.sector] \in Data /\ call.sector \in Sectors /\ call.data \in Data
      BY <1>t DEF TypeOK, Call
    <3>2. cache' \in [Slots -> Entry]
      BY <1>6, <1>t, <3>1 DEF Fill, TypeOK, Entry
    <3>3. result' \in SUBSET (Sectors \X Data)
      BY <1>6, <3>1 DEF Fill
    <3>4. call' \in Call
      BY <1>6, <1>z DEF Fill, Call, NoCall
    <3> QED
      BY <1>6, <1>t, <3>2, <3>3, <3>4 DEF Fill, TypeOK
  <2>2. OneCopy'
    BY <1>6, <1>t DEF Fill, TypeOK, Entry, OneCopy, CallMissed, Holding
  <2>3. CleanMatchesDisk'
    BY <1>6, <1>t DEF Fill, TypeOK, Entry, Call, CleanMatchesDisk
  <2>4. CallMissed' /\ FlushedSoFar'
    BY <1>6, <1>t DEF Fill, CallMissed, FlushedSoFar, NoCall, NotClosing
  <2> QED
    BY <2>1, <2>2, <2>3, <2>4 DEF IInv
<1>7. CASE Close
  BY <1>7, <1>t DEF Close, IInv, TypeOK, OneCopy, CleanMatchesDisk, FlushedSoFar, CallMissed,
     Slots, Idle, NotClosing, Holding
<1>8. CASE CloseSlot
  <2>0. closing \in Slots
    BY <1>8, <1>t DEF CloseSlot, NotClosing, TypeOK, Slots
  <2>a. cache' \in [Slots -> Entry] /\ disk' \in [Sectors -> Data]
    <3>1. cache' = cache \/ cache' = [cache EXCEPT ![closing].dirty = FALSE]
      BY <1>8 DEF CloseSlot
    <3>2. disk' = disk \/ disk' = [disk EXCEPT ![cache[closing].disk_sector] = cache[closing].buffer]
      BY <1>8 DEF CloseSlot, Flushed
    <3>3. cache' \in [Slots -> Entry]
      BY <3>1, <2>0, <1>t, ZenonT(60) DEF TypeOK, Entry
    <3>4. cache[closing].disk_sector \in Sectors /\ cache[closing].buffer \in Data
      BY <2>0, <1>t DEF TypeOK, Entry
    <3>5. disk' \in [Sectors -> Data]
      BY <3>2, <3>4, <1>t DEF TypeOK
    <3> QED
      BY <3>3, <3>5
  <2>b. closing' \in 0..BUFFER_CACHE_SIZE
    BY <1>8, <2>0 DEF CloseSlot, Slots
  <2>1. TypeOK'
    BY <1>8, <1>t, <2>a, <2>b DEF CloseSlot, TypeOK
  <2>c. \A i \in Slots : /\ cache'[i].occupied = cache[i].occupied
                        /\ cache'[i].disk_sector = cache[i].disk_sector
                        /\ cache'[i].buffer = cache[i].buffer
    BY <1>8, <1>t, <2>0 DEF CloseSlot, TypeOK, Entry
  <2>d. OneCopy'
    BY <1>t, <2>c DEF OneCopy
  <2>e. CallMissed'
    BY <1>8, <1>t DEF CloseSlot, CallMissed
  <2>2. OneCopy' /\ CallMissed'
    BY <2>d, <2>e
  <2>f. \A i \in Slots : cache'[i].dirty => cache[i].dirty /\ (cache[i].occupied => i # closing)
    BY <1>8, <1>t, <2>0 DEF CloseSlot, TypeOK, Entry
  <2>3. FlushedSoFar'
    <3>1. ~NotClosing /\ closing' = closing + 1
      BY <1>8 DEF CloseSlot
    <3>2. \A j \in Slots : j < closing' => j < closing \/ j = closing
      BY <3>1, <2>0 DEF Slots
    <3> QED
      BY <1>t, <2>c, <2>f, <3>1, <3>2 DEF FlushedSoFar
  <2>4. ASSUME NEW i \in Slots, cache'[i].occupied, ~cache'[i].dirty
        PROVE  cache'[i].buffer = disk'[cache'[i].disk_sector]
    <3>1. CASE cache[closing].occupied /\ cache[closing].dirty
      <4>1. disk' = [disk EXCEPT ![cache[closing].disk_sector] = cache[closing].buffer]
        BY <1>8, <3>1 DEF CloseSlot, Flushed
      <4>2. CASE i = closing
        BY <4>1, <4>2, <2>c, <1>t DEF TypeOK, Entry
      <4>3. CASE i # closing
        <5>1. ~cache[i].dirty /\ cache[i].occupied
          BY <1>8, <1>t, <2>0, <2>4, <4>3, <2>c, <3>1 DEF CloseSlot, TypeOK, Entry
        <5>2. cache[i].disk_sector # cache[closing].disk_sector
          BY <5>1, <3>1, <4>3, <2>0, <1>t DEF OneCopy
        <5> QED
          BY <4>1, <5>1, <5>2, <2>c, <1>t DEF TypeOK, Entry, CleanMatchesDisk
      <4> QED
        BY <4>2, <4>3
    <3>2. CASE ~(cache[closing].occupied /\ cache[closing].dirty)
      <4>1. disk' = disk
        BY <1>8, <3>2 DEF CloseSlot, Flushed
      <4>2. cache[i].occupied /\ ~cache[i].dirty
        BY <1>8, <1>t, <2>0, <2>4, <2>c, <3>2 DEF CloseSlot, TypeOK, Entry
      <4> QED
        BY <4>1, <4>2, <2>c, <1>t DEF CleanMatchesDisk
    <3> QED
      BY <3>1, <3>2
  <2> QED
    BY <2>1, <2>2, <2>3, <2>4 DEF IInv, CleanMatchesDisk
<1>9. CASE Crash
  <2>1. EmptyEntry \in Entry /\ ~EmptyEntry.occupied /\ NoCall \in Call /\ NoCall.op = "none"
    BY <1>z DEF EmptyEntry, Entry, NoCall, Call
  <2>2. TypeOK'
    BY <1>9, <1>t, <1>z, <2>1 DEF Crash, TypeOK
  <2>3. \A i \in Slots : ~cache'[i].occupied
    BY <1>9, <2>1 DEF Crash
  <2> QED
    BY <1>9, <2>1, <2>2, <2>3 DEF Crash, IInv, OneCopy, CleanMatchesDisk, FlushedSoFar, CallMissed,
       NotClosing
<1>10. CASE UNCHANGED vars
  BY <1>10, <1>t DEF vars, IInv, TypeOK, OneCopy, CleanMatchesDisk, FlushedSoFar, CallMissed,
     Holding, NotClosing
<1> QED
  BY <1>1, <1>2, <1>3, <1>4, <1>5, <1>6, <1>7, <1>8, <1>9, <1>10 DEF Next, Progress

\* The cache invariants hold in every reachable state, whatever is evicted,
\* flushed or lost in a crash (cache.c).
THEOREM Invariance == SafetySpec => []IInv
<1> QED
  BY InitIInv, NextIInv, PTL DEF SafetySpec

\* Type correctness: the clock hand, the loop index of buffer_cache_close and
\* every slot stay within their ranges.
THEOREM TypeCorrect == SafetySpec => []TypeOK
<1>1. IInv => TypeOK
  BY DEF IInv
<1> QED
  BY <1>1, Invariance, PTL

\* No sector is cached twice: buffer_cache_lookup never serves a stale copy.
THEOREM NoSecondCopy == SafetySpec => []OneCopy
<1>1. IInv => OneCopy
  BY DEF IInv
<1> QED
  BY Invariance, <1>1, PTL

\* When the loop of buffer_cache_close ends, every occupied slot is clean, so
\* the disk image holds everything the file system wrote.
THEOREM DurableClose == SafetySpec => CloseIsDurable
<1>1. IInv /\ IInv' /\ [Next]_vars => [~NotClosing /\ NotClosing' => disk' = View']_vars
  <2> SUFFICES ASSUME IInv, IInv', Next, ~NotClosing, NotClosing'
               PROVE  disk' = View' \/ UNCHANGED vars
    BY DEF vars
  <2>1. CloseSlot \/ Crash
    BY DEF Next, Progress, ReadHit, WriteHit, Miss, Close, SecondChance, Evict, Fill, Idle,
       NotClosing, IInv, CallMissed
  <2>2. \A i \in Slots : ~(cache'[i].occupied /\ cache'[i].dirty)
    <3>1. CASE Crash
      BY <3>1 DEF Crash, EmptyEntry
    <3>2. CASE CloseSlot
      <4>1. closing \in Slots /\ \A j \in Slots : j < closing \/ j = closing
        BY <3>2, CacheSizeAssumption DEF CloseSlot, NotClosing, IInv, TypeOK, Slots
      <4>2. \A j \in Slots : j < closing => ~(cache[j].occupied /\ cache[j].dirty)
        BY DEF IInv, FlushedSoFar
      <4> QED
        BY <3>2, <4>1, <4>2 DEF CloseSlot, IInv, TypeOK, Entry
    <3> QED
      BY <2>1, <3>1, <3>2
  <2>3. ViewReads'
    BY ViewValue, PTL DEF IInv
  <2>4. ASSUME NEW s \in Sectors PROVE View'[s] = disk'[s]
    <3>1. CASE \E i \in Slots : cache'[i].occupied /\ cache'[i].disk_sector = s
      <4>1. PICK i \in Slots : cache'[i].occupied /\ cache'[i].disk_sector = s
        BY <3>1
      <4> QED
        BY <4>1, <2>2, <2>3 DEF ViewReads, IInv, CleanMatchesDisk
    <3> QED
      BY <3>1, <2>3 DEF ViewReads
  <2> QED
    BY <2>3, <2>4 DEF ViewReads, IInv, TypeOK
<1> QED
  BY Invariance, <1>1, PTL DEF SafetySpec, CloseIsDurable

\* A step that changes no slot's sector, occupancy or buffer, and writes to
\* the device only what is cached, leaves the view alone.
LEMMA SameView ==
    ASSUME IInv, IInv',
           \A i \in Slots : /\ cache'[i].occupied = cache[i].occupied
                            /\ cache'[i].disk_sector = cache[i].disk_sector
                            /\ cache'[i].buffer = cache[i].buffer,
           \A s \in Sectors : (\A i \in Slots : ~(cache[i].occupied /\ cache[i].disk_sector = s))
                              => disk'[s] = disk[s]
    PROVE  View' = View
<1>1. ViewReads /\ ViewReads'
  BY ViewValue, PTL DEF IInv
<1>2. ASSUME NEW s \in Sectors PROVE View'[s] = View[s]
  <2>1. CASE \E i \in Slots : cache[i].occupied /\ cache[i].disk_sector = s
    <3>1. PICK i \in Slots : cache[i].occupied /\ cache[i].disk_sector = s
      BY <2>1
    <3> QED
      BY <3>1, <1>1 DEF ViewReads
  <2>2. CASE \A i \in Slots : ~(cache[i].occupied /\ cache[i].disk_sector = s)
    BY <2>2, <1>1 DEF ViewReads
  <2> QED
    BY <2>1, <2>2
<1> QED
  BY <1>1, <1>2 DEF ViewReads

\* Each step of the cache is a step of the block store or leaves it alone.
LEMMA StepRefines == IInv /\ IInv' /\ [Next]_vars => [BS!BSNext]_(BS!bsVars)
<1> SUFFICES ASSUME IInv, IInv', [Next]_vars PROVE BS!BSNext \/ UNCHANGED <<View, disk, result>>
  BY DEF BS!bsVars
<1>v. ViewReads /\ ViewReads'
  BY ViewValue, PTL DEF IInv
<1>f. View \in [Sectors -> Data] /\ View' \in [Sectors -> Data] /\ disk \in [Sectors -> Data]
  BY <1>v DEF ViewReads, IInv, TypeOK
<1>1. ASSUME NEW s \in Sectors, ReadHit(s) PROVE BS!BSRead(s)
  <2>1. PICK i \in Slots : /\ cache[i].occupied /\ cache[i].disk_sector = s
                           /\ buffer_cache_lookup(s) = i
    BY <1>1, LookupUnique DEF ReadHit, Holding, IInv
  <2>2. cache' = [cache EXCEPT ![i].access = TRUE] /\ result' = {<<s, cache[i].buffer>>} /\ disk' = disk
    BY <1>1, <2>1 DEF ReadHit
  <2>3. View[s] = cache[i].buffer
    BY <1>v, <2>1 DEF ViewReads
  <2>4. View' = View
    BY <2>2, SameView DEF IInv, TypeOK, Entry
  <2> QED
    BY <2>2, <2>3, <2>4 DEF BS!BSRead
<1>2. ASSUME NEW s \in Sectors, NEW d \in Data, WriteHit(s, d) PROVE BS!BSWrite(s, d)
  <2>1. PICK i \in Slots : /\ cache[i].occupied /\ cache[i].disk_sector = s
                           /\ buffer_cache_lookup(s) = i
    BY <1>2, LookupUnique DEF WriteHit, Holding, IInv
  <2>2. /\ cache' = [cache EXCEPT ![i].access = TRUE, ![i].dirty = TRUE, ![i].buffer = d]
        /\ result' = {} /\ disk' = disk
    BY <1>2, <2>1 DEF WriteHit
  <2>3. ASSUME NEW t \in Sectors PROVE View'[t] = IF t = s THEN d ELSE View[t]
    <3>1. \A j \in Slots : /\ cache'[j].occupied = cache[j].occupied
                           /\ cache'[j].disk_sector = cache[j].disk_sector
                           /\ cache'[j].buffer = IF j = i THEN d ELSE cache[j].buffer
      BY <2>2 DEF IInv, TypeOK, Entry
    <3>2. CASE t = s
      BY <3>1, <3>2, <2>1, <1>v DEF ViewReads
    <3>3. CASE t # s /\ \E j \in Slots : cache[j].occupied /\ cache[j].disk_sector = t
      <4>1. PICK j \in Slots : cache[j].occupied /\ cache[j].disk_sector = t
        BY <3>3
      <4> QED
        BY <3>1, <3>3, <4>1, <2>1, <1>v DEF ViewReads
    <3>4. CASE t # s /\ \A j \in Slots : ~(cache[j].occupied /\ cache[j].disk_sector = t)
      <4>1. \A j \in Slots : ~(cache'[j].occupied /\ cache'[j].disk_sector = t)
        BY <3>1, <3>4
      <4> QED
        BY <3>4, <4>1, <2>2, <1>v DEF ViewReads
    <3> QED
      BY <3>2, <3>3, <3>4
  <2> QED
    BY <2>2, <2>3, <1>f DEF BS!BSWrite
<1>3. ASSUME NEW op, NEW s \in Sectors, NEW d \in Data, Miss(op, s, d)
      PROVE  UNCHANGED <<View, disk, result>>
  BY <1>3, SameView DEF Miss
<1>4. CASE SecondChance
  <2>1. View' = View
    BY <1>4, SameView DEF SecondChance, IInv, TypeOK, Entry
  <2> QED
    BY <1>4, <2>1 DEF SecondChance
<1>5. CASE Evict
  <2>d. DEFINE s == cache[clock].disk_sector
  <2>0. /\ clock \in Slots /\ cache[clock].occupied /\ s \in Sectors
        /\ View[s] = cache[clock].buffer /\ result' = result
    BY <1>5, <1>v DEF Evict, IInv, TypeOK, Entry, ViewReads
  <2>1. disk' = [disk EXCEPT ![s] = View[s]]
    BY <1>5, <2>0, <1>f DEF Evict, Flushed, IInv, CleanMatchesDisk
  <2>2. \A j \in Slots : /\ cache'[j].occupied <=> (cache[j].occupied /\ j # clock)
                         /\ cache'[j].disk_sector = cache[j].disk_sector
                         /\ cache'[j].buffer = cache[j].buffer
    BY <1>5, <2>0 DEF Evict, IInv, TypeOK, Entry
  <2>3. ASSUME NEW t \in Sectors PROVE View'[t] = View[t]
    <3>1. CASE t = s
      <4>1. \A j \in Slots : ~(cache'[j].occupied /\ cache'[j].disk_sector = s)
        BY <2>0, <2>2 DEF IInv, OneCopy
      <4> QED
        BY <3>1, <4>1, <1>v, <2>0, <2>1, <1>f DEF ViewReads
    <3>2. CASE t # s /\ \E j \in Slots : cache[j].occupied /\ cache[j].disk_sector = t
      <4>1. PICK j \in Slots : cache[j].occupied /\ cache[j].disk_sector = t
        BY <3>2
      <4>2. cache'[j].occupied /\ cache'[j].disk_sector = t /\ cache'[j].buffer = cache[j].buffer
        BY <3>2, <4>1, <2>2
      <4> QED
        BY <4>1, <4>2, <1>v DEF ViewReads
    <3>3. CASE t # s /\ \A j \in Slots : ~(cache[j].occupied /\ cache[j].disk_sector = t)
      <4>1. \A j \in Slots : ~(cache'[j].occupied /\ cache'[j].disk_sector = t)
        BY <3>3, <2>2
      <4>2. disk'[t] = disk[t]
        BY <3>3, <2>1, <1>f
      <4> QED
        BY <3>3, <4>1, <4>2, <1>v DEF ViewReads
    <3> QED
      BY <3>1, <3>2, <3>3
  <2>4. View' = View
    BY <2>3, <1>f
  <2> QED
    BY <2>0, <2>1, <2>4 DEF BS!BSNext, BS!BSWriteBack
<1>6. CASE Fill
  <2>d. DEFINE s == call.sector
  <2>0. clock \in Slots /\ s \in Sectors /\ call.op \in {"read", "write"} /\ call.data \in Data
    BY <1>6 DEF Fill, IInv, TypeOK, Call
  <2>1. \A j \in Slots : ~(cache[j].occupied /\ cache[j].disk_sector = s)
    BY <1>6 DEF Fill, IInv, CallMissed, Holding
  <2>2. View[s] = disk[s]
    BY <2>0, <2>1, <1>v DEF ViewReads
  <2>3. DEFINE b == IF call.op = "write" THEN call.data ELSE disk[s]
  <2>4. /\ cache'[clock].occupied /\ cache'[clock].disk_sector = s /\ cache'[clock].buffer = b
        /\ \A j \in Slots : j # clock => cache'[j] = cache[j]
        /\ ~cache[clock].occupied /\ disk' = disk
    BY <1>6, <2>0 DEF Fill, IInv, TypeOK
  <2>5. ASSUME NEW t \in Sectors PROVE View'[t] = IF t = s THEN b ELSE View[t]
    <3>1. CASE t = s
      BY <3>1, <2>0, <2>4, <1>v DEF ViewReads
    <3>2. CASE t # s /\ \E j \in Slots : cache[j].occupied /\ cache[j].disk_sector = t
      <4>1. PICK j \in Slots : cache[j].occupied /\ cache[j].disk_sector = t
        BY <3>2
      <4> QED
        BY <3>2, <4>1, <2>4, <1>v DEF ViewReads
    <3>3. CASE t # s /\ \A j \in Slots : ~(cache[j].occupied /\ cache[j].disk_sector = t)
      BY <3>3, <2>0, <2>4, <1>v DEF ViewReads
    <3> QED
      BY <3>1, <3>2, <3>3
  <2>6. CASE call.op = "write"
    <3>1. View' = [View EXCEPT ![s] = call.data]
      BY <2>5, <2>6, <1>f
    <3>2. BS!BSWrite(s, call.data)
      BY <1>6, <2>4, <2>6, <3>1 DEF Fill, BS!BSWrite
    <3> QED
      BY <3>2, <2>0 DEF BS!BSNext
  <2>7. CASE call.op = "read"
    <3>1. View' = View
      BY <2>5, <2>7, <2>2, <1>f
    <3>2. BS!BSRead(s)
      BY <1>6, <2>2, <2>4, <2>7, <3>1 DEF Fill, BS!BSRead
    <3> QED
      BY <3>2, <2>0 DEF BS!BSNext
  <2> QED
    BY <2>0, <2>6, <2>7
<1>7. CASE Close
  BY <1>7, SameView DEF Close
<1>8. CASE CloseSlot
  <2>0. closing \in Slots /\ result' = result
    BY <1>8, CacheSizeAssumption DEF CloseSlot, NotClosing, IInv, TypeOK, Slots
  <2>1. \A i \in Slots : /\ cache'[i].occupied = cache[i].occupied
                         /\ cache'[i].disk_sector = cache[i].disk_sector
                         /\ cache'[i].buffer = cache[i].buffer
    BY <1>8, <2>0 DEF CloseSlot, IInv, TypeOK, Entry
  <2>2. CASE ~cache[closing].occupied
    BY <1>8, <2>2, <2>0, <2>1, SameView DEF CloseSlot
  <2>3. CASE cache[closing].occupied
    <3>d. DEFINE s == cache[closing].disk_sector
    <3>1. s \in Sectors /\ View[s] = cache[closing].buffer
      BY <2>0, <2>3, <1>v DEF IInv, TypeOK, Entry, ViewReads
    <3>2. disk' = [disk EXCEPT ![s] = View[s]]
      BY <1>8, <2>0, <2>3, <3>1, <1>f DEF CloseSlot, Flushed, IInv, CleanMatchesDisk
    <3>3. View' = View
      BY <2>0, <2>1, <2>3, <3>2, <1>f, SameView
    <3> QED
      BY <2>0, <3>1, <3>2, <3>3 DEF BS!BSNext, BS!BSWriteBack
  <2> QED
    BY <2>2, <2>3
<1>9. CASE Crash
  <2>1. \A i \in Slots : ~cache'[i].occupied
    BY <1>9 DEF Crash, EmptyEntry
  <2>2. \A s \in Sectors : View'[s] = disk'[s]
    BY <2>1, <1>v DEF ViewReads
  <2>3. View' = disk
    BY <1>9, <2>2, <1>f DEF Crash
  <2> QED
    BY <1>9, <2>3 DEF Crash, BS!BSNext, BS!BSRestart
<1>10. CASE UNCHANGED vars
  BY <1>10, SameView DEF vars
<1> QED
  BY <1>1, <1>2, <1>3, <1>4, <1>5, <1>6, <1>7, <1>8, <1>9, <1>10, ZerosAssumption
     DEF Next, Progress, BS!BSNext

\* The cache of cache.c implements the block store its callers rely on: a read
\* returns the last write of that sector, for any number of sectors and slots.
THEOREM Refinement == SafetySpec => RefinesBlockStore
<1>1. Init => BS!BSInit
  <2> SUFFICES ASSUME Init PROVE BS!BSInit
    OBVIOUS
  <2>1. \A s \in Sectors : Holding(s) = {}
    BY DEF Init, EmptyEntry, Holding
  <2>2. View = disk
    BY <2>1 DEF View, Init
  <2> QED
    BY <2>2 DEF Init, BS!BSInit
<1> QED
  BY <1>1, Invariance, StepRefines, PTL DEF SafetySpec, RefinesBlockStore, BS!BSSpec
=============================================================================
