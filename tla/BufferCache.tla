---------------------------- MODULE BufferCache -----------------------------
(***************************************************************************)
(* The write-back buffer cache of the file system (a3/fs/cache.c) over the *)
(* disk image (block.c, ide.c).  The cache is called from one thread, so a *)
(* hit is one step; a miss runs the clock loop of buffer_cache_evict one   *)
(* iteration per step, and buffer_cache_close flushes one slot per step,   *)
(* because the process may end (Crash) between any two device accesses.    *)
(***************************************************************************)
EXTENDS Integers

CONSTANTS
    NumSectors,         \* sectors of the device
    Data,               \* possible contents of a sector
    Zeros,              \* the content static memory starts with
    BUFFER_CACHE_SIZE   \* slots of the cache (64 in the code)

ASSUME NumSectorsAssumption == NumSectors \in Nat \ {0}
ASSUME ZerosAssumption == Zeros \in Data
ASSUME CacheSizeAssumption == BUFFER_CACHE_SIZE \in Nat \ {0}

VARIABLES
    disk,     \* the disk image, [Sectors -> Data]
    cache,    \* struct buffer_cache_entry_t cache[]
    clock,    \* the static clock hand of buffer_cache_evict
    call,     \* the call that missed and has not returned yet
    result,   \* what the last completed call copied out
    closing   \* loop index of buffer_cache_close; BUFFER_CACHE_SIZE: not in it

vars == <<disk, cache, clock, call, result, closing>>

Sectors == 0..(NumSectors - 1)
Slots == 0..(BUFFER_CACHE_SIZE - 1)

Entry == [occupied : BOOLEAN, disk_sector : Sectors, buffer : Data,
          dirty : BOOLEAN, access : BOOLEAN]
Call == [op : {"none", "read", "write"}, sector : Sectors, data : Data]

NoCall == [op |-> "none", sector |-> 0, data |-> Zeros]

\* Static memory at process start, then buffer_cache_init.
EmptyEntry == [occupied |-> FALSE, disk_sector |-> 0, buffer |-> Zeros,
               dirty |-> FALSE, access |-> FALSE]

Init ==
    /\ disk \in [Sectors -> Data]
    /\ cache = [i \in Slots |-> EmptyEntry]
    /\ clock = 0
    /\ call = NoCall
    /\ result = {}
    /\ closing = BUFFER_CACHE_SIZE

-----------------------------------------------------------------------------
\* Mutant: the lookup starts at slot 1.
HoldingFromOne(s) == {i \in Slots \ {0} : cache[i].occupied /\ cache[i].disk_sector = s}

\* The slots buffer_cache_lookup would accept; the loop returns the first.
Holding(s) == {i \in Slots : cache[i].occupied /\ cache[i].disk_sector = s}

buffer_cache_lookup(s) == CHOOSE i \in Holding(s) : \A j \in Holding(s) : i <= j

NotClosing == closing = BUFFER_CACHE_SIZE
Idle == call.op = "none" /\ NotClosing

\* buffer_cache_flush: a dirty entry goes to its sector of the device.
Flushed(e) == IF e.dirty THEN [disk EXCEPT ![e.disk_sector] = e.buffer] ELSE disk

\* buffer_cache_read, the sector is cached.
ReadHit(s) ==
    /\ Idle
    /\ Holding(s) # {}
    /\ LET i == buffer_cache_lookup(s) IN
         /\ cache' = [cache EXCEPT ![i].access = TRUE]
         /\ result' = {<<s, cache[i].buffer>>}
    /\ UNCHANGED <<disk, clock, call, closing>>

\* Mutant: the write forgets the dirty bit.
WriteHitClean(s, d) ==
    /\ Idle
    /\ Holding(s) # {}
    /\ cache' = [cache EXCEPT ![buffer_cache_lookup(s)].access = TRUE,
                             ![buffer_cache_lookup(s)].buffer = d]
    /\ result' = {}
    /\ UNCHANGED <<disk, clock, call, closing>>

\* buffer_cache_write, the sector is cached.
WriteHit(s, d) ==
    /\ Idle
    /\ Holding(s) # {}
    /\ LET i == buffer_cache_lookup(s) IN
         cache' = [cache EXCEPT ![i].access = TRUE, ![i].dirty = TRUE,
                                ![i].buffer = d]
    /\ result' = {}
    /\ UNCHANGED <<disk, clock, call, closing>>

\* Either call misses and enters buffer_cache_evict.
Miss(op, s, d) ==
    /\ Idle
    /\ Holding(s) = {}
    /\ call' = [op |-> op, sector |-> s, data |-> d]
    /\ UNCHANGED <<disk, cache, clock, result, closing>>

\* Mutant: the reference bit is not cleared.
SecondChanceForever ==
    /\ call.op # "none"
    /\ cache[clock].occupied /\ cache[clock].access
    /\ clock' = (clock + 1) % BUFFER_CACHE_SIZE
    /\ UNCHANGED <<disk, cache, call, result, closing>>

\* One turn of the clock loop: a referenced entry is given a second chance.
SecondChance ==
    /\ call.op # "none"
    /\ cache[clock].occupied /\ cache[clock].access
    /\ cache' = [cache EXCEPT ![clock].access = FALSE]
    /\ clock' = (clock + 1) % BUFFER_CACHE_SIZE
    /\ UNCHANGED <<disk, call, result, closing>>

\* Mutant: the victim is not flushed.
EvictNoFlush ==
    /\ call.op # "none"
    /\ cache[clock].occupied /\ ~cache[clock].access
    /\ cache' = [cache EXCEPT ![clock].dirty = FALSE, ![clock].occupied = FALSE]
    /\ UNCHANGED <<disk, clock, call, result, closing>>

\* The loop breaks at an unreferenced entry: flush it, give its slot up.
Evict ==
    /\ call.op # "none"
    /\ cache[clock].occupied /\ ~cache[clock].access
    /\ disk' = Flushed(cache[clock])
    /\ cache' = [cache EXCEPT ![clock].dirty = FALSE, ![clock].occupied = FALSE]
    /\ UNCHANGED <<clock, call, result, closing>>

\* The slot under the hand is free: read the sector in and finish the call.
Fill ==
    /\ call.op # "none"
    /\ ~cache[clock].occupied
    /\ LET writing == call.op = "write" IN
         /\ cache' = [cache EXCEPT ![clock] =
                        [occupied |-> TRUE, disk_sector |-> call.sector,
                         buffer |-> IF writing THEN call.data ELSE disk[call.sector],
                         dirty |-> writing, access |-> TRUE]]
         /\ result' = IF writing THEN {} ELSE {<<call.sector, disk[call.sector]>>}
    /\ call' = NoCall
    /\ UNCHANGED <<disk, clock, closing>>

\* Mutant: the loop starts at slot 1.
CloseFromOne ==
    /\ Idle
    /\ closing' = 1
    /\ UNCHANGED <<disk, cache, clock, call, result>>

\* filesys_done calls buffer_cache_close.
Close ==
    /\ Idle
    /\ closing' = 0
    /\ UNCHANGED <<disk, cache, clock, call, result>>

\* One iteration of its loop; the entry stays cached.
CloseSlot ==
    /\ ~NotClosing
    /\ IF cache[closing].occupied
       THEN /\ disk' = Flushed(cache[closing])
            /\ cache' = [cache EXCEPT ![closing].dirty = FALSE]
       ELSE UNCHANGED <<disk, cache>>
    /\ closing' = closing + 1
    /\ UNCHANGED <<clock, call, result>>

\* The process ends anywhere (exit, signal) and is started again: only the
\* disk image is left.
Crash ==
    /\ cache' = [i \in Slots |-> EmptyEntry]
    /\ clock' = 0
    /\ call' = NoCall
    /\ result' = {}
    /\ closing' = BUFFER_CACHE_SIZE
    /\ UNCHANGED disk

\* The steps the running call takes by itself.
Progress == SecondChance \/ Evict \/ Fill \/ CloseSlot

Next ==
    \/ \E s \in Sectors : ReadHit(s) \/ Miss("read", s, Zeros)
    \/ \E s \in Sectors, d \in Data : WriteHit(s, d) \/ Miss("write", s, d)
    \/ Close
    \/ Progress
    \/ Crash

SafetySpec == Init /\ [][Next]_vars

\* The C code never waits inside a call, so a call that has started keeps
\* taking its steps; nothing obliges the user to make one.
Spec == SafetySpec /\ WF_vars(Progress)

-----------------------------------------------------------------------------
\* Type correctness of the cache, the clock hand and the call in progress.
TypeOK ==
    /\ disk \in [Sectors -> Data]
    /\ cache \in [Slots -> Entry]
    /\ clock \in Slots
    /\ call \in Call
    /\ result \in SUBSET (Sectors \X Data)
    /\ closing \in 0..BUFFER_CACHE_SIZE

\* No sector is ever cached in two slots, although buffer_cache_evict hands
\* out a slot without looking the sector up again: a second copy would make
\* buffer_cache_lookup serve a stale one.
OneCopy ==
    \A i, j \in Slots :
        /\ cache[i].occupied /\ cache[j].occupied
        /\ cache[i].disk_sector = cache[j].disk_sector
        => i = j

\* An entry buffer_cache_evict may drop without a write (dirty is false) holds
\* exactly what the disk image holds.
CleanMatchesDisk ==
    \A i \in Slots :
        cache[i].occupied /\ ~cache[i].dirty
        => cache[i].buffer = disk[cache[i].disk_sector]

\* While buffer_cache_close runs, every slot it has passed is clean.
FlushedSoFar ==
    ~NotClosing => \A j \in Slots : j < closing => ~(cache[j].occupied /\ cache[j].dirty)

\* A call in buffer_cache_evict is for a sector that is still not cached, and
\* the cache is not being closed meanwhile.
CallMissed ==
    call.op # "none" => NotClosing /\ Holding(call.sector) = {}

\* The inductive invariant behind the refinement: whatever the clock hand, a
\* pending call and a half finished buffer_cache_close are at, no sector is
\* cached twice, what is clean is on the disk, what close has passed is clean,
\* and the sector a call is about to fill is not cached.
IInv ==
    /\ TypeOK
    /\ OneCopy
    /\ CleanMatchesDisk
    /\ FlushedSoFar
    /\ CallMissed

-----------------------------------------------------------------------------
\* The content the cache presents for each sector.
View == [s \in Sectors |-> IF Holding(s) = {} THEN disk[s]
                           ELSE cache[buffer_cache_lookup(s)].buffer]

BS == INSTANCE BlockStore WITH store <- View, durable <- disk

\* The cache implements the block store of cache.h: a read returns the last
\* write of the sector whatever was evicted, flushed and refilled in between,
\* no other sector changes, and a restart falls back to the disk image.
RefinesBlockStore == BS!BSSpec

\* When buffer_cache_close returns, the disk image holds everything written:
\* "Shuts down the file system module, writing any unwritten data to disk".
CloseIsDurable ==
    [][~NotClosing /\ NotClosing' => disk' = View']_vars

\* Every call that misses returns: the clock loop finds a slot although each
\* referenced entry it meets is spared once, and closing ends too.
CallReturns == [](~Idle => <>Idle)
=============================================================================
