----------------------------- MODULE BlockStore -----------------------------
(***************************************************************************)
(* What a3/fs/cache.h promises its callers: a store of sectors that always *)
(* returns what was last written, on top of a device that may lag behind   *)
(* and that is all that survives the end of the process.                   *)
(***************************************************************************)
CONSTANTS Sectors, Data

VARIABLES
    store,    \* what the running file system reads back, sector by sector
    durable,  \* what the disk image holds
    result    \* what the last call copied out: {} or {<<sector, data>>}

bsVars == <<store, durable, result>>

BSInit ==
    /\ durable \in [Sectors -> Data]
    /\ store = durable
    /\ result = {}

\* A read returns the current content of the sector.
BSRead(s) ==
    /\ result' = {<<s, store[s]>>}
    /\ UNCHANGED <<store, durable>>

\* A write replaces one sector; it need not reach the device yet.
BSWrite(s, d) ==
    /\ store' = [store EXCEPT ![s] = d]
    /\ result' = {}
    /\ UNCHANGED durable

\* The device catches up with one sector.
BSWriteBack(s) ==
    /\ durable' = [durable EXCEPT ![s] = store[s]]
    /\ UNCHANGED <<store, result>>

\* The process ends: what had not been written back is gone.
BSRestart ==
    /\ store' = durable
    /\ result' = {}
    /\ UNCHANGED durable

BSNext ==
    \/ \E s \in Sectors : BSRead(s) \/ BSWriteBack(s)
    \/ \E s \in Sectors, d \in Data : BSWrite(s, d)
    \/ BSRestart

BSSpec == BSInit /\ [][BSNext]_bsVars
=============================================================================
