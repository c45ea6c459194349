------------------------------ MODULE NvmeCache ------------------------------
(***************************************************************************)
(* The rolling cache of raw frames on NVMe (storage/src/nvme_cache.cpp)    *)
(* and its index of blocks and event leases (nvme_index.cpp).              *)
(*                                                                         *)
(* Frames of every camera are collected into a block; a full block enters  *)
(* one queue; the nvme-writer thread makes room by removing the oldest     *)
(* block no event has a lease on, writes the block's file and registers it *)
(* in the index.  Event threads take and release leases at any moment, the *)
(* storage maintenance moves the watermark, and the service stops.         *)
(*                                                                         *)
(* A block is named by its camera and the times of its first and last      *)
(* frame.  A cache lives for one session: no start reads the files of an   *)
(* earlier one (ADR-017), so a restart is a new behaviour of this module.  *)
(* Rates, checksums, wall-clock time and counters are left out.            *)
(***************************************************************************)
EXTENDS Integers, Sequences, FiniteSets, SequencesExt

CONSTANTS Cameras,          \* the logical cameras of the configuration
          LeaseEvents,      \* the sources that ask for a lease
          BlockBytes,       \* the fixed size of a block, of each camera
          MaximumBytes,     \* maximumCacheStorageGiB
          BlockFrames,      \* frames a block has room for
          BlockSpan,        \* nvme_block_duration, in frame times
          BlockQueueCapacity, \* blocks a camera may have in the queue
          MaximumLeases,    \* leases the index has room for
          Pre, Post,        \* the seconds before and after a trigger
          LastTime          \* the last frame of every camera (a bound)

ASSUME NvmeAssumption ==
    /\ IsFiniteSet(Cameras) /\ Cameras # {}
    /\ BlockBytes \in [Cameras -> Nat \ {0}]
    /\ MaximumBytes \in Nat /\ \A c \in Cameras : BlockBytes[c] <= MaximumBytes
    /\ {BlockFrames, BlockSpan, BlockQueueCapacity, MaximumLeases, LastTime} \subseteq Nat \ {0}
    /\ {Pre, Post} \subseteq Nat

VARIABLES
    cache,      \* state of the cache and the watermark it was last told
    stop,       \* a stop was requested; the writer was told to give up; it has ended
    last,       \* the newest frame of every camera
    current,    \* the block every camera is filling
    blockQueue, \* the complete blocks, oldest first
    blockWriter, \* where the nvme-writer thread is, and its block
    files,      \* the blocks whose file is in place
    index,      \* the blocks the index lists
    lease,      \* the window every event has a lease on
    attached,   \* the lease_blocks rows: <<event, block>>
    bytes       \* current_cache_bytes

nvmeVars == <<cache, stop, last, current, blockQueue, blockWriter, files, index, lease, attached, bytes>>

-----------------------------------------------------------------------------
Times == 1 .. LastTime

NoBlock == [camera |-> "none", from |-> 0, to |-> 0, frames |-> 0]

NoLease == [start |-> 1, end |-> 0]

Watermarks == {"Normal", "Warning", "Critical", "StopSave"}

OrdinaryWatermark(w) == w \in {"Normal", "Warning"}

OrdinaryWritesAllowed == cache.state = "running" /\ OrdinaryWatermark(cache.watermark)

Leased(e) == lease[e] # NoLease

Overlaps(window, b) == b.to >= window.start /\ b.from <= window.end

Holds(bs) == MapThenSumSet(LAMBDA b : BlockBytes[b.camera], bs)

-----------------------------------------------------------------------------
(* Blocks *)

\* The camera's block leaves for the queue, or is dropped when the camera has
\* no room there; an empty one is forgotten.
Enqueued(q, c, b) ==
    IF b = NoBlock \/ Cardinality({i \in DOMAIN q : q[i].camera = c}) >= BlockQueueCapacity
    THEN q ELSE Append(q, b)

\* The block of camera c with the frame of time t, a new one when there is none.
WithFrame(c, b, t) ==
    IF b = NoBlock THEN [camera |-> c, from |-> t, to |-> t, frames |-> 1]
    ELSE [b EXCEPT !.to = t, !.frames = @ + 1]

\* A frame is refused when writes are blocked, after a stop and when it is not
\* newer than the last one.  A block that has lasted its time leaves before the
\* frame is added, a full one after.
SubmitFrame(c, t) ==
    LET over == current[c] # NoBlock /\ t - current[c].from >= BlockSpan
        rest == IF over THEN Enqueued(blockQueue, c, current[c]) ELSE blockQueue
        block == WithFrame(c, IF over THEN NoBlock ELSE current[c], t)
        full == block.frames = BlockFrames IN
    /\ cache.started /\ ~stop.requested
    /\ OrdinaryWritesAllowed
    /\ t > last[c]
    /\ last' = [last EXCEPT ![c] = t]
    /\ current' = [current EXCEPT ![c] = IF full THEN NoBlock ELSE block]
    /\ blockQueue' = IF full THEN Enqueued(rest, c, block) ELSE rest
    /\ UNCHANGED <<cache, stop, blockWriter, files, index, lease, attached, bytes>>

-----------------------------------------------------------------------------
(* Life of the cache *)

Start ==
    /\ ~cache.started
    /\ cache' = [cache EXCEPT !.started = TRUE, !.state = "running"]
    /\ blockWriter' = [at |-> "waiting", block |-> NoBlock]
    /\ UNCHANGED <<stop, last, current, blockQueue, files, index, lease, attached, bytes>>

\* The session directory, the store, the index or the thread cannot be made.
StartFails ==
    /\ ~cache.started
    /\ cache' = [cache EXCEPT !.started = TRUE, !.state = "memory-degraded"]
    /\ stop' = [stop EXCEPT !.requested = TRUE, !.completed = TRUE]
    /\ UNCHANGED <<last, current, blockQueue, blockWriter, files, index, lease, attached, bytes>>

\* The maintenance thread of the storage policy reports the volume's watermark.
SetStorageWatermark(w) ==
    LET final == cache.state = "memory-degraded" \/ stop.requested IN
    /\ cache.started
    /\ w # cache.watermark
    /\ cache' = [cache EXCEPT !.watermark = w,
                    !.state = IF final THEN @
                              ELSE IF OrdinaryWatermark(w) THEN "running" ELSE "watermark-blocked"]
    /\ current' = IF final \/ OrdinaryWatermark(w) THEN current
                  ELSE [c \in Cameras |-> NoBlock]
    /\ UNCHANGED <<stop, last, blockQueue, blockWriter, files, index, lease, attached, bytes>>

\* The blocks cameras were filling follow the queue when ordinary writes are
\* allowed, in any order of the cameras; else they are dropped.
RequestStop ==
    /\ cache.started /\ ~stop.requested
    /\ stop' = [stop EXCEPT !.requested = TRUE]
    /\ cache' = [cache EXCEPT !.state = IF @ = "memory-degraded" THEN @ ELSE "stopping"]
    /\ \E cameras \in SetToSeqs(Cameras) :
          blockQueue' = IF OrdinaryWritesAllowed
                   THEN FoldLeft(LAMBDA q, c : Enqueued(q, c, current[c]), blockQueue, cameras)
                   ELSE blockQueue
    /\ current' = [c \in Cameras |-> NoBlock]
    /\ UNCHANGED <<last, blockWriter, files, index, lease, attached, bytes>>

\* join gives up at its deadline: the writer is told to stop at once.
JoinTimesOut ==
    /\ stop.requested /\ ~stop.completed /\ ~stop.cancelled
    /\ stop' = [stop EXCEPT !.cancelled = TRUE]
    /\ UNCHANGED <<cache, last, current, blockQueue, blockWriter, files, index, lease, attached, bytes>>

-----------------------------------------------------------------------------
(* The nvme-writer thread *)

\* The cache gives up for this session: what it holds in memory is dropped and
\* the writer ends.
Degrade ==
    /\ cache' = [cache EXCEPT !.state = "memory-degraded"]
    /\ stop' = [stop EXCEPT !.requested = TRUE, !.completed = TRUE]
    /\ current' = [c \in Cameras |-> NoBlock]
    /\ blockQueue' = <<>>
    /\ blockWriter' = [at |-> "ended", block |-> NoBlock]

WriterAt(place) == blockWriter.at = place /\ UNCHANGED <<last, lease, attached>>

TakeBlock ==
    /\ WriterAt("waiting")
    /\ blockQueue # <<>> /\ ~stop.cancelled
    /\ blockWriter' = [at |-> "reclaiming", block |-> Head(blockQueue)]
    /\ blockQueue' = Tail(blockQueue)
    /\ UNCHANGED <<cache, stop, current, files, index, bytes>>

WriterMayEnd == stop.cancelled \/ (stop.requested /\ blockQueue = <<>>)

EndWriter ==
    /\ WriterAt("waiting")
    /\ WriterMayEnd
    /\ blockWriter' = [at |-> "ended", block |-> NoBlock]
    /\ stop' = [stop EXCEPT !.completed = TRUE]
    /\ cache' = [cache EXCEPT !.state = IF @ = "memory-degraded" THEN @ ELSE "stopped"]
    /\ UNCHANGED <<current, blockQueue, files, index, bytes>>

Required == BlockBytes[blockWriter.block.camera]

RoomForBlock == bytes <= MaximumBytes - Required

Reclaimable == {b \in index : \A e \in LeaseEvents : <<e, b>> \notin attached}

\* The blocks that started first; of those, the ones that ended first.
Oldest(bs) ==
    {b \in bs : \A d \in bs : b.from < d.from \/ (b.from = d.from /\ b.to <= d.to)}

\* The file is removed, then the row, under the lock leases are taken with.
ReclaimOldest ==
    /\ WriterAt("reclaiming") /\ ~RoomForBlock
    /\ \E b \in Oldest(Reclaimable) :
          /\ files' = files \ {b}
          /\ index' = index \ {b}
          /\ bytes' = IF BlockBytes[b.camera] > bytes THEN 0 ELSE bytes - BlockBytes[b.camera]
    /\ UNCHANGED <<cache, stop, current, blockQueue, blockWriter>>

\* Every block is leased, a file cannot be removed, or its row cannot after it.
ReclaimFails ==
    /\ WriterAt("reclaiming") /\ ~RoomForBlock
    /\ \/ files' = files
       \/ \E b \in Oldest(Reclaimable) : files' = files \ {b}
    /\ Degrade
    /\ UNCHANGED <<index, bytes>>

HaveRoom ==
    /\ WriterAt("reclaiming") /\ RoomForBlock
    /\ blockWriter' = [blockWriter EXCEPT !.at = "writing"]
    /\ UNCHANGED <<cache, stop, current, blockQueue, files, index, bytes>>

WriteBlock ==
    /\ WriterAt("writing") /\ ~stop.cancelled
    /\ files' = files \cup {blockWriter.block}
    /\ blockWriter' = [blockWriter EXCEPT !.at = "registering"]
    /\ UNCHANGED <<cache, stop, current, blockQueue, index, bytes>>

\* The deadline of the write, a full disk or the end of join: no file is put in
\* place, the partial one is left behind.
WriteFails ==
    /\ WriterAt("writing")
    /\ Degrade
    /\ UNCHANGED <<files, index, bytes>>

\* Mutant of LeasesOn: a block that is registered is not added to any lease.
LeasesOnNothing(b) == {}

LeasesOn(b) == {e \in LeaseEvents : Leased(e) /\ Overlaps(lease[e], b)}

\* The row of the block and its rows in the leases whose window it meets, in
\* one transaction.
RegisterBlock ==
    /\ blockWriter.at = "registering"
    /\ index' = index \cup {blockWriter.block}
    /\ attached' = attached \cup (LeasesOn(blockWriter.block) \X {blockWriter.block})
    /\ bytes' = bytes + Required
    /\ blockWriter' = [at |-> "waiting", block |-> NoBlock]
    /\ UNCHANGED <<cache, stop, last, current, blockQueue, files, lease>>

\* The file stays and keeps its bytes.
RegisterFails ==
    /\ WriterAt("registering")
    /\ bytes' = bytes + Required
    /\ Degrade
    /\ UNCHANGED <<files, index>>

Writer ==
    \/ TakeBlock \/ EndWriter
    \/ ReclaimOldest \/ ReclaimFails \/ HaveRoom
    \/ WriteBlock \/ WriteFails
    \/ RegisterBlock \/ RegisterFails

-----------------------------------------------------------------------------
(* Leases *)

IndexReady == blockWriter.at # "none"

LeasesOnly == UNCHANGED <<cache, stop, last, current, blockQueue, blockWriter, files, index, bytes>>

\* A candidate event asks for the blocks of all cameras around its trigger; the
\* ones the index lists are attached at once.
ProtectEventWindow(e, t) ==
    LET window == [start |-> t - Pre, end |-> t + Post] IN
    /\ IndexReady
    /\ ~Leased(e)
    /\ Cardinality({f \in LeaseEvents : Leased(f)}) < MaximumLeases
    /\ lease' = [lease EXCEPT ![e] = window]
    /\ attached' = attached \cup ({e} \X {b \in index : Overlaps(window, b)})
    /\ LeasesOnly

\* The event is committed: the lease goes, and its rows with it.
ReleaseEvent(e) ==
    /\ IndexReady
    /\ Leased(e)
    /\ lease' = [lease EXCEPT ![e] = NoLease]
    /\ attached' = {pair \in attached : pair[1] # e}
    /\ LeasesOnly

-----------------------------------------------------------------------------
NvmeInit ==
    /\ cache = [started |-> FALSE, state |-> "stopped", watermark |-> "Normal"]
    /\ stop = [requested |-> FALSE, cancelled |-> FALSE, completed |-> FALSE]
    /\ last = [c \in Cameras |-> 0]
    /\ current = [c \in Cameras |-> NoBlock]
    /\ blockQueue = <<>>
    /\ blockWriter = [at |-> "none", block |-> NoBlock]
    /\ files = {} /\ index = {} /\ attached = {}
    /\ lease = [e \in LeaseEvents |-> NoLease]
    /\ bytes = 0

NvmeNext ==
    \/ \E c \in Cameras, t \in Times : SubmitFrame(c, t)
    \/ Start \/ StartFails
    \/ \E w \in Watermarks : SetStorageWatermark(w)
    \/ RequestStop \/ JoinTimesOut
    \/ Writer
    \/ \E e \in LeaseEvents, t \in Times : ProtectEventWindow(e, t)
    \/ \E e \in LeaseEvents : ReleaseEvent(e)

\* The writer thread runs while it can: its files and its index answer.
NvmeSpec == NvmeInit /\ [][NvmeNext]_nvmeVars /\ WF_nvmeVars(Writer)

-----------------------------------------------------------------------------
(* Properties *)

\* A block an event has a lease on keeps its file until the lease goes, whether
\* it was registered before the lease was taken or after, and whatever the
\* writer is reclaiming meanwhile (nvme_cache.cpp:294, nvme_index.cpp:428, 561).
ProtectedBlocksStay ==
    [][\A e \in LeaseEvents, b \in files \cap index :
         Leased(e) /\ lease'[e] = lease[e] /\ Overlaps(lease[e], b) => b \in files']_nvmeVars

\* The files of the session stay within the configured capacity, and the bytes
\* the cache counts are never fewer than they take (nvme_cache.cpp:294, 436).
CacheWithinCapacity ==
    /\ bytes <= MaximumBytes
    /\ Holds(files) <= MaximumBytes
    /\ blockWriter.at # "registering" => Holds(files) <= bytes

\* Once a stop is requested the writer thread ends, with what is queued written,
\* dropped or given up, so join returns (nvme_cache.cpp:355, 465, 793).
StopCompletes == stop.requested ~> stop.completed

=============================================================================
