----------------------------- MODULE PosixFile -----------------------------
(***************************************************************************)
(* PosixMmapFile (leveldb/util/env_posix.cc): a file written through a      *)
(* mapped region that moves along the file.  Positions in the region are    *)
(* offsets from base_; the contents of the file are its appended bytes,     *)
(* numbered, with zeros (0) in the preallocated space.  A system call may   *)
(* fail MaxCallFaults times, and the machine may stop at any point: what    *)
(* was not synced by then is either on the disk or is not.                  *)
(***************************************************************************)
EXTENDS Integers, FiniteSets, Sequences

CONSTANTS PageSize,        \* page_size_
          FirstMap,        \* the map_size_ of a new file: Roundup(65536, page_size)
          LargestMap,      \* 1 << 20
          MaxBytes,        \* bound: bytes appended
          MaxCallFaults    \* bound: failing system calls

VARIABLES
    region,    \* the members: [mapped, limit, dst, lastSync, fileOffset, mapSize, pendingSync, open]
    left,      \* the bytes Append still has to copy
    written,   \* bytes copied so far: the byte at position p is p + 1
    content,   \* the file as the kernel has it: a sequence of bytes
    onDisk,   \* the positions whose byte is on the disk
    acked,  \* the bytes a Sync returned OK for
    calls,     \* failed system calls
    lostSync   \* a Sync returned an error

pfvars == <<region, left, written, content, onDisk, acked, calls, lostSync>>

FileInit ==
    /\ region = [mapped |-> FALSE, limit |-> 0, dst |-> 0, lastSync |-> 0,
                 fileOffset |-> 0, mapSize |-> FirstMap, pendingSync |-> FALSE,
                 open |-> TRUE]
    /\ left = 0 /\ written = 0 /\ content = <<>> /\ onDisk = {}
    /\ acked = 0 /\ calls = 0 /\ lostSync = FALSE

\* A system call: it succeeds or fails.
Call(ok) == calls' = IF ok THEN calls ELSE calls + 1
MayFail(ok) == ~ok => calls < MaxCallFaults

\* ftruncate: cut, or extended with zeros.  What is cut is not on the disk any
\* more, and zeros need not be written to be read as zeros.
CutTo(c, n) == [p \in 1 .. n |-> IF p <= Len(c) THEN c[p] ELSE 0]

\* UnmapCurrentRegion: the region as it is left, whether or not munmap worked.
UnmapCurrentRegion(r) ==
    IF ~r.mapped THEN r
    ELSE [mapped |-> FALSE, limit |-> 0, dst |-> 0, lastSync |-> 0,
          fileOffset |-> r.fileOffset + r.limit,
          mapSize |-> IF r.mapSize < LargestMap THEN 2 * r.mapSize ELSE r.mapSize,
          pendingSync |-> r.pendingSync \/ r.lastSync < r.limit,
          open |-> r.open]

\* MapNewRegion, once ftruncate and mmap have worked.
MapNewRegion(r) ==
    [r EXCEPT !.mapped = TRUE, !.limit = r.mapSize, !.dst = 0, !.lastSync = 0]

\* A call of Append; the region is filled and moved in the steps below.
Append_(n) ==
    /\ region.open /\ left = 0 /\ written + n <= MaxBytes
    /\ left' = n
    /\ UNCHANGED <<region, written, content, onDisk, acked, calls, lostSync>>

\* An iteration with room left in the region: memcpy.
CopyIn ==
    LET avail == region.limit - region.dst
        n == IF left <= avail THEN left ELSE avail
        at == region.fileOffset + region.dst
    IN  /\ left > 0 /\ avail > 0
        /\ content' = [p \in DOMAIN content |->
                          IF p \in at + 1 .. at + n THEN written + (p - at) ELSE content[p]]
        /\ region' = [region EXCEPT !.dst = @ + n]
        /\ onDisk' = onDisk \ (at + 1 .. at + n)
        /\ written' = written + n /\ left' = left - n
        /\ UNCHANGED <<acked, calls, lostSync>>

\* An iteration at the end of the region: unmap it and map the next one.  A
\* failure of munmap, ftruncate or mmap ends Append with an error.
MoveRegion(unmapOk, truncateOk, mapOk) ==
    LET r == UnmapCurrentRegion(region)
        n == r.fileOffset + r.mapSize
        ok == unmapOk /\ truncateOk /\ mapOk
    IN  /\ left > 0 /\ region.limit = region.dst
        /\ (~unmapOk => region.mapped) /\ MayFail(ok) /\ Call(ok)
        /\ content' = IF unmapOk /\ truncateOk THEN CutTo(content, n) ELSE content
        /\ region' = IF ok THEN MapNewRegion(r) ELSE r
        /\ left' = IF ok THEN left ELSE 0
        /\ UNCHANGED <<written, onDisk, acked, lostSync>>

\* TruncateToPageBoundary.
TruncateToPageBoundary(s) == s - (s % PageSize)

\* The positions msync writes: the pages of the unsynced bytes of the region.
SyncedPages(r) ==
    LET p1 == TruncateToPageBoundary(r.lastSync)
        p2 == TruncateToPageBoundary(r.dst - 1)
    IN  {r.fileOffset + p + 1 : p \in p1 .. p2 + PageSize - 1}

\* Sync: fdatasync for what was unmapped unsynced, then msync.
Sync(dataOk, mapOk) ==
    LET late == region.dst > region.lastSync
        ok == dataOk /\ mapOk
    IN  /\ region.open /\ left = 0
        /\ (~dataOk => region.pendingSync) /\ (~mapOk => late)
        /\ MayFail(ok) /\ Call(ok)
        /\ onDisk' = onDisk
               \cup (IF region.pendingSync /\ dataOk THEN DOMAIN content ELSE {})
               \cup (IF late /\ mapOk THEN SyncedPages(region) ELSE {})
        /\ region' = [region EXCEPT !.pendingSync = FALSE, !.lastSync = region.dst]
        /\ acked' = IF ok THEN written ELSE acked
        /\ lostSync' = (lostSync \/ ~ok)
        /\ UNCHANGED <<left, written, content>>

\* SyncDirIfManifest failing: Sync returns before it has touched the file.
SyncDirFails ==
    /\ region.open /\ left = 0 /\ MayFail(FALSE) /\ Call(FALSE)
    /\ UNCHANGED <<region, left, written, content, onDisk, acked, lostSync>>

\* The unused space at the end of the region that Close cuts off.
Unused(r) == r.limit - r.dst

\* Close: unmap, and cut off what was preallocated and not used.
Close(unmapOk, truncateOk) ==
    LET r == UnmapCurrentRegion(region)
        unused == Unused(region)
        ok == unmapOk /\ truncateOk
    IN  /\ region.open /\ left = 0
        /\ (~unmapOk => region.mapped) /\ (~truncateOk => unused > 0)
        /\ MayFail(ok) /\ Call(ok)
        /\ content' = IF ok /\ unused > 0
                      THEN CutTo(content, r.fileOffset - unused) ELSE content
        /\ region' = [r EXCEPT !.open = FALSE]
        /\ UNCHANGED <<left, written, onDisk, acked, lostSync>>

FileNext ==
    \/ \E n \in 1 .. MaxBytes : Append_(n)
    \/ CopyIn
    \/ \E u, t, m \in BOOLEAN : MoveRegion(u, t, m)
    \/ \E d, m \in BOOLEAN : Sync(d, m)
    \/ SyncDirFails
    \/ \E u, t \in BOOLEAN : Close(u, t)

FileSpec == FileInit /\ [][FileNext]_pfvars

\* The n-th byte appended is at position p (a failed Append leaves a gap).
Holds(b, p) == p \in DOMAIN content /\ content[p] = b

(* "Have we done an munmap of unsynced data?"  Whatever a Sync has returned OK
   for can be read back after the machine stops: every byte appended before it
   is on the disk, whether the region it was written through is still mapped,
   was only partly synced or has been left behind.  (A Sync that returns OK
   after one that failed promises nothing: pending_sync_ and last_sync_ are
   set before the calls that may fail.) *)
SyncedBytesDurable ==
    ~lostSync =>
        \A b \in 1 .. acked : \E p \in onDisk : Holds(b, p)

(* "either properly close the file before reading from it, or for log files,
   the reading code knows enough to skip zero suffixes": the file holds what
   was appended, in order and without gaps, followed by zeros that Close
   removes when none of its calls fails. *)
FileHoldsAppended ==
    calls = 0 =>
        /\ written <= Len(content)
        /\ \A p \in DOMAIN content : content[p] = IF p <= written THEN p ELSE 0
        /\ ~region.open => Len(content) = written
=============================================================================
