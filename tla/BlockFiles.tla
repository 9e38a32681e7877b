----------------------------- MODULE BlockFiles -----------------------------
(***************************************************************************)
(* Where blocks and undo data are put on disk (main.cpp: FindBlockPos,     *)
(* FindUndoPos, FlushBlockFile, LoadExternalBlockFile; main.h: WriteToDisk *)
(* and ReadFromDisk), and what a power failure can take away.              *)
(*                                                                         *)
(* blk[f] and rev[f] are the cells of a block file and of its undo file; a *)
(* cell holds a pair of a block and a place in it, or Junk.  safe is the   *)
(* part of the files that FileCommit has put on the disk.  treedb is what the  *)
(* block tree database answers, and journal its values since the last      *)
(* Sync, any of which may be the one a power failure leaves.  The chain is *)
(* the set of connected blocks (Chain models which); a block stored early  *)
(* may be connected late, as a reorganisation does.                        *)
(***************************************************************************)
EXTENDS Integers, Sequences, FiniteSets, SequencesExt

CONSTANTS BlockBytes,         \* cells of each block, header included
          UndoBytes,
          MaxFileSize,        \* MAX_BLOCKFILE_SIZE
          Predecessor,        \* hashPrevBlock, 0 for a child of the genesis block
          MaxFileFaults       \* power failures, full disks and reindexings

VARIABLES blk, rev, safe, treedb, journal, nLastBlockFile, infoLastBlockFile,
          op, connected, durable, initial, early, stray, fileFaults

bvars == <<blk, rev, safe, treedb, journal, nLastBlockFile, infoLastBlockFile,
           op, connected, durable, initial, early, stray, fileFaults>>

FBlocks == DOMAIN BlockBytes
FileNumbers == 0 .. Len(BlockBytes)
Junk == <<0, 0>>
NoInfo == [nSize |-> 0, nUndoSize |-> 0]
NoOp == [at |-> "idle"]
NoPos == <<-1, 0>>

EmptyDb == [info |-> [f \in FileNumbers |-> NoInfo], last |-> 0,
            pos |-> [b \in FBlocks |-> NoPos], undo |-> [b \in FBlocks |-> NoPos]]

FilesInit ==
    /\ blk = [f \in FileNumbers |-> <<>>]
    /\ rev = [f \in FileNumbers |-> <<>>]
    /\ safe = [blk |-> blk, rev |-> rev]
    /\ treedb = EmptyDb
    /\ journal = {}
    /\ nLastBlockFile = 0
    /\ infoLastBlockFile = NoInfo
    /\ op = NoOp
    /\ connected = {} /\ durable = {}
    /\ initial = TRUE
    /\ early = {} /\ stray = {}
    /\ fileFaults = 0

-----------------------------------------------------------------------------

FileFault == fileFaults < MaxFileFaults /\ fileFaults' = fileFaults + 1

\* A file after the bytes of b are written at pos; the gap before pos reads as junk.
Written(file, pos, b, size) ==
    [i \in 1 .. (IF Len(file) < pos + size THEN pos + size ELSE Len(file)) |->
        IF i > pos /\ i <= pos + size THEN <<b, i - pos>>
        ELSE IF i <= Len(file) THEN file[i] ELSE Junk]

Reads(file, pos, b, size) ==
    /\ pos + size <= Len(file)
    /\ \A i \in 1 .. size : file[pos + i] = <<b, i>>

Truncated(file, size) == IF Len(file) <= size THEN file ELSE SubSeq(file, 1, size)

\* The blocks of a set that can be read in the given files: what a commit of them secures.
Secured(set, files, file, pos, size(_)) ==
    {b \in set : pos[b][1] \in files /\ Reads(file[pos[b][1]], pos[b][2], b, size(b))}

BlockSize(b) == BlockBytes[b]
UndoSize(b) == UndoBytes

Secure(files) == /\ early' = early \ Secured(early, files, blk, treedb.pos, BlockSize)
                 /\ stray' = stray \ Secured(stray, files, rev, treedb.undo, UndoSize)

\* One write to the block tree database, not synchronised.
DbWrite(new) == treedb' = new /\ journal' = journal \cup {treedb}

Info(f) == IF f = nLastBlockFile THEN infoLastBlockFile ELSE treedb.info[f]

(* The variant goes on without committing. *)
LeaveBlockFile(left) == UNCHANGED <<blk, rev, safe>> /\ Secure(left)

\* FlushBlockFile(true) of each file left behind: truncated to what is used, and committed.
FinalizeBlockFile(left) ==
    /\ blk' = [f \in FileNumbers |-> IF f \in left THEN Truncated(blk[f], Info(f).nSize) ELSE blk[f]]
    /\ rev' = [f \in FileNumbers |-> IF f \in left THEN Truncated(rev[f], Info(f).nUndoSize) ELSE rev[f]]
    /\ safe' = [blk |-> [f \in FileNumbers |-> IF f \in left THEN blk'[f] ELSE safe.blk[f]],
                rev |-> [f \in FileNumbers |-> IF f \in left THEN rev'[f] ELSE safe.rev[f]]]
    /\ Secure(left)

Stored(pos, b) == b # 0 => pos[b] # NoPos

\* The file FindBlockPos moves to: the first with room for the block.
NextFile(size) ==
    IF infoLastBlockFile.nSize + size < MaxFileSize THEN nLastBlockFile
    ELSE CHOOSE f \in nLastBlockFile + 1 .. Len(BlockBytes) :
            /\ treedb.info[f].nSize + size < MaxFileSize
            /\ \A g \in nLastBlockFile + 1 .. f - 1 : treedb.info[g].nSize + size >= MaxFileSize

\* AcceptBlock of a new block: FindBlockPos gives the file and the position and
\* advances the file's size, in memory only when CheckDiskSpace then fails.
FindBlockPos(b) ==
    LET f == NextFile(BlockBytes[b])
        info == Info(f)
        new == [info EXCEPT !.nSize = @ + BlockBytes[b]]
    IN
    /\ op.at = "idle" /\ treedb.pos[b] = NoPos /\ Stored(treedb.pos, Predecessor[b])
    /\ FinalizeBlockFile(nLastBlockFile .. f - 1)
    /\ nLastBlockFile' = f
    /\ infoLastBlockFile' = new
    /\ \/ /\ DbWrite([treedb EXCEPT !.info[f] = new])
          /\ op' = [at |-> "last", block |-> b, file |-> f, pos |-> info.nSize]
          /\ UNCHANGED fileFaults
       \/ FileFault /\ UNCHANGED <<treedb, journal, op>>
    /\ UNCHANGED <<connected, durable, initial>>

\* WriteLastBlockFile, a write of its own.
WriteLastBlockFile ==
    /\ op.at = "last"
    /\ IF treedb.last = op.file THEN UNCHANGED <<treedb, journal>> ELSE DbWrite([treedb EXCEPT !.last = op.file])
    /\ op' = [op EXCEPT !.at = "block"]
    /\ UNCHANGED <<blk, rev, safe, nLastBlockFile, infoLastBlockFile, connected, durable,
                   initial, early, stray, fileFaults>>

\* CBlock::WriteToDisk commits unless the initial download is under way.
WriteBlock ==
    /\ op.at = "block"
    /\ blk' = [blk EXCEPT ![op.file] = Written(@, op.pos, op.block, BlockBytes[op.block])]
    /\ IF initial THEN UNCHANGED safe ELSE safe' = [safe EXCEPT !.blk[op.file] = blk'[op.file]]
    /\ early' = IF initial THEN early \cup {op.block} ELSE early \ {op.block}
    /\ op' = [op EXCEPT !.at = "index"]
    /\ UNCHANGED <<rev, treedb, journal, nLastBlockFile, infoLastBlockFile, connected, durable,
                   initial, stray, fileFaults>>

AddToBlockIndex ==
    /\ op.at = "index"
    /\ DbWrite([treedb EXCEPT !.pos[op.block] = <<op.file, op.pos>>])
    /\ op' = NoOp
    /\ UNCHANGED <<blk, rev, safe, nLastBlockFile, infoLastBlockFile, connected, durable,
                   initial, early, stray, fileFaults>>

-----------------------------------------------------------------------------
(* Undo data: in the undo file of the block's own file.                    *)

\* ConnectBlock's FindUndoPos, the size written before CheckDiskSpace; a block that
\* already has undo data is connected without.
FindUndoPos(b) ==
    LET f == treedb.pos[b][1]
        info == Info(f)
        new == [info EXCEPT !.nUndoSize = @ + UndoBytes]
    IN
    /\ op.at = "idle" /\ b \notin connected /\ f >= 0
    /\ Predecessor[b] \in connected \cup {0}
    /\ \A c \in connected : Predecessor[c] # Predecessor[b]
    /\ Reads(blk[f], treedb.pos[b][2], b, BlockBytes[b])
    /\ IF treedb.undo[b] # NoPos
       THEN connected' = connected \cup {b} /\ UNCHANGED <<infoLastBlockFile, treedb, journal, op, fileFaults>>
       ELSE /\ infoLastBlockFile' = IF f = nLastBlockFile THEN new ELSE infoLastBlockFile
            /\ DbWrite([treedb EXCEPT !.info[f] = new])
            /\ \/ op' = [at |-> "undo", block |-> b, file |-> f, pos |-> info.nUndoSize] /\ UNCHANGED fileFaults
               \/ FileFault /\ UNCHANGED op
            /\ UNCHANGED connected
    /\ UNCHANGED <<blk, rev, safe, nLastBlockFile, durable, initial, early, stray>>

WriteUndo ==
    /\ op.at = "undo"
    /\ rev' = [rev EXCEPT ![op.file] = Written(@, op.pos, op.block, UndoBytes)]
    /\ IF initial THEN UNCHANGED safe ELSE safe' = [safe EXCEPT !.rev[op.file] = rev'[op.file]]
    /\ stray' = IF initial THEN stray \cup {op.block} ELSE stray \ {op.block}
    /\ op' = [op EXCEPT !.at = "connect"]
    /\ UNCHANGED <<blk, treedb, journal, nLastBlockFile, infoLastBlockFile, connected, durable,
                   initial, early, fileFaults>>

WriteConnected ==
    /\ op.at = "connect"
    /\ DbWrite([treedb EXCEPT !.undo[op.block] = <<op.file, op.pos>>])
    /\ connected' = connected \cup {op.block}
    /\ op' = NoOp
    /\ UNCHANGED <<blk, rev, safe, nLastBlockFile, infoLastBlockFile, durable, initial,
                   early, stray, fileFaults>>

ReadUndo(b) ==
    /\ op.at = "idle" /\ b \in connected
    /\ \A c \in connected : Predecessor[c] # b
    /\ Reads(rev[treedb.undo[b][1]], treedb.undo[b][2], b, UndoBytes)
    /\ connected' = connected \ {b}
    /\ UNCHANGED <<blk, rev, safe, treedb, journal, nLastBlockFile, infoLastBlockFile, op, durable,
                   initial, early, stray, fileFaults>>

-----------------------------------------------------------------------------

\* SetBestChain's flush: the last files, then the index, then the coins.
Flush ==
    /\ op.at = "idle" /\ connected # durable
    /\ safe' = [blk |-> [safe.blk EXCEPT ![nLastBlockFile] = blk[nLastBlockFile]],
                rev |-> [safe.rev EXCEPT ![nLastBlockFile] = rev[nLastBlockFile]]]
    /\ journal' = {}
    /\ durable' = connected
    /\ Secure({nLastBlockFile})
    /\ UNCHANGED <<blk, rev, treedb, nLastBlockFile, infoLastBlockFile, op, connected, initial, fileFaults>>

\* The initial download ends.
CaughtUp ==
    /\ op.at = "idle" /\ initial /\ initial' = FALSE
    /\ UNCHANGED <<blk, rev, safe, treedb, journal, nLastBlockFile, infoLastBlockFile, op, connected,
                   durable, early, stray, fileFaults>>

\* Power failure and LoadBlockIndexDB.  Of each file either what the system held
\* or what was committed is left.
PowerFailure ==
    /\ FileFault
    /\ \E lostBlk \in SUBSET {f \in FileNumbers : blk[f] # safe.blk[f]},
          lostRev \in SUBSET {f \in FileNumbers : rev[f] # safe.rev[f]},
          left \in journal \cup {treedb} :
          /\ blk' = [f \in FileNumbers |-> IF f \in lostBlk THEN safe.blk[f] ELSE blk[f]]
          /\ rev' = [f \in FileNumbers |-> IF f \in lostRev THEN safe.rev[f] ELSE rev[f]]
          /\ safe' = [blk |-> blk', rev |-> rev']
          /\ treedb' = left
          /\ nLastBlockFile' = left.last
          /\ infoLastBlockFile' = left.info[left.last]
    /\ journal' = {}
    /\ connected' = durable
    /\ op' = NoOp
    /\ initial' = TRUE
    /\ UNCHANGED <<durable, early, stray>>

\* Where LoadExternalBlockFile finds a block: the first complete copy.
Copies(b) == {<<f, p>> \in FileNumbers \X (0 .. MaxFileSize) : Reads(blk[f], p, b, BlockBytes[b])}

FirstCopy(b) == CHOOSE c \in Copies(b) : \A d \in Copies(b) : c[1] < d[1] \/ (c[1] = d[1] /\ c[2] <= d[2])

\* A file's size when FindBlockPos has been told of the blocks found in it.
SizeOf(pos, f) ==
    FoldLeftDomain(LAMBDA total, b : total + (IF pos[b][1] = f THEN BlockBytes[b] ELSE 0), 0, BlockBytes)

\* -reindex: the databases are wiped and every file is read; a block whose
\* predecessor was not found is dropped.
Reindex ==
    /\ op.at = "idle" /\ FileFault
    /\ LET found[b \in FBlocks \cup {0}] == b = 0 \/ (Copies(b) # {} /\ found[Predecessor[b]])
           pos == [b \in FBlocks |-> IF found[b] THEN FirstCopy(b) ELSE NoPos]
           used == {pos[b][1] : b \in {c \in FBlocks : found[c]}} \cup {0}
           last == CHOOSE f \in used : \A g \in used : g <= f
           new == [EmptyDb EXCEPT !.info = [f \in FileNumbers |-> [NoInfo EXCEPT !.nSize = SizeOf(pos, f)]],
                                  !.last = last, !.pos = pos]
       IN  treedb' = new /\ nLastBlockFile' = last /\ infoLastBlockFile' = new.info[last]
    /\ journal' = {}
    /\ connected' = {} /\ durable' = {}
    /\ initial' = TRUE /\ early' = {} /\ stray' = {}
    /\ UNCHANGED <<blk, rev, safe, op>>

FilesNext ==
    \/ \E b \in FBlocks : FindBlockPos(b) \/ FindUndoPos(b) \/ ReadUndo(b)
    \/ WriteLastBlockFile \/ WriteBlock \/ AddToBlockIndex \/ WriteUndo \/ WriteConnected
    \/ Flush \/ CaughtUp \/ PowerFailure \/ Reindex

FilesSpec == FilesInit /\ [][FilesNext]_bvars

-----------------------------------------------------------------------------

\* The index never points at the wrong bytes: a block or its undo data is never
\* overwritten, and after a power failure every block of the chain can be read
\* back and disconnected.  Excepted are blocks that were stored during the initial
\* download and are not in the flushed chain, and undo data written then to a file
\* other than the last, which no one commits (FlushBlockFile).
FilesSound ==
    \A b \in FBlocks :
        LET p == treedb.pos[b]
            u == treedb.undo[b]
        IN  /\ p # NoPos /\ (b \notin early \/ b \in durable) =>
                  Reads(blk[p[1]], p[2], b, BlockBytes[b])
            /\ b \in connected => p # NoPos /\ u # NoPos
            /\ b \in connected /\ b \notin stray => Reads(rev[u[1]], u[2], b, UndoBytes)

=============================================================================
