------------------------------ MODULE Scraper ------------------------------
(***************************************************************************)
(* The scraper's forever loop (HandleScrape, Prepare, Consolidate in       *)
(* internal/scrape) and the part of the disk that it keeps: the chunks of  *)
(* the index (finalized/ and blooms/), the stage, and the ripe and unripe  *)
(* folders, over any number of runs of the program.                        *)
(*                                                                         *)
(* One action per change of the disk, so that the process may be killed    *)
(* between any two of them.  ScrapeBatch is one step, with the outcomes    *)
(* that module Blaze allows it.  The content of a file is the set of the   *)
(* blocks whose appearances it holds.                                      *)
(***************************************************************************)
EXTENDS Integers, FiniteSets, FiniteSetsExt

CONSTANTS
    MaxBlock,      \* bound: the last block of the chain
    BlockCnt,      \* opts.BlockCnt
    UnripeDist,    \* opts.Settings.UnripeDist
    PerChunk,      \* appsPerChunk
    FirstSnap, SnapTo,  \* the grid of blocks at which a chunk always ends
    Weight,        \* the number of appearances in each block
    AllowMissing,  \* bm.AllowMissing()
    Events         \* what may happen to the scraper, a subset of Hazards

Hazards == {"crash", "sigint", "runcount", "node", "disk", "bloom", "notify"}
Blocks == 1 .. MaxBlock

ASSUME ScraperAssumption ==
    /\ MaxBlock \in Nat /\ UnripeDist \in Nat
    /\ {BlockCnt, PerChunk, SnapTo, FirstSnap} \subseteq Nat \ {0}
    /\ Weight \in [Blocks -> Nat]
    /\ AllowMissing \in BOOLEAN
    /\ Events \subseteq Hazards

Addressed == {b \in Blocks : Weight[b] > 0}
IsSnap(b) == b >= FirstSnap /\ b % SnapTo = 0
Apps(S) == MapThenSumSet(LAMBDA b : IF b \in Blocks THEN Weight[b] ELSE 1, S)

VARIABLES
    \* on disk
    chunks,     \* finalized/*.bin: the range in the name, the blocks inside
    blooms,     \* blooms/*.bloom: the ranges in the names
    stages,     \* staging/*.txt: the range in the name, the blocks inside
    ripe, unripe,
    \* the node
    head,       \* the latest block
    \* the running program
    pc,
    cancelled,  \* sigintCtx.Err() != nil
    meta,       \* bm.meta.Finalized, or NoMeta when bm.meta is nil
    batch,      \* the blocks of this round
    cur,        \* the block Consolidate is at
    appMap,     \* the blocks whose appearances it has in memory
    cr,         \* chunkRange
    backup,     \* what a Restore would put back: a set of at most one stage
    restored    \* history variable: a stage was put back after a chunk or a
                \* newer stage had taken its appearances

disk   == <<chunks, blooms, stages>>
files  == <<ripe, unripe>>
memory == <<meta, batch, cur, appMap, cr, backup>>
vars   == <<disk, files, head, pc, cancelled, memory>>

NoMeta == -1
Span(f, l) == [first |-> f, last |-> l]
Name(file) == Span(file.first, file.last)
NoSpan == Span(0, 0)
NoBatch == [first |-> 0, last |-> 0, ripeBlock |-> 0]

-----------------------------------------------------------------------------
(* What the file names say: GetMetaData.                                   *)

MaxOf(S) == Max(S \cup {0})
Finalized == MaxOf({r.last : r \in blooms})
Staged == MaxOf({s.last : s \in stages})
Staging == IF Staged = 0 THEN Finalized ELSE Staged
RipeHeight == MaxOf(ripe \cup {Staging})
IndexHeight == MaxOf({Finalized, Staging, RipeHeight})
NextIndexHeight == IndexHeight + 1

\* file.LatestFileInFolder: the last name in alphabetical order
LatestStages ==
    {s \in stages : \A t \in stages :
        t.first < s.first \/ (t.first = s.first /\ t.last <= s.last)}

\* writing a file replaces the one of the same name
Put(folder, file) == {f \in folder : Name(f) # Name(file)} \cup {file}

Init ==
    /\ chunks = {} /\ blooms = {} /\ stages = {} /\ ripe = {} /\ unripe = {}
    /\ head \in 0 .. MaxBlock
    /\ pc = "off" /\ cancelled = FALSE
    /\ meta = 0 /\ batch = NoBatch /\ cur = 0 /\ appMap = {} /\ cr = NoSpan
    /\ backup = {}
    /\ restored = FALSE

-----------------------------------------------------------------------------
(* The outside world.                                                      *)

NewBlock ==
    /\ head < MaxBlock /\ head' = head + 1
    /\ UNCHANGED <<disk, files, pc, cancelled, memory>>

Sigint ==
    /\ "sigint" \in Events /\ pc # "off" /\ ~cancelled
    /\ cancelled' = TRUE
    /\ UNCHANGED <<disk, files, head, pc, memory>>

Forget ==
    /\ cancelled' = FALSE
    /\ meta' = 0 /\ batch' = NoBatch /\ cur' = 0 /\ appMap' = {} /\ cr' = NoSpan
    /\ backup' = {}

\* The process is killed.  The backup of the stage stays in the cache's tmp
\* folder, where nobody will look for it.
Crash ==
    /\ "crash" \in Events /\ pc # "off"
    /\ pc' = "off" /\ Forget
    /\ UNCHANGED <<disk, files, head>>

\* HandleScrape returns
Exit == pc' = "off" /\ Forget

-----------------------------------------------------------------------------
(* Prepare and the head of the loop.                                       *)

\* [mutant] the temporary folders are not cleaned
Start_Unclean ==
    /\ pc = "off"
    /\ IF Span(0, 0) \in blooms
       THEN pc' = "loop" /\ UNCHANGED <<appMap, cr>>
       ELSE pc' = "index" /\ appMap' = {0} /\ cr' = Span(0, 0)
    /\ UNCHANGED <<disk, files, head, cancelled, meta, batch, cur, backup>>

\* Prepare: clean the temporary folders; write the chunk of block zero unless
\* its bloom is there
Start ==
    /\ pc = "off"
    /\ ripe' = {} /\ unripe' = {}
    /\ IF Span(0, 0) \in blooms
       THEN pc' = "loop" /\ UNCHANGED <<appMap, cr>>
       ELSE pc' = "index" /\ appMap' = {0} /\ cr' = Span(0, 0)
    /\ UNCHANGED <<disk, head, cancelled, meta, batch, cur, backup>>

Interrupted ==
    /\ pc = "loop" /\ cancelled
    /\ Exit /\ UNCHANGED <<disk, files, head>>

\* GetMetaData fails, the chain is too short, the index is ahead of the chain
\* or there is no new block
NothingToDo ==
    /\ pc = "loop" /\ ~cancelled
    /\ "node" \in Events \/ head < UnripeDist \/ NextIndexHeight > head
    /\ pc' = "pause"
    /\ UNCHANGED <<disk, files, head, cancelled, memory>>

BeginRound ==
    /\ pc = "loop" /\ ~cancelled
    /\ head >= UnripeDist /\ NextIndexHeight <= head
    /\ meta' = Finalized
    /\ batch' = [first |-> NextIndexHeight,
                 last |-> Min({NextIndexHeight + BlockCnt - 1, head}),
                 ripeBlock |-> head - UnripeDist]
    /\ pc' = "scrape"
    /\ UNCHANGED <<disk, files, head, cancelled, cur, appMap, cr, backup>>

-----------------------------------------------------------------------------
(* ScrapeBatch, as module Blaze describes it.                              *)

RipeFiles == {b \in Addressed : b \in batch.first .. batch.last /\ b <= batch.ripeBlock}
UnripeFiles == {b \in Addressed : b \in batch.first .. batch.last /\ b > batch.ripeBlock}

\* bm.nRipe = 0 leaves nothing to consolidate
ScrapeBatchOk ==
    /\ pc = "scrape" /\ ~cancelled
    /\ ripe' = RipeFiles /\ unripe' = UnripeFiles
    /\ pc' = IF batch.first > batch.ripeBlock THEN "pause" ELSE "stage"
    /\ UNCHANGED <<disk, head, cancelled, memory>>

\* some block failed: the folders were cleaned
ScrapeBatchFails ==
    /\ pc = "scrape" /\ "node" \in Events /\ ~cancelled
    /\ ripe' = {} /\ unripe' = {}
    /\ pc' = "pause"
    /\ UNCHANGED <<disk, head, cancelled, memory>>

\* WriteTimestamps failed: the files stay
TimestampsFail ==
    /\ pc = "scrape" /\ "disk" \in Events /\ ~cancelled
    /\ ripe' = RipeFiles /\ unripe' = UnripeFiles
    /\ pc' = "pause"
    /\ UNCHANGED <<disk, head, cancelled, memory>>

\* any part of the files may have been written
ScrapeBatchCancelled ==
    /\ pc = "scrape" /\ cancelled
    /\ ripe' \in SUBSET RipeFiles /\ unripe' \in SUBSET UnripeFiles
    /\ Exit /\ UNCHANGED <<disk, head>>

-----------------------------------------------------------------------------
(* Consolidate.                                                            *)

\* [mutant] the stage is removed but not loaded
LoadStage_NotLoaded ==
    /\ pc = "stage"
    /\ backup' = LatestStages
    /\ stages' = stages \ LatestStages
    /\ appMap' = {}
    /\ cr' = Span(meta + 1, batch.first)
    /\ cur' = batch.first
    /\ pc' = "block"
    /\ UNCHANGED <<chunks, blooms, files, head, cancelled, meta, batch>>

\* Back the stage up, load it and remove it.  The range of a stage that
\* exists is that of the blocks inside.
LoadStage ==
    /\ pc = "stage"
    /\ backup' = LatestStages
    /\ stages' = stages \ LatestStages
    /\ appMap' = UNION {s.has : s \in LatestStages}
    /\ cr' = IF LatestStages = {}
             THEN Span(meta + 1, batch.first)
             ELSE Span(Min(appMap'), Max(appMap'))
    /\ cur' = batch.first
    /\ pc' = "block"
    /\ UNCHANGED <<chunks, blooms, files, head, cancelled, meta, batch>>

\* the backup could not be made
BackupFails ==
    /\ pc = "stage" /\ "disk" \in Events /\ stages # {}
    /\ pc' = "pause"
    /\ UNCHANGED <<disk, files, head, cancelled, memory>>

\* the deferred backup.Restore()
Restore ==
    /\ stages' = IF backup = {} THEN stages
                 ELSE Put(stages, CHOOSE s \in backup : TRUE)

\* return an error, or nothing after an interrupt: HandleScrape pauses or ends
Abandon ==
    /\ Restore
    /\ IF cancelled THEN Exit
       ELSE pc' = "pause" /\ backup' = {}
            /\ UNCHANGED <<cancelled, meta, batch, cur, appMap, cr>>

\* ... of a critical error, or a panic
Die == Restore /\ Exit

AtBlock == pc = "block" /\ cur <= batch.last

CancelledInLoop ==
    /\ AtBlock /\ cancelled
    /\ Abandon
    /\ UNCHANGED <<chunks, blooms, files, head>>

SkipUnripe ==
    /\ AtBlock /\ ~cancelled /\ cur \in unripe
    /\ cur' = cur + 1
    /\ UNCHANGED <<disk, files, head, pc, cancelled, meta, batch, appMap, cr, backup>>

\* no ripe file, and the node does not confirm that the block is empty
MissingRipe ==
    /\ AtBlock /\ ~cancelled /\ cur \notin unripe \cup ripe
    /\ ~AllowMissing /\ "node" \in Events
    /\ ripe' = {} /\ unripe' = {}
    /\ Abandon
    /\ UNCHANGED <<chunks, blooms, head>>

\* [mutant] unripe blocks are not skipped
ConsolidateBlock_TakesUnripe ==
    /\ AtBlock /\ ~cancelled
    /\ appMap' = appMap \cup ({cur} \cap ripe)
    /\ ripe' = ripe \ {cur}
    /\ cr' = [cr EXCEPT !.last = cur]
    /\ IF IsSnap(cur) \/ Apps(appMap') >= PerChunk
       THEN pc' = "index" /\ UNCHANGED cur
       ELSE cur' = cur + 1 /\ UNCHANGED pc
    /\ UNCHANGED <<disk, unripe, head, cancelled, meta, batch, backup>>

\* add the ripe file, if there is one, to the map and remove it; then decide
\* whether to make a chunk
ConsolidateBlock ==
    /\ AtBlock /\ ~cancelled /\ cur \notin unripe
    /\ appMap' = appMap \cup ({cur} \cap ripe)
    /\ ripe' = ripe \ {cur}
    /\ cr' = [cr EXCEPT !.last = cur]
    /\ IF IsSnap(cur) \/ Apps(appMap') >= PerChunk
       THEN pc' = "index" /\ UNCHANGED cur
       ELSE cur' = cur + 1 /\ UNCHANGED pc
    /\ UNCHANGED <<disk, unripe, head, cancelled, meta, batch, backup>>

-----------------------------------------------------------------------------
(* chunk.Write, from Consolidate and from Prepare (the chunk of block 0).  *)

IsZero == cr = Span(0, 0)

\* the index file first ...
WriteIndex ==
    /\ pc = "index"
    /\ chunks' = Put(chunks, [first |-> cr.first, last |-> cr.last, has |-> appMap])
    /\ pc' = "bloom"
    /\ UNCHANGED <<blooms, stages, files, head, cancelled, memory>>

\* ... then the bloom.  writeBloom reports no error when the file cannot be
\* opened.
WriteBloom ==
    /\ pc = "bloom"
    /\ blooms' \in {blooms \cup {cr}} \cup (IF "bloom" \in Events THEN {blooms} ELSE {})
    /\ pc' = "notify"
    /\ UNCHANGED <<chunks, stages, files, head, cancelled, memory>>

\* An error of either is critical: bloom and index are removed, the program
\* ends.
WriteFails ==
    /\ pc \in {"index", "bloom"} /\ "disk" \in Events
    /\ chunks' = IF IsZero THEN chunks ELSE {c \in chunks : Name(c) # cr}
    /\ Die
    /\ UNCHANGED <<blooms, files, head>>

\* NotifyChunkWritten fails
NotifyChunkFails ==
    /\ pc = "notify" /\ "notify" \in Events
    /\ IF IsZero THEN Die ELSE Abandon
    /\ UNCHANGED <<chunks, blooms, files, head>>

\* [mutant] the map is not emptied
NextChunk_KeepsMap ==
    /\ pc = "notify" /\ ~IsZero
    /\ meta' = Finalized /\ appMap' = appMap /\ cr' = Span(cr.last + 1, cr.last + 1)
    /\ cur' = cur + 1 /\ pc' = "block"
    /\ UNCHANGED <<disk, files, head, cancelled, batch, backup>>

\* reset for the next chunk; `bm.meta, _ = GetMetaData' is nil if that fails
NextChunk ==
    /\ pc = "notify" /\ ~IsZero
    /\ meta' \in {Finalized} \cup (IF "node" \in Events THEN {NoMeta} ELSE {})
    /\ appMap' = {}
    /\ cr' = Span(cr.last + 1, cr.last + 1)
    /\ cur' = cur + 1
    /\ pc' = "block"
    /\ UNCHANGED <<disk, files, head, cancelled, batch, backup>>

BlockZeroDone ==
    /\ pc = "notify" /\ IsZero
    /\ pc' = "loop" /\ appMap' = {}
    /\ UNCHANGED <<disk, files, head, cancelled, meta, batch, cur, cr, backup>>

-----------------------------------------------------------------------------
(* The end of Consolidate and of the round.                                *)

AtEnd == pc = "block" /\ cur > batch.last

\* nothing is left for a stage
NoStage ==
    /\ AtEnd /\ appMap = {}
    /\ pc' = "commit"
    /\ UNCHANGED <<disk, files, head, cancelled, memory>>

\* [mutant] the stage is named up to the end of the batch
WriteStage_NamedByBatch ==
    /\ AtEnd /\ appMap # {} /\ ~cancelled /\ meta # NoMeta
    /\ stages' = Put(stages, [first |-> meta + 1, last |-> batch.last, has |-> appMap])
    /\ pc' = "commit"
    /\ UNCHANGED <<chunks, blooms, files, head, cancelled, memory>>

\* what is left becomes the new stage, named from the last chunk on
WriteStage ==
    /\ AtEnd /\ appMap # {} /\ ~cancelled /\ meta # NoMeta
    /\ stages' = Put(stages, [first |-> meta + 1, last |-> Max(appMap), has |-> appMap])
    /\ pc' = "commit"
    /\ UNCHANGED <<chunks, blooms, files, head, cancelled, memory>>

\* an interrupt, or a failed write (whose file is removed)
StageNotWritten ==
    /\ AtEnd /\ appMap # {} /\ meta # NoMeta
    /\ cancelled \/ "disk" \in Events
    /\ Abandon
    /\ UNCHANGED <<chunks, blooms, files, head>>

\* bm.meta.Finalized of a nil bm.meta: the deferred Restore still runs
NilMeta ==
    /\ AtEnd /\ appMap # {} /\ meta = NoMeta
    /\ Die
    /\ UNCHANGED <<chunks, blooms, files, head>>

\* the listener could not be told of the new stage
NotifyStageFails ==
    /\ pc = "commit" /\ "notify" \in Events
    /\ Abandon
    /\ UNCHANGED <<chunks, blooms, files, head>>

\* backup.Clear()
Commit ==
    /\ pc = "commit"
    /\ IF cancelled THEN Exit
       ELSE pc' = "pause" /\ backup' = {}
            /\ UNCHANGED <<cancelled, meta, batch, cur, appMap, cr>>
    /\ UNCHANGED <<disk, files, head>>

\* the run count is reached: the files stay for the user
RunCountReached ==
    /\ pc = "pause" /\ "runcount" \in Events
    /\ Exit /\ UNCHANGED <<disk, files, head>>

PauseInterrupted ==
    /\ pc = "pause" /\ cancelled
    /\ Exit /\ UNCHANGED <<disk, files, head>>

\* ripe files are unexpected here and cleaned; unripe ones always are
Pause ==
    /\ pc = "pause" /\ ~cancelled
    /\ ripe' = {} /\ unripe' = {}
    /\ pc' = "loop" /\ Forget
    /\ UNCHANGED <<disk, head>>

Scrape ==
    \/ Start \/ Interrupted \/ NothingToDo \/ BeginRound
    \/ ScrapeBatchOk \/ ScrapeBatchFails \/ TimestampsFail \/ ScrapeBatchCancelled
    \/ LoadStage \/ BackupFails \/ CancelledInLoop \/ SkipUnripe \/ MissingRipe
    \/ ConsolidateBlock \/ WriteIndex \/ WriteBloom \/ WriteFails
    \/ NotifyChunkFails \/ NextChunk \/ BlockZeroDone
    \/ NoStage \/ WriteStage \/ StageNotWritten \/ NilMeta \/ NotifyStageFails
    \/ Commit \/ RunCountReached \/ PauseInterrupted \/ Pause

\* a stage appears beside a findable chunk, or another stage, that has its
\* appearances
Beside(s) ==
    \/ \E c \in chunks : Name(c) \in blooms /\ s.has \cap c.has # {}
    \/ \E t \in stages : t # s /\ s.has \cap t.has # {}
Remember == restored' = (restored \/ \E s \in stages' \ stages : Beside(s))

Next == (Scrape \/ NewBlock \/ Sigint \/ Crash) /\ Remember

Spec == Init /\ [][Next]_<<vars, restored>>

\* The program is restarted, its steps are taken, and the chain goes on.
\* Interrupts and failures need not happen, but may for ever.
Fairness == WF_vars(Scrape) /\ WF_vars(NewBlock)

FairSpec == Spec /\ Fairness

-----------------------------------------------------------------------------
(* Properties.                                                             *)

Indexed ==  \* what a query can find: chunks through their blooms, and the stage
    (UNION {c.has : c \in {c \in chunks : Name(c) \in blooms}})
        \cup (UNION {s.has : s \in stages})
Height == MaxOf({Finalized, Staging})
Spans == [first : 0 .. MaxBlock + 1, last : 0 .. MaxBlock + 1]
IndexFiles == [first : 0 .. MaxBlock + 1, last : 0 .. MaxBlock, has : SUBSET (0 .. MaxBlock)]

\* The names and contents of the files of the index, and the variables of the
\* program.
TypeOK ==
    /\ chunks \subseteq IndexFiles /\ stages \subseteq IndexFiles /\ blooms \subseteq Spans
    /\ ripe \subseteq Addressed /\ unripe \subseteq Addressed
    /\ head \in 0 .. MaxBlock
    /\ pc \in {"off", "loop", "scrape", "stage", "block", "index", "bloom", "notify",
               "commit", "pause"}
    /\ cancelled \in BOOLEAN
    /\ meta \in {NoMeta} \cup (0 .. MaxBlock)
    /\ batch \in [first : 0 .. MaxBlock, last : 0 .. MaxBlock, ripeBlock : 0 .. MaxBlock]
    /\ cur \in 0 .. MaxBlock + 1
    /\ appMap \subseteq 0 .. MaxBlock
    /\ cr \in Spans
    /\ backup \subseteq IndexFiles

\* `Each time chifra scrape runs, it begins at the last block it completed
\* processing (plus one)': whatever the file names count as done has been done.
\* No appearance up to the height of the index is missing from it, in any
\* state, although the process may be killed or interrupted anywhere.
NoHole == \A b \in Addressed : b <= Height => b \in Indexed

\* No appearance is in the index twice: not in two chunks, nor in a chunk and
\* in the stage.
NoDuplicate ==
    /\ \A c, d \in chunks :
        Name(c) \in blooms /\ Name(d) \in blooms /\ c # d => c.has \cap d.has = {}
    /\ \A c \in chunks, s \in stages : Name(c) \in blooms => c.has \cap s.has = {}

\* The chunks cover the chain from block zero without a gap and without an
\* overlap (what `chifra chunks index --check' tests, CheckSequential).
Sequential ==
    \A r \in blooms : r.last # Finalized =>
        \E t \in blooms : t.first = r.last + 1
            /\ \A u \in blooms : u.last > r.last => u.first > r.last

\* The chunks overlap, leave a gap or repeat an appearance only after the one
\* accident that is known to do it: Consolidate failed after it had written a
\* chunk or the new stage, and the deferred Restore put the old stage back beside
\* it.  Kills at any step, and every other failure, do no such harm.
OverlapIsRestored == ~restored => Sequential /\ NoDuplicate

\* The steps in which something goes wrong.
Mishap ==
    \/ Crash \/ Sigint \/ RunCountReached \/ ScrapeBatchFails \/ BackupFails
    \/ MissingRipe \/ WriteFails \/ NotifyChunkFails \/ StageNotWritten \/ NilMeta
    \/ NotifyStageFails
    \/ TimestampsFail /\ batch.first <= batch.ripeBlock
    \/ NothingToDo /\ head >= UnripeDist /\ NextIndexHeight <= head

\* Whatever has happened before, once nothing goes wrong any more the index
\* catches up with the last ripe block in which an address appears.
CaughtUp == \A b \in Addressed : b + UnripeDist <= MaxBlock => b \in Indexed
CatchesUp == <>[][~Mishap]_vars => <>[]CaughtUp

\* An unripe block is queried again in the next round (HandleScrape: `The chain
\* may have (it frequently does) re-orged. We want to re-qeury these next
\* round').
UnripeQueriedAgain == pc = "loop" => \A b \in Addressed : b + UnripeDist > head => b > Height

-----------------------------------------------------------------------------
Log == INSTANCE IndexLog WITH
    MaxHeight <- MaxBlock, Content <- Addressed,
    final <- Finalized, height <- Height, found <- Indexed \cap Blocks

\* The files of the scraper keep the promise of the index to its readers, in
\* every state and across every step, kill and interrupt: Finalized never goes
\* back, and up to IndexHeight exactly the right appearances can be found.
ImplementsIndexLog == Log!Spec
=============================================================================
