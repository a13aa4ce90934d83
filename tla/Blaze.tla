------------------------------- MODULE Blaze -------------------------------
(***************************************************************************)
(* One call of BlazeManager.ScrapeBatch (internal/scrape/scrape_batch.go)  *)
(* and the goroutine pipeline it runs, HandleBlaze (scrape_blaze.go).      *)
(*                                                                         *)
(* The main goroutine sends block numbers down blockChannel.  nChannels    *)
(* ProcessBlocks goroutines query the node and send what they find down    *)
(* appearanceChannel; nChannels ProcessAppearances goroutines extract the  *)
(* addresses, write one file per block and send the timestamp down         *)
(* tsChannel; nChannels ProcessTimestamps goroutines collect it.  The      *)
(* three channels are unbuffered: a send and its receive are one step.     *)
(*                                                                         *)
(* `bm.errors = append(bm.errors, ...)' takes no lock, so it is a read     *)
(* followed by a write, and a concurrent append may be lost in between.    *)
(* What a block contains is reduced to whether it has an address at all.   *)
(***************************************************************************)
EXTENDS Integers, FiniteSets

CONSTANTS
    StartBlock,     \* bm.startBlock
    BlockCount,     \* bm.blockCount
    RipeBlock,      \* bm.ripeBlock: later blocks are not final yet
    Workers,        \* the goroutines of one stage (nChannels of them)
    Addressed,      \* the blocks in which at least one address appears
    Notifying,      \* opts.Notify
    Faulty,         \* may the node, the disk or the listener fail?
    Interruptible,  \* may a SIGINT cancel the context?
    NoBlock         \* what a goroutine that holds no block holds

ASSUME BlazeAssumption ==
    /\ StartBlock \in Nat /\ BlockCount \in Nat \ {0} /\ RipeBlock \in Nat
    /\ IsFiniteSet(Workers)
    /\ {Notifying, Faulty, Interruptible} \subseteq BOOLEAN
    /\ NoBlock \notin Nat

Blocks == StartBlock .. (StartBlock + BlockCount - 1)
IsRipe(b) == b <= RipeBlock

VARIABLES
    pc,           \* where ScrapeBatch (the main goroutine) is
    next,         \* the next block to send
    closed,       \* the channels that have been closed
    blockW,       \* ProcessBlocks goroutines
    appW,         \* ProcessAppearances goroutines
    tsW,          \* ProcessTimestamps goroutines: the block each one holds
    errors,       \* bm.errors, as the set of blocks it mentions
    processedMap, \* bm.processedMap
    nRipe, nUnripe, nTimestamps,  \* the counters of bm
    timestamps,   \* the keys of bm.timestamps
    ripe, unripe, \* the blocks that have a file in ripe/ and in unripe/
    cancelled,    \* sigintCtx.Err() != nil
    result        \* what ScrapeBatch returned

counters == <<processedMap, nRipe, nUnripe>>
stamps   == <<timestamps, nTimestamps>>
folders  == <<ripe, unripe>>
main     == <<pc, next, closed, result>>
vars == <<main, blockW, appW, tsW, errors, counters, stamps, folders, cancelled>>

\* a goroutine at a place in its loop, the block it holds, and the slice
\* header of bm.errors it has read
At(place, b) == [at |-> place, bn |-> b, snap |-> {}]
Idle == At("recv", NoBlock)
Exited == At("exit", NoBlock)
Channels == {"block", "appearance", "ts"}
Results == {"none", "errors", "cancelled", "missed", "check", "write"}
BlockStates == {"query", "err", "err2", "send"}
AppStates == {"work", "wrote", "werr", "werr2", "err", "err2", "send"}

nProcessed == nRipe + nUnripe

Init ==
    /\ pc = "loop" /\ next = StartBlock /\ closed = {} /\ result = "none"
    /\ blockW = [w \in Workers |-> Idle]
    /\ appW   = [w \in Workers |-> Idle]
    /\ tsW    = [w \in Workers |-> Idle]
    /\ errors = {} /\ processedMap = {} /\ timestamps = {}
    /\ nRipe = 0 /\ nUnripe = 0 /\ nTimestamps = 0
    /\ ripe = {} /\ unripe = {}
    /\ cancelled = FALSE

-----------------------------------------------------------------------------
(* HandleBlaze: the main goroutine.                                        *)

\* The sigint trap cancels the context at any moment before the batch returns.
Sigint ==
    /\ Interruptible /\ ~cancelled /\ result = "none"
    /\ cancelled' = TRUE
    /\ UNCHANGED <<main, blockW, appW, tsW, errors, counters, stamps, folders>>

\* `if ctx.Err() != nil { return nil }' in front of each send: the channels
\* stay open and the goroutines behind.
CheckContext ==
    /\ pc = "loop" /\ next \in Blocks
    /\ pc' = IF cancelled THEN "joined" ELSE "send"
    /\ UNCHANGED <<next, closed, result, blockW, appW, tsW, errors, counters,
                   stamps, folders, cancelled>>

\* blockChannel <- block, received by goroutine w
SendBlock(w) ==
    /\ pc = "send" /\ blockW[w].at = "recv"
    /\ blockW' = [blockW EXCEPT ![w] = At("query", next)]
    /\ next' = next + 1
    /\ pc' = "loop"
    /\ UNCHANGED <<closed, result, appW, tsW, errors, counters, stamps, folders,
                   cancelled>>

\* close(blockChannel)
CloseBlocks ==
    /\ pc = "loop" /\ next \notin Blocks
    /\ closed' = closed \cup {"block"}
    /\ pc' = "waitBlocks"
    /\ UNCHANGED <<next, result, blockW, appW, tsW, errors, counters, stamps,
                   folders, cancelled>>

\* [mutant] appearanceChannel is never closed
JoinBlocks_NoClose ==
    /\ pc = "waitBlocks" /\ \A w \in Workers : blockW[w].at = "exit"
    /\ pc' = "waitApps"
    /\ UNCHANGED <<next, closed, result, blockW, appW, tsW, errors, counters,
                   stamps, folders, cancelled>>

\* blockWg.Wait(); close(appearanceChannel)
JoinBlocks ==
    /\ pc = "waitBlocks" /\ \A w \in Workers : blockW[w].at = "exit"
    /\ closed' = closed \cup {"appearance"}
    /\ pc' = "waitApps"
    /\ UNCHANGED <<next, result, blockW, appW, tsW, errors, counters, stamps,
                   folders, cancelled>>

\* [mutant] tsChannel is closed without waiting for its senders
JoinApps_NoWait ==
    /\ pc = "waitApps"
    /\ closed' = closed \cup {"ts"}
    /\ pc' = "waitTs"
    /\ UNCHANGED <<next, result, blockW, appW, tsW, errors, counters, stamps,
                   folders, cancelled>>

\* appWg.Wait(); close(tsChannel)
JoinApps ==
    /\ pc = "waitApps" /\ \A w \in Workers : appW[w].at = "exit"
    /\ closed' = closed \cup {"ts"}
    /\ pc' = "waitTs"
    /\ UNCHANGED <<next, result, blockW, appW, tsW, errors, counters, stamps,
                   folders, cancelled>>

\* tsWg.Wait(); return nil
JoinTs ==
    /\ pc = "waitTs" /\ \A w \in Workers : tsW[w].at = "exit"
    /\ pc' = "joined"
    /\ UNCHANGED <<next, closed, result, blockW, appW, tsW, errors, counters,
                   stamps, folders, cancelled>>

-----------------------------------------------------------------------------
(* ProcessBlocks.                                                          *)

\* the timestamp, the traces, the receipts and the miner were all obtained
QueryOk(w) ==
    /\ blockW[w].at = "query"
    /\ blockW' = [blockW EXCEPT ![w] = At("send", @.bn)]
    /\ UNCHANGED <<main, appW, tsW, errors, counters, stamps, folders, cancelled>>

\* [mutant] the error of the node is dropped
QueryFails_Silent(w) ==
    /\ Faulty /\ blockW[w].at = "query"
    /\ blockW' = [blockW EXCEPT ![w] = Idle]
    /\ UNCHANGED <<main, appW, tsW, errors, counters, stamps, folders, cancelled>>

QueryFails(w) ==
    /\ Faulty /\ blockW[w].at = "query"
    /\ blockW' = [blockW EXCEPT ![w] = At("err", @.bn)]
    /\ UNCHANGED <<main, appW, tsW, errors, counters, stamps, folders, cancelled>>

\* bm.errors = append(bm.errors, ...): the read ...
BlockReadErrors(w) ==
    /\ blockW[w].at = "err"
    /\ blockW' = [blockW EXCEPT ![w] = [at |-> "err2", bn |-> @.bn, snap |-> errors]]
    /\ UNCHANGED <<main, appW, tsW, errors, counters, stamps, folders, cancelled>>

\* ... and the write.  The block goes no further.
BlockWriteErrors(w) ==
    /\ blockW[w].at = "err2"
    /\ errors' = blockW[w].snap \cup {blockW[w].bn}
    /\ blockW' = [blockW EXCEPT ![w] = Idle]
    /\ UNCHANGED <<main, appW, tsW, counters, stamps, folders, cancelled>>

\* appearanceChannel <- sd, received by goroutine a
SendScraped(w, a) ==
    /\ blockW[w].at = "send" /\ appW[a].at = "recv"
    /\ appW' = [appW EXCEPT ![a] = At("work", blockW[w].bn)]
    /\ blockW' = [blockW EXCEPT ![w] = Idle]
    /\ UNCHANGED <<main, tsW, errors, counters, stamps, folders, cancelled>>

\* the range loop ends on a closed channel; blockWg.Done()
BlockExit(w) ==
    /\ blockW[w].at = "recv" /\ "block" \in closed
    /\ blockW' = [blockW EXCEPT ![w] = Exited]
    /\ UNCHANGED <<main, appW, tsW, errors, counters, stamps, folders, cancelled>>

-----------------------------------------------------------------------------
(* ProcessAppearances and WriteAppearances.                                *)

\* [mutant] the error is dropped, the timestamp still sent
UniqFails_Silent(a) ==
    /\ Faulty /\ appW[a].at = "work"
    /\ appW' = [appW EXCEPT ![a] = At("send", @.bn)]
    /\ UNCHANGED <<main, blockW, tsW, errors, counters, stamps, folders, cancelled>>

\* extracting the addresses fails
UniqFails(a) ==
    /\ Faulty /\ appW[a].at = "work"
    /\ appW' = [appW EXCEPT ![a] = At("err", @.bn)]
    /\ UNCHANGED <<main, blockW, tsW, errors, counters, stamps, folders, cancelled>>

\* [mutant] the ripe block itself is filed as unripe
WriteFile_Boundary(a) ==
    /\ appW[a].at = "work"
    /\ LET b == appW[a].bn IN
       /\ ripe'   = IF b \in Addressed /\ b < RipeBlock THEN ripe \cup {b} ELSE ripe
       /\ unripe' = IF b \in Addressed /\ b >= RipeBlock THEN unripe \cup {b} ELSE unripe
    /\ appW' = [appW EXCEPT ![a] = At("wrote", @.bn)]
    /\ UNCHANGED <<main, blockW, tsW, errors, counters, stamps, cancelled>>

\* os.WriteFile into ripe/ or unripe/, unless there is nothing to write
WriteFile(a) ==
    /\ appW[a].at = "work"
    /\ LET b == appW[a].bn IN
       /\ ripe'   = IF b \in Addressed /\ IsRipe(b) THEN ripe \cup {b} ELSE ripe
       /\ unripe' = IF b \in Addressed /\ ~IsRipe(b) THEN unripe \cup {b} ELSE unripe
    /\ appW' = [appW EXCEPT ![a] = At("wrote", @.bn)]
    /\ UNCHANGED <<main, blockW, tsW, errors, counters, stamps, cancelled>>

\* a failed write is appended to bm.errors twice: by appendScrapeError and
\* by the caller
WriteFileFails(a) ==
    /\ Faulty /\ appW[a].at = "work" /\ appW[a].bn \in Addressed
    /\ appW' = [appW EXCEPT ![a] = At("werr", @.bn)]
    /\ UNCHANGED <<main, blockW, tsW, errors, counters, stamps, folders, cancelled>>

\* the listener is told of ripe blocks only; an error leaves the file behind
NotifyFails(a) ==
    /\ Faulty /\ Notifying /\ appW[a].at = "wrote" /\ IsRipe(appW[a].bn)
    /\ appW' = [appW EXCEPT ![a] = At("err", @.bn)]
    /\ UNCHANGED <<main, blockW, tsW, errors, counters, stamps, folders, cancelled>>

\* the block is done: processedMap and a counter, under writeMutex
MarkProcessed(a) ==
    /\ appW[a].at = "wrote"
    /\ processedMap' = processedMap \cup {appW[a].bn}
    /\ IF IsRipe(appW[a].bn)
       THEN nRipe' = nRipe + 1 /\ UNCHANGED nUnripe
       ELSE nUnripe' = nUnripe + 1 /\ UNCHANGED nRipe
    /\ appW' = [appW EXCEPT ![a] = At("send", @.bn)]
    /\ UNCHANGED <<main, blockW, tsW, errors, stamps, folders, cancelled>>

\* the unlocked append, as in ProcessBlocks
AppReadErrors(a) ==
    /\ appW[a].at \in {"werr", "err"}
    /\ appW' = [appW EXCEPT ![a] =
           [at |-> IF @.at = "werr" THEN "werr2" ELSE "err2",
            bn |-> @.bn, snap |-> errors]]
    /\ UNCHANGED <<main, blockW, tsW, errors, counters, stamps, folders, cancelled>>

AppWriteErrors(a) ==
    /\ appW[a].at \in {"werr2", "err2"}
    /\ errors' = appW[a].snap \cup {appW[a].bn}
    /\ appW' = [appW EXCEPT ![a] =
           At(IF @.at = "werr2" THEN "err" ELSE "send", @.bn)]
    /\ UNCHANGED <<main, blockW, tsW, counters, stamps, folders, cancelled>>

\* tsChannel <- sData.ts, whether or not the block had an error
SendTs(a, t) ==
    /\ appW[a].at = "send" /\ tsW[t].at = "recv"
    /\ tsW' = [tsW EXCEPT ![t] = At("store", appW[a].bn)]
    /\ appW' = [appW EXCEPT ![a] = Idle]
    /\ UNCHANGED <<main, blockW, errors, counters, stamps, folders, cancelled>>

\* [mutant] the goroutine leaves on an interrupt, its senders stay
AppExit_OnInterrupt(a) ==
    /\ appW[a].at = "recv" /\ ("appearance" \in closed \/ cancelled)
    /\ appW' = [appW EXCEPT ![a] = Exited]
    /\ UNCHANGED <<main, blockW, tsW, errors, counters, stamps, folders, cancelled>>

AppExit(a) ==
    /\ appW[a].at = "recv" /\ "appearance" \in closed
    /\ appW' = [appW EXCEPT ![a] = Exited]
    /\ UNCHANGED <<main, blockW, tsW, errors, counters, stamps, folders, cancelled>>

-----------------------------------------------------------------------------
(* ProcessTimestamps.                                                      *)

\* under blazeMutex
StoreTs(t) ==
    /\ tsW[t].at = "store"
    /\ timestamps' = timestamps \cup {tsW[t].bn}
    /\ nTimestamps' = nTimestamps + 1
    /\ tsW' = [tsW EXCEPT ![t] = Idle]
    /\ UNCHANGED <<main, blockW, appW, errors, counters, folders, cancelled>>

TsExit(t) ==
    /\ tsW[t].at = "recv" /\ "ts" \in closed
    /\ tsW' = [tsW EXCEPT ![t] = Exited]
    /\ UNCHANGED <<main, blockW, appW, errors, counters, stamps, folders, cancelled>>

-----------------------------------------------------------------------------
(* ScrapeBatch after HandleBlaze has returned.                             *)

\* [mutant] the ripe files are left behind
CleanAndReturn_KeepRipe(r) ==
    /\ unripe' = {}
    /\ result' = r /\ pc' = "done"
    /\ UNCHANGED <<ripe, next, closed, blockW, appW, tsW, errors, counters, stamps,
                   cancelled>>

\* cleanEphemeralIndexFolders, then return an error
CleanAndReturn(r) ==
    /\ ripe' = {} /\ unripe' = {}
    /\ result' = r /\ pc' = "done"
    /\ UNCHANGED <<next, closed, blockW, appW, tsW, errors, counters, stamps, cancelled>>

Return(r) ==
    /\ result' = r /\ pc' = "done"
    /\ UNCHANGED <<next, closed, blockW, appW, tsW, errors, counters, stamps,
                   folders, cancelled>>

Goto(label) ==
    /\ pc' = label
    /\ UNCHANGED <<next, closed, result, blockW, appW, tsW, errors, counters,
                   stamps, folders, cancelled>>

\* if len(bm.errors) > 0
CheckErrors ==
    /\ pc = "joined"
    /\ \/ errors # {} /\ CleanAndReturn("errors")
       \/ errors = {} /\ Goto("ctx")

\* if ctx.Err() != nil, in front of the checks
CheckInterrupt ==
    /\ pc = "ctx"
    /\ \/ cancelled /\ Return("cancelled")
       \/ ~cancelled /\ Goto("missed")

\* was every block processed?
CheckMissed ==
    /\ pc = "missed"
    /\ \/ ~(Blocks \subseteq processedMap) /\ CleanAndReturn("missed")
       \/ Blocks \subseteq processedMap /\ Goto("counts")

CountsAgree ==
    /\ BlockCount = Cardinality(processedMap)
    /\ BlockCount = nProcessed
    /\ nTimestamps = nProcessed

\* `defensive programming...'
CheckCounts ==
    /\ pc = "counts"
    /\ \/ ~CountsAgree /\ CleanAndReturn("check")
       \/ CountsAgree /\ Goto("write")

\* the last look at the context; otherwise WriteTimestamps is called
Finish ==
    /\ pc = "write"
    /\ Return(IF cancelled THEN "cancelled" ELSE "write")

ScrapeBatch ==
    \/ CheckContext \/ CloseBlocks \/ JoinBlocks \/ JoinApps \/ JoinTs
    \/ CheckErrors \/ CheckInterrupt \/ CheckMissed \/ CheckCounts \/ Finish

ProcessBlocks(w) ==
    \/ QueryOk(w) \/ QueryFails(w) \/ BlockReadErrors(w) \/ BlockWriteErrors(w)
    \/ BlockExit(w)

ProcessAppearances(a) ==
    \/ UniqFails(a) \/ WriteFile(a) \/ WriteFileFails(a) \/ NotifyFails(a)
    \/ MarkProcessed(a) \/ AppReadErrors(a) \/ AppWriteErrors(a) \/ AppExit(a)

ProcessTimestamps(t) == StoreTs(t) \/ TsExit(t)

Next ==
    \/ Sigint
    \/ ScrapeBatch
    \/ \E w \in Workers : SendBlock(w)
    \/ \E w \in Workers : ProcessBlocks(w)
    \/ \E w, a \in Workers : SendScraped(w, a)
    \/ \E a \in Workers : ProcessAppearances(a)
    \/ \E a, t \in Workers : SendTs(a, t)
    \/ \E t \in Workers : ProcessTimestamps(t)

Spec == Init /\ [][Next]_vars

\* The Go scheduler runs every goroutine that can run, a rendezvous with two
\* willing sides takes place, and every call to the node, the disk and the
\* listener returns.  Nothing obliges the user to interrupt.
Fairness ==
    /\ WF_vars(ScrapeBatch)
    /\ WF_vars(\E w \in Workers : SendBlock(w))
    /\ \A w \in Workers :
         /\ WF_vars(ProcessBlocks(w))
         /\ WF_vars(\E a \in Workers : SendScraped(w, a))
         /\ WF_vars(ProcessAppearances(w))
         /\ WF_vars(\E t \in Workers : SendTs(w, t))
         /\ WF_vars(ProcessTimestamps(w))

FairSpec == Spec /\ Fairness

-----------------------------------------------------------------------------
(* Properties.                                                             *)

Goroutine(busy) == {Idle, Exited} \cup [at : busy, bn : Blocks, snap : SUBSET Blocks]

\* A goroutine holds a block of the batch exactly while it works on one, and no
\* set or counter of the batch leaves its range.
TypeOK ==
    /\ pc \in {"loop", "send", "waitBlocks", "waitApps", "waitTs", "joined",
               "ctx", "missed", "counts", "write", "done"}
    /\ next \in Blocks \cup {StartBlock + BlockCount}
    /\ closed \subseteq Channels
    /\ blockW \in [Workers -> Goroutine(BlockStates)]
    /\ appW \in [Workers -> Goroutine(AppStates)]
    /\ tsW \in [Workers -> Goroutine({"store"})]
    /\ errors \subseteq Blocks /\ processedMap \subseteq Blocks
    /\ timestamps \subseteq Blocks
    /\ nRipe \in Nat /\ nUnripe \in Nat /\ nTimestamps \in Nat
    /\ ripe \subseteq Blocks /\ unripe \subseteq Blocks
    /\ cancelled \in BOOLEAN
    /\ result \in Results

\* A batch that goes on to WriteTimestamps (and to Consolidate after it) has
\* found everything: every block was processed, has its timestamp and, if an
\* address appears in it, its file in the folder that its age calls for.
\* Consolidate reads a missing file as an empty block, so a hole here would be
\* a silent hole in the index.
BatchComplete ==
    result = "write" =>
        /\ processedMap = Blocks /\ timestamps = Blocks
        /\ ripe = {b \in Blocks \cap Addressed : IsRipe(b)}
        /\ unripe = {b \in Blocks \cap Addressed : ~IsRipe(b)}

\* The two later checks of ScrapeBatch never fire: without an error and
\* without an interrupt the counters kept by three kinds of goroutines agree,
\* however their steps interleave and however many appends to bm.errors are lost.
DefensiveChecksHold == result \notin {"missed", "check"}

\* An error that some goroutine has met is never forgotten altogether: once
\* every goroutine has left, a block that was not processed means that bm.errors
\* is not empty, although concurrent unlocked appends overwrite each other.
FailureIsReported ==
    pc = "joined" /\ closed = Channels /\ processedMap # Blocks => errors # {}

\* A batch that fails after its goroutines were joined leaves no file behind
\* for the next batch, which may scrape the same blocks of another fork.
FailedBatchLeavesNothing ==
    result = "errors" /\ closed = Channels => ripe = {} /\ unripe = {}

\* Once a joined batch has returned, with an error or without, nothing that it
\* wrote moves any more: Consolidate, or the next batch, has the folders for itself.
NothingMovesAfterReturn ==
    [][ result # "none" /\ closed = Channels
        => UNCHANGED <<folders, stamps, counters, errors>> ]_vars

\* ScrapeBatch returns: the three stages never wait for each other in a circle.
BatchReturns == <>(pc = "done")

\* An interrupted batch abandons its goroutines at their receives; none is
\* abandoned with a block in hand, so none keeps writing for ever.
InFlightBlocksDrain ==
    <>[](\A w \in Workers :
        blockW[w].bn = NoBlock /\ appW[w].bn = NoBlock /\ tsW[w].bn = NoBlock)

-----------------------------------------------------------------------------
(* The inductive invariant behind the safety properties.                   *)

InBlockStage(b) == \E w \in Workers : blockW[w].bn = b
InAppStage(b)   == \E w \in Workers : appW[w].bn = b
InTsStage(b)    == \E w \in Workers : tsW[w].bn = b
Passed(b) ==     \* left WriteAppearances, with or without an error
    \/ \E w \in Workers : appW[w].bn = b /\ appW[w].at = "send"
    \/ InTsStage(b)
    \/ b \in timestamps

Joined == closed = Channels /\ pc \notin {"waitBlocks", "waitApps", "waitTs"}

\* The order in which HandleBlaze closes its channels and waits: who may still run.
ControlInv ==
    /\ pc = "send" => next \in Blocks
    /\ "block" \in closed => next = StartBlock + BlockCount
    /\ pc \in {"loop", "send"} => closed = {}
    /\ pc = "waitBlocks" => closed = {"block"}
    /\ pc = "waitApps" => closed = {"block", "appearance"}
    /\ pc = "waitTs" => closed = Channels
    /\ pc \in {"joined", "ctx", "done"} => closed = Channels \/ cancelled
    /\ pc \in {"missed", "counts", "write"} => closed = Channels
    /\ closed # {} => "block" \in closed
    /\ "appearance" \in closed => \A w \in Workers : blockW[w] = Exited
    /\ "ts" \in closed => "appearance" \in closed /\ \A w \in Workers : appW[w] = Exited
    /\ Joined => \A w \in Workers : tsW[w] = Exited
    /\ (result = "none") <=> (pc # "done")
    /\ Joined /\ (pc \in {"ctx", "missed", "counts", "write"}
                    \/ result \in {"cancelled", "missed", "check", "write"}) => errors = {}
    /\ result \in {"missed", "check", "write"} => closed = Channels

\* A block is in one place only.
BlockPlace == \A b \in Blocks : InBlockStage(b) =>
    b < next /\ ~InAppStage(b) /\ ~InTsStage(b) /\ b \notin timestamps
AppPlace == \A b \in Blocks : InAppStage(b) =>
    b < next /\ ~InTsStage(b) /\ b \notin timestamps
TsPlace ==
    /\ \A b \in Blocks : InTsStage(b) => b < next /\ b \notin timestamps
    /\ \A b \in timestamps : b < next
OneHolder == \A v, w \in Workers : v # w =>
    /\ blockW[v].bn = blockW[w].bn => blockW[v].bn = NoBlock
    /\ appW[v].bn = appW[w].bn => appW[v].bn = NoBlock
    /\ tsW[v].bn = tsW[w].bn => tsW[v].bn = NoBlock
PlaceInv == BlockPlace /\ AppPlace /\ TsPlace /\ OneHolder

\* No block is lost on the way, and the marks follow the blocks.
FlowInv ==
    /\ errors = {} => \A b \in Blocks : b < next =>
         InBlockStage(b) \/ InAppStage(b) \/ InTsStage(b) \/ b \in timestamps
    /\ errors = {} => \A b \in Blocks : Passed(b) => b \in processedMap
    /\ \A b \in processedMap : Passed(b)

\* The counters count what they say they count.
CountInv ==
    /\ nRipe = Cardinality({b \in processedMap : IsRipe(b)})
    /\ nUnripe = Cardinality({b \in processedMap : ~IsRipe(b)})
    /\ nTimestamps = Cardinality(timestamps)

\* Which files exist.
FileInv ==
    /\ \A b \in ripe : b \in Addressed /\ IsRipe(b)
    /\ \A b \in unripe : b \in Addressed /\ ~IsRipe(b)
    /\ result \notin {"errors", "missed", "check"} =>
         \A b \in Blocks \cap Addressed :
            (b \in processedMap \/ \E w \in Workers : appW[w].bn = b /\ appW[w].at = "wrote")
               => IF IsRipe(b) THEN b \in ripe ELSE b \in unripe
    /\ result \in {"errors", "missed", "check"} /\ Joined => ripe = {} /\ unripe = {}

\* The bookkeeping of a batch is consistent at every step (the three stages,
\* the channels, the counters of bm and the two folders of HandleBlaze).
BlazeInv == TypeOK /\ ControlInv /\ PlaceInv /\ FlowInv /\ CountInv /\ FileInv
=============================================================================
