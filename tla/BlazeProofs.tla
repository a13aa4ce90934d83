---------------------------- MODULE BlazeProofs ----------------------------
(***************************************************************************)
(* Proofs about the scraping pipeline of HandleBlaze, for any number of    *)
(* goroutines, any range of blocks, any set of empty blocks and any faults.*)
(* BlazeInv is inductive: one lemma per part, one step per action.         *)
(***************************************************************************)
EXTENDS Blaze, FiniteSetTheorems, TLAPS

\* The initial state of a batch satisfies the invariant.
LEMMA InvInit == Init => BlazeInv
<1> SUFFICES ASSUME Init PROVE BlazeInv
  OBVIOUS
<1> USE BlazeAssumption DEF Init, Idle, Exited, At
<1>1. TypeOK
  <2>1. StartBlock \in Blocks
    BY DEF Blocks
  <2>2. ASSUME NEW busy PROVE [w \in Workers |-> Idle] \in [Workers -> Goroutine(busy)]
    BY DEF Goroutine
  <2>3. cancelled \in BOOLEAN
    OBVIOUS
  <2> QED BY <2>1, <2>2, <2>3 DEF TypeOK, Results, Channels
<1>2. ControlInv /\ PlaceInv
  BY DEF ControlInv, PlaceInv, Joined, Channels, Blocks, InBlockStage, InAppStage, InTsStage,
     BlockPlace, AppPlace, TsPlace, OneHolder
<1>3. FlowInv /\ FileInv
  BY DEF FlowInv, FileInv, Passed, InBlockStage, InAppStage, InTsStage, Blocks, Joined, Channels
<1>4. CountInv
  <2>1. /\ {b \in processedMap : IsRipe(b)} = {}
        /\ {b \in processedMap : ~IsRipe(b)} = {}
    OBVIOUS
  <2> QED BY <2>1, FS_EmptySet DEF CountInv
<1> QED BY <1>1, <1>2, <1>3, <1>4 DEF BlazeInv

\* Every step keeps to the types.
LEMMA TypeStep == ASSUME BlazeInv, [Next]_vars PROVE TypeOK'
<1> USE BlazeAssumption DEF BlazeInv, TypeOK, Goroutine, Idle, Exited, At, Results, main,
        counters, stamps, folders
<1>1. CASE Sigint
  BY <1>1 DEF Sigint
<1>2. CASE ScrapeBatch
  <2>1. CASE CheckContext \/ JoinTs
    BY <2>1 DEF CheckContext, JoinTs
  <2>2. CASE CloseBlocks \/ JoinBlocks \/ JoinApps
    BY <2>2 DEF CloseBlocks, JoinBlocks, JoinApps, Channels
  <2>3. CASE CheckErrors \/ CheckInterrupt \/ CheckMissed
    BY <2>3 DEF CheckErrors, CheckInterrupt, CheckMissed, CleanAndReturn, Return, Goto
  <2>4. CASE CheckCounts \/ Finish
    BY <2>4 DEF CheckCounts, Finish, CleanAndReturn, Return, Goto
  <2> QED BY <1>2, <2>1, <2>2, <2>3, <2>4 DEF ScrapeBatch
<1>3. ASSUME NEW w \in Workers, SendBlock(w) PROVE TypeOK'
  BY <1>3 DEF SendBlock, Blocks, BlockStates, ControlInv
<1>4. ASSUME NEW w \in Workers, ProcessBlocks(w) PROVE TypeOK'
  BY <1>4 DEF ProcessBlocks, QueryOk, QueryFails, BlockReadErrors, BlockWriteErrors,
     BlockExit, BlockStates
<1>5. ASSUME NEW w \in Workers, NEW a \in Workers, SendScraped(w, a) PROVE TypeOK'
  BY <1>5 DEF SendScraped, BlockStates, AppStates
<1>6. ASSUME NEW a \in Workers, ProcessAppearances(a) PROVE TypeOK'
  <2>1. CASE UniqFails(a) \/ WriteFileFails(a) \/ NotifyFails(a) \/ AppExit(a)
    BY <2>1 DEF UniqFails, WriteFileFails, NotifyFails, AppExit, AppStates
  <2>2. CASE WriteFile(a) \/ MarkProcessed(a)
    BY <2>2 DEF WriteFile, MarkProcessed, AppStates
  <2>3. CASE AppReadErrors(a) \/ AppWriteErrors(a)
    BY <2>3 DEF AppReadErrors, AppWriteErrors, AppStates
  <2> QED BY <1>6, <2>1, <2>2, <2>3 DEF ProcessAppearances
<1>7. ASSUME NEW a \in Workers, NEW t \in Workers, SendTs(a, t) PROVE TypeOK'
  BY <1>7 DEF SendTs, AppStates
<1>8. ASSUME NEW t \in Workers, ProcessTimestamps(t) PROVE TypeOK'
  BY <1>8 DEF ProcessTimestamps, StoreTs, TsExit
<1>9. CASE UNCHANGED vars
  BY <1>9 DEF vars
<1> QED
  BY <1>1, <1>2, <1>3, <1>4, <1>5, <1>6, <1>7, <1>8, <1>9 DEF Next

\* While ProcessAppearances runs, its steps do not touch what is joined.
LEMMA AppOnly ==
  ASSUME ControlInv, "ts" \notin closed, UNCHANGED <<main, blockW, tsW, cancelled>>
  PROVE  ControlInv'
BY DEF ControlInv, Joined, Channels, main

\* While ProcessTimestamps runs, its steps do not touch what is joined.
LEMMA TsOnly ==
  ASSUME ControlInv, ~Joined, UNCHANGED <<main, blockW, appW, errors, cancelled>>
  PROVE  ControlInv'
BY DEF ControlInv, Joined, Channels, main

\* Channels are closed and goroutines joined in the order of the stages.
LEMMA ControlStep == ASSUME BlazeInv, [Next]_vars PROVE ControlInv'
<1> USE BlazeAssumption DEF BlazeInv, TypeOK, ControlInv, Joined, Channels, Goroutine, Idle,
        Exited, At, main, counters, stamps, folders
<1>1. CASE Sigint
  BY <1>1 DEF Sigint
<1>2. CASE ScrapeBatch
  <2>1. CASE CheckContext \/ CloseBlocks
    BY <2>1 DEF CheckContext, CloseBlocks, Blocks
  <2>2. CASE JoinBlocks
    BY <2>2 DEF JoinBlocks, BlockStates
  <2>3. CASE JoinApps
    BY <2>3 DEF JoinApps, AppStates
  <2>4. CASE JoinTs
    BY <2>4 DEF JoinTs
  <2>5. CASE CheckErrors \/ CheckInterrupt \/ CheckMissed \/ CheckCounts \/ Finish
    BY <2>5 DEF CheckErrors, CheckInterrupt, CheckMissed, CheckCounts, Finish,
       CleanAndReturn, Return, Goto, Results
  <2> QED BY <1>2, <2>1, <2>2, <2>3, <2>4, <2>5 DEF ScrapeBatch
<1>3. ASSUME NEW w \in Workers, SendBlock(w) PROVE ControlInv'
  BY <1>3 DEF SendBlock, Blocks
<1>4. ASSUME NEW w \in Workers, ProcessBlocks(w) PROVE ControlInv'
  BY <1>4 DEF ProcessBlocks, QueryOk, QueryFails, BlockReadErrors, BlockWriteErrors, BlockExit
<1>5. ASSUME NEW w \in Workers, NEW a \in Workers, SendScraped(w, a) PROVE ControlInv'
  BY <1>5 DEF SendScraped
<1>6. ASSUME NEW a \in Workers, ProcessAppearances(a) PROVE ControlInv'
  <2>1. appW[a].at # "exit" /\ UNCHANGED <<main, blockW, tsW, cancelled>>
    BY <1>6 DEF ProcessAppearances, UniqFails, WriteFile, WriteFileFails, NotifyFails,
       MarkProcessed, AppReadErrors, AppWriteErrors, AppExit
  <2>2. "ts" \notin closed
    BY <2>1
  <2> QED BY <2>1, <2>2, AppOnly
<1>7. ASSUME NEW a \in Workers, NEW t \in Workers, SendTs(a, t) PROVE ControlInv'
  BY <1>7 DEF SendTs
<1>8. ASSUME NEW t \in Workers, ProcessTimestamps(t) PROVE ControlInv'
  <2>1. tsW[t].at # "exit" /\ UNCHANGED <<main, blockW, appW, errors, cancelled>>
    BY <1>8 DEF ProcessTimestamps, StoreTs, TsExit
  <2>2. ~Joined
    BY <2>1
  <2> QED BY <2>1, <2>2, TsOnly
<1>9. CASE UNCHANGED vars
  BY <1>9 DEF vars
<1> QED
  BY <1>1, <1>2, <1>3, <1>4, <1>5, <1>6, <1>7, <1>8, <1>9 DEF Next

-----------------------------------------------------------------------------
(* How a step moves blocks between the stages.                             *)

KeepBlock == \A v \in Workers : blockW'[v].bn = blockW[v].bn
KeepApp   == \A v \in Workers : appW'[v].bn = appW[v].bn
KeepTs    == \A v \in Workers : tsW'[v].bn = tsW[v].bn
SetBlock(w, b) == \A v \in Workers : blockW'[v].bn = IF v = w THEN b ELSE blockW[v].bn
SetApp(a, b)   == \A v \in Workers : appW'[v].bn = IF v = a THEN b ELSE appW[v].bn
SetTs(t, b)    == \A v \in Workers : tsW'[v].bn = IF v = t THEN b ELSE tsW[v].bn

Stay == KeepBlock /\ KeepApp /\ KeepTs /\ UNCHANGED <<next, timestamps>>
Enter(w) ==
    /\ next \in Blocks /\ next' = next + 1 /\ blockW[w].bn = NoBlock
    /\ SetBlock(w, next) /\ KeepApp /\ KeepTs /\ UNCHANGED timestamps
Drop(w) ==
    /\ SetBlock(w, NoBlock) /\ KeepApp /\ KeepTs /\ UNCHANGED <<next, timestamps>>
    /\ errors' # {}
ToApp(w, a) ==
    /\ blockW[w].bn \in Blocks /\ appW[a].bn = NoBlock
    /\ SetBlock(w, NoBlock) /\ SetApp(a, blockW[w].bn) /\ KeepTs
    /\ UNCHANGED <<next, timestamps>>
ToTs(a, t) ==
    /\ appW[a].bn \in Blocks /\ tsW[t].bn = NoBlock
    /\ SetApp(a, NoBlock) /\ SetTs(t, appW[a].bn) /\ KeepBlock
    /\ UNCHANGED <<next, timestamps>>
Store(t) ==
    /\ tsW[t].bn \in Blocks /\ timestamps' = timestamps \cup {tsW[t].bn}
    /\ SetTs(t, NoBlock) /\ KeepBlock /\ KeepApp /\ UNCHANGED next

Moves ==
    \/ Stay
    \/ \E w \in Workers : Enter(w) \/ Drop(w) \/ Store(w)
    \/ \E w, a \in Workers : ToApp(w, a) \/ ToTs(w, a)

\* A goroutine holds a block exactly while it is at work.
LEMMA Holding ==
  ASSUME TypeOK, NEW w \in Workers
  PROVE  /\ blockW[w].bn \in Blocks \cup {NoBlock}
         /\ appW[w].bn \in Blocks \cup {NoBlock}
         /\ tsW[w].bn \in Blocks \cup {NoBlock}
         /\ blockW[w].at \in {"recv", "exit"} <=> blockW[w].bn = NoBlock
         /\ appW[w].at \in {"recv", "exit"} <=> appW[w].bn = NoBlock
         /\ tsW[w].at \in {"recv", "exit"} <=> tsW[w].bn = NoBlock
         /\ NoBlock \notin Blocks
         /\ blockW[w].snap \subseteq Blocks /\ appW[w].snap \subseteq Blocks
<1>1. NoBlock \notin Blocks
  BY BlazeAssumption DEF Blocks
<1>2. /\ blockW[w] \in Goroutine(BlockStates) /\ appW[w] \in Goroutine(AppStates)
      /\ tsW[w] \in Goroutine({"store"})
  BY DEF TypeOK
<1> QED
  BY <1>1, <1>2 DEF Goroutine, Idle, Exited, At, BlockStates, AppStates

\* Every step moves at most one block, and only to the next stage.
LEMMA NextMoves == ASSUME BlazeInv, [Next]_vars PROVE Moves
<1> USE DEF BlazeInv, main, counters, stamps, folders, Moves
<1>0. /\ \A v \in Workers : blockW[v] = blockW[v] /\ DOMAIN blockW = Workers
      /\ DOMAIN appW = Workers /\ DOMAIN tsW = Workers
  BY DEF TypeOK
<1> DEFINE Same == UNCHANGED <<blockW, appW, tsW, next, timestamps>>
<1>s. Same => Moves
  BY DEF Stay, KeepBlock, KeepApp, KeepTs
<1>1. CASE Sigint
  BY <1>1, <1>s DEF Sigint
<1>2. CASE ScrapeBatch
  <2>1. Same
    BY <1>2 DEF ScrapeBatch, CheckContext, CloseBlocks, JoinBlocks, JoinApps, JoinTs,
       CheckErrors, CheckInterrupt, CheckMissed, CheckCounts, Finish, CleanAndReturn, Return, Goto
  <2> QED BY <2>1, <1>s
<1> USE Holding
<1>3. ASSUME NEW w \in Workers, SendBlock(w) PROVE Enter(w)
  BY <1>0, <1>3 DEF SendBlock, Enter, SetBlock, KeepApp, KeepTs, At, ControlInv
<1>4. ASSUME NEW w \in Workers, ProcessBlocks(w) PROVE Stay \/ Drop(w)
  <2>1. CASE QueryOk(w) \/ QueryFails(w) \/ BlockReadErrors(w)
    BY <2>1, <1>0 DEF QueryOk, QueryFails, BlockReadErrors, Stay, KeepBlock, KeepApp, KeepTs, At
  <2>2. CASE BlockExit(w)
    BY <2>2, <1>0 DEF BlockExit, Stay, KeepBlock, KeepApp, KeepTs, At, Exited
  <2>3. CASE BlockWriteErrors(w)
    BY <2>3, <1>0 DEF BlockWriteErrors, Drop, SetBlock, KeepApp, KeepTs, At, Idle
  <2> QED BY <1>4, <2>1, <2>2, <2>3 DEF ProcessBlocks
<1>5. ASSUME NEW w \in Workers, NEW a \in Workers, SendScraped(w, a) PROVE ToApp(w, a)
  BY <1>0, <1>5 DEF SendScraped, ToApp, SetBlock, SetApp, KeepTs, At, Idle
<1>6. ASSUME NEW a \in Workers, ProcessAppearances(a) PROVE Stay
  <2>1. CASE UniqFails(a) \/ WriteFileFails(a) \/ NotifyFails(a)
    BY <2>1, <1>0 DEF UniqFails, WriteFileFails, NotifyFails, At, Stay, KeepBlock, KeepApp, KeepTs
  <2>2. CASE WriteFile(a) \/ MarkProcessed(a)
    BY <2>2, <1>0 DEF WriteFile, MarkProcessed, At, Stay, KeepBlock, KeepApp, KeepTs
  <2>3. CASE AppReadErrors(a) \/ AppWriteErrors(a)
    BY <2>3, <1>0 DEF AppReadErrors, AppWriteErrors, At, Stay, KeepBlock, KeepApp, KeepTs
  <2>4. CASE AppExit(a)
    BY <2>4, <1>0 DEF AppExit, Stay, KeepBlock, KeepApp, KeepTs, At, Exited
  <2> QED BY <1>6, <2>1, <2>2, <2>3, <2>4 DEF ProcessAppearances
<1>7. ASSUME NEW a \in Workers, NEW t \in Workers, SendTs(a, t) PROVE ToTs(a, t)
  BY <1>0, <1>7 DEF SendTs, ToTs, SetApp, SetTs, KeepBlock, At, Idle
<1>8. ASSUME NEW t \in Workers, ProcessTimestamps(t) PROVE Stay \/ Store(t)
  <2>1. CASE StoreTs(t)
    BY <2>1, <1>0 DEF StoreTs, Store, SetTs, KeepBlock, KeepApp, At, Idle
  <2>2. CASE TsExit(t)
    BY <2>2, <1>0 DEF TsExit, Stay, KeepBlock, KeepApp, KeepTs, At, Exited
  <2> QED BY <1>8, <2>1, <2>2 DEF ProcessTimestamps
<1>9. CASE UNCHANGED vars
  BY <1>9, <1>s DEF vars
<1> QED
  BY <1>1, <1>2, <1>3, <1>4, <1>5, <1>6, <1>7, <1>8, <1>9 DEF Next

\* A block is never in two places.
LEMMA PlaceStep == ASSUME BlazeInv, [Next]_vars PROVE PlaceInv'
<1>0. /\ Moves /\ BlockPlace /\ AppPlace /\ TsPlace /\ OneHolder
      /\ timestamps \subseteq Blocks /\ NoBlock \notin Blocks
      /\ Blocks \subseteq Int /\ next \in Int
  BY NextMoves, BlazeAssumption DEF BlazeInv, TypeOK, Blocks, PlaceInv
<1>1. CASE Stay
  <2>1. \A b \in Blocks : /\ InBlockStage(b)' <=> InBlockStage(b)
                          /\ InAppStage(b)' <=> InAppStage(b)
                          /\ InTsStage(b)' <=> InTsStage(b)
    BY <1>1 DEF Stay, KeepBlock, KeepApp, KeepTs, InBlockStage, InAppStage, InTsStage
  <2>2. BlockPlace' /\ AppPlace' /\ TsPlace'
    BY <1>0, <1>1, <2>1 DEF Stay, BlockPlace, AppPlace, TsPlace
  <2>3. OneHolder'
    BY <1>0, <1>1 DEF Stay, KeepBlock, KeepApp, KeepTs, OneHolder
  <2> QED BY <2>2, <2>3 DEF PlaceInv
<1>2. ASSUME NEW w \in Workers, Enter(w) PROVE PlaceInv'
  <2>1. \A b \in Blocks : /\ InBlockStage(b)' <=> InBlockStage(b) \/ b = next
                          /\ InAppStage(b)' <=> InAppStage(b)
                          /\ InTsStage(b)' <=> InTsStage(b)
    BY <1>0, <1>2 DEF Enter, SetBlock, KeepApp, KeepTs, InBlockStage, InAppStage, InTsStage
  <2>2. BlockPlace' /\ AppPlace' /\ TsPlace'
    BY <1>0, <1>2, <2>1 DEF Enter, BlockPlace, AppPlace, TsPlace
  <2>3. OneHolder'
    BY <1>0, <1>2 DEF Enter, SetBlock, KeepApp, KeepTs, OneHolder, BlockPlace, InBlockStage
  <2> QED BY <2>2, <2>3 DEF PlaceInv
<1>3. ASSUME NEW w \in Workers, Drop(w) PROVE PlaceInv'
  <2>1. \A b \in Blocks : /\ InBlockStage(b)' => InBlockStage(b)
                          /\ InAppStage(b)' <=> InAppStage(b)
                          /\ InTsStage(b)' <=> InTsStage(b)
    BY <1>0, <1>3 DEF Drop, SetBlock, KeepApp, KeepTs, InBlockStage, InAppStage, InTsStage
  <2>2. BlockPlace' /\ AppPlace' /\ TsPlace'
    BY <1>0, <1>3, <2>1 DEF Drop, BlockPlace, AppPlace, TsPlace
  <2>3. OneHolder'
    BY <1>0, <1>3 DEF Drop, SetBlock, KeepApp, KeepTs, OneHolder
  <2> QED BY <2>2, <2>3 DEF PlaceInv
<1>4. ASSUME NEW w \in Workers, NEW a \in Workers, ToApp(w, a) PROVE PlaceInv'
  <2>1. InBlockStage(blockW[w].bn)
    BY DEF InBlockStage
  <2>2. \A b \in Blocks : /\ InBlockStage(b)' => InBlockStage(b) /\ b # blockW[w].bn
                          /\ InAppStage(b)' => InAppStage(b) \/ b = blockW[w].bn
                          /\ InTsStage(b)' <=> InTsStage(b)
    BY <1>0, <1>4 DEF ToApp, SetBlock, SetApp, KeepTs, OneHolder, InBlockStage, InAppStage, InTsStage
  <2>3. BlockPlace' /\ AppPlace' /\ TsPlace'
    BY <1>0, <1>4, <2>1, <2>2 DEF ToApp, BlockPlace, AppPlace, TsPlace
  <2>4. \A v \in Workers : appW[v].bn # blockW[w].bn
    BY <1>0, <1>4, <2>1 DEF ToApp, BlockPlace, InAppStage
  <2>5. OneHolder'
    BY <1>0, <1>4, <2>4 DEF ToApp, SetBlock, SetApp, KeepTs, OneHolder
  <2> QED BY <2>3, <2>5 DEF PlaceInv
<1>5. ASSUME NEW a \in Workers, NEW t \in Workers, ToTs(a, t) PROVE PlaceInv'
  <2>1. InAppStage(appW[a].bn)
    BY DEF InAppStage
  <2>2. \A b \in Blocks : /\ InBlockStage(b)' <=> InBlockStage(b)
                          /\ InAppStage(b)' => InAppStage(b) /\ b # appW[a].bn
                          /\ InTsStage(b)' => InTsStage(b) \/ b = appW[a].bn
    BY <1>0, <1>5 DEF ToTs, SetApp, SetTs, KeepBlock, OneHolder, InBlockStage, InAppStage, InTsStage
  <2>3. BlockPlace' /\ AppPlace' /\ TsPlace'
    BY <1>0, <1>5, <2>1, <2>2 DEF ToTs, BlockPlace, AppPlace, TsPlace
  <2>4. \A v \in Workers : tsW[v].bn # appW[a].bn
    BY <1>0, <1>5, <2>1 DEF ToTs, AppPlace, InTsStage
  <2>5. OneHolder'
    BY <1>0, <1>5, <2>4 DEF ToTs, SetApp, SetTs, KeepBlock, OneHolder
  <2> QED BY <2>3, <2>5 DEF PlaceInv
<1>6. ASSUME NEW t \in Workers, Store(t) PROVE PlaceInv'
  <2>1. InTsStage(tsW[t].bn)
    BY DEF InTsStage
  <2>2. \A b \in Blocks : /\ InBlockStage(b)' <=> InBlockStage(b)
                          /\ InAppStage(b)' <=> InAppStage(b)
                          /\ InTsStage(b)' => InTsStage(b) /\ b # tsW[t].bn
    BY <1>0, <1>6 DEF Store, SetTs, KeepBlock, KeepApp, OneHolder, InBlockStage, InAppStage, InTsStage
  <2>3. BlockPlace' /\ AppPlace' /\ TsPlace'
    BY <1>0, <1>6, <2>1, <2>2 DEF Store, BlockPlace, AppPlace, TsPlace
  <2>4. OneHolder'
    BY <1>0, <1>6 DEF Store, SetTs, KeepBlock, KeepApp, OneHolder
  <2> QED BY <2>3, <2>4 DEF PlaceInv
<1> QED BY <1>0, <1>1, <1>2, <1>3, <1>4, <1>5, <1>6 DEF Moves

\* bm.errors, once not empty, stays so: an overwritten append still leaves one.
LEMMA ErrorsStay == ASSUME [Next]_vars, errors # {} PROVE errors' # {}
<1> USE DEF main, counters, stamps, folders
<1>1. CASE ScrapeBatch \/ Sigint
  BY <1>1 DEF Sigint, ScrapeBatch, CheckContext, CloseBlocks, JoinBlocks, JoinApps, JoinTs,
     CheckErrors, CheckInterrupt, CheckMissed, CheckCounts, Finish, CleanAndReturn, Return, Goto
<1>2. ASSUME NEW w \in Workers, SendBlock(w) \/ ProcessBlocks(w) PROVE errors' # {}
  BY <1>2 DEF SendBlock, ProcessBlocks, QueryOk, QueryFails, BlockReadErrors, BlockWriteErrors,
     BlockExit
<1>3. ASSUME NEW w \in Workers, NEW a \in Workers, SendScraped(w, a) \/ SendTs(w, a)
      PROVE errors' # {}
  BY <1>3 DEF SendScraped, SendTs
<1>4. ASSUME NEW a \in Workers, ProcessAppearances(a) \/ ProcessTimestamps(a)
      PROVE errors' # {}
  BY <1>4 DEF ProcessAppearances, UniqFails, WriteFile, WriteFileFails, NotifyFails,
     MarkProcessed, AppReadErrors, AppWriteErrors, AppExit, ProcessTimestamps, StoreTs, TsExit
<1>5. CASE UNCHANGED vars
  BY <1>5 DEF vars
<1> QED BY <1>1, <1>2, <1>3, <1>4, <1>5 DEF Next

\* What a step does to the marks of a block that leaves WriteAppearances.
Marks ==
    \A b \in Blocks :
        /\ Passed(b) => Passed(b)'
        /\ Passed(b)' => Passed(b) \/ b \in processedMap' \/ errors' # {}
        /\ b \in processedMap => b \in processedMap'
        /\ b \in processedMap' => b \in processedMap \/ Passed(b)'

\* A block is marked as processed in the step in which it leaves
\* WriteAppearances, or leaves it with an error.
LEMMA NextMarks == ASSUME BlazeInv, [Next]_vars PROVE Marks
<1> USE DEF BlazeInv, main, counters, stamps, folders
<1>0. /\ DOMAIN blockW = Workers /\ DOMAIN appW = Workers /\ DOMAIN tsW = Workers
      /\ NoBlock \notin Blocks
  BY BlazeAssumption DEF TypeOK, Blocks
<1>s. ASSUME UNCHANGED <<appW, tsW, timestamps, processedMap>> PROVE Marks
  BY <1>s DEF Marks, Passed, InTsStage
<1>1. CASE ScrapeBatch \/ Sigint
  <2>1. UNCHANGED <<appW, tsW, timestamps, processedMap>>
    BY <1>1 DEF Sigint, ScrapeBatch, CheckContext, CloseBlocks, JoinBlocks, JoinApps, JoinTs,
       CheckErrors, CheckInterrupt, CheckMissed, CheckCounts, Finish, CleanAndReturn, Return, Goto
  <2> QED BY <2>1, <1>s
<1>2. ASSUME NEW w \in Workers, SendBlock(w) \/ ProcessBlocks(w) PROVE Marks
  <2>1. UNCHANGED <<appW, tsW, timestamps, processedMap>>
    BY <1>2 DEF SendBlock, ProcessBlocks, QueryOk, QueryFails, BlockReadErrors, BlockWriteErrors,
       BlockExit
  <2> QED BY <2>1, <1>s
<1>3. ASSUME NEW w \in Workers, NEW a \in Workers, SendScraped(w, a) PROVE Marks
  BY <1>0, <1>3 DEF SendScraped, Marks, Passed, InTsStage, At
<1>4. ASSUME NEW a \in Workers, ProcessAppearances(a) PROVE Marks
  <2>1. CASE UniqFails(a) \/ WriteFileFails(a) \/ NotifyFails(a) \/ WriteFile(a)
    BY <1>0, <2>1 DEF UniqFails, WriteFileFails, NotifyFails, WriteFile, Marks, Passed, InTsStage, At
  <2>2. CASE MarkProcessed(a)
    BY <1>0, <2>2 DEF MarkProcessed, Marks, Passed, InTsStage, At
  <2>3. CASE AppReadErrors(a)
    BY <1>0, <2>3 DEF AppReadErrors, Marks, Passed, InTsStage
  <2>4. CASE AppWriteErrors(a)
    BY <1>0, <2>4 DEF AppWriteErrors, Marks, Passed, InTsStage, At
  <2>5. CASE AppExit(a)
    BY <1>0, <2>5 DEF AppExit, Marks, Passed, InTsStage, At, Exited
  <2> QED BY <1>4, <2>1, <2>2, <2>3, <2>4, <2>5 DEF ProcessAppearances
<1>5. ASSUME NEW a \in Workers, NEW t \in Workers, SendTs(a, t) PROVE Marks
  <2>1. tsW[t].bn = NoBlock
    BY <1>5, Holding DEF SendTs
  <2> QED BY <1>0, <1>5, <2>1 DEF SendTs, Marks, Passed, InTsStage, At, Idle
<1>6. ASSUME NEW t \in Workers, ProcessTimestamps(t) PROVE Marks
  <2>1. CASE StoreTs(t)
    BY <1>0, <2>1 DEF StoreTs, Marks, Passed, InTsStage, At, Idle
  <2>2. CASE TsExit(t)
    <3>1. tsW[t].bn = NoBlock
      BY <2>2, Holding DEF TsExit
    <3> QED BY <1>0, <2>2, <3>1 DEF TsExit, Marks, Passed, InTsStage, At, Exited
  <2> QED BY <1>6, <2>1, <2>2 DEF ProcessTimestamps
<1>7. CASE UNCHANGED vars
  BY <1>7, <1>s DEF vars
<1> QED BY <1>1, <1>2, <1>3, <1>4, <1>5, <1>6, <1>7 DEF Next

\* No block is lost between the stages.
LEMMA FlowStep == ASSUME BlazeInv, [Next]_vars PROVE FlowInv'
<1> DEFINE Somewhere(b) ==
      InBlockStage(b) \/ InAppStage(b) \/ InTsStage(b) \/ b \in timestamps
<1>0. /\ Moves /\ Marks /\ FlowInv /\ (errors' = {} => errors = {})
      /\ NoBlock \notin Blocks /\ Blocks \subseteq Int /\ next \in Int
      /\ processedMap \subseteq Blocks /\ processedMap' \subseteq Blocks
  BY NextMoves, NextMarks, ErrorsStay, TypeStep, BlazeAssumption DEF BlazeInv, TypeOK, Blocks
<1>1. ASSUME errors' = {}, NEW b \in Blocks, b < next' PROVE Somewhere(b)'
  <2>1. (b < next /\ Somewhere(b)) \/ (b = next /\ next' = next + 1)
    BY <1>0, <1>1 DEF FlowInv, Moves, Stay, Enter, Drop, ToApp, ToTs, Store
  <2>2. CASE Stay
    BY <2>1, <2>2, <1>1, <1>0
       DEF Stay, KeepBlock, KeepApp, KeepTs, InBlockStage, InAppStage, InTsStage
  <2>3. ASSUME NEW w \in Workers, Enter(w) PROVE Somewhere(b)'
    BY <2>1, <2>3, <1>1, <1>0
       DEF Enter, SetBlock, KeepApp, KeepTs, InBlockStage, InAppStage, InTsStage
  <2>4. ASSUME NEW w \in Workers, NEW a \in Workers, ToApp(w, a) PROVE Somewhere(b)'
    BY <2>1, <2>4, <1>1, <1>0
       DEF ToApp, SetBlock, SetApp, KeepTs, InBlockStage, InAppStage, InTsStage
  <2>5. ASSUME NEW a \in Workers, NEW t \in Workers, ToTs(a, t) PROVE Somewhere(b)'
    BY <2>1, <2>5, <1>1, <1>0
       DEF ToTs, SetApp, SetTs, KeepBlock, InBlockStage, InAppStage, InTsStage
  <2>6. ASSUME NEW t \in Workers, Store(t) PROVE Somewhere(b)'
    BY <2>1, <2>6, <1>1, <1>0
       DEF Store, SetTs, KeepBlock, KeepApp, InBlockStage, InAppStage, InTsStage
  <2> QED BY <1>0, <1>1, <2>2, <2>3, <2>4, <2>5, <2>6 DEF Moves, Drop
<1>2. /\ errors' = {} => \A b \in Blocks : Passed(b)' => b \in processedMap'
      /\ \A b \in processedMap' : Passed(b)'
  BY <1>0 DEF FlowInv, Marks
<1>3. errors' = {} => \A b \in Blocks : b < next' =>
        InBlockStage(b)' \/ InAppStage(b)' \/ InTsStage(b)' \/ b \in timestamps'
  BY <1>1
<1> QED BY <1>2, <1>3 DEF FlowInv, Blocks

\* A batch is finite, and so is everything that is collected in it.
LEMMA BatchFinite ==
  /\ IsFiniteSet(Blocks) /\ Cardinality(Blocks) = BlockCount
  /\ \A S \in SUBSET Blocks : IsFiniteSet(S)
<1>1. IsFiniteSet(Blocks) /\ Cardinality(Blocks) = BlockCount
  <2>1. StartBlock \in Int /\ StartBlock + BlockCount - 1 \in Int
    BY BlazeAssumption
  <2> QED BY <2>1, FS_Interval, BlazeAssumption DEF Blocks
<1> QED BY <1>1, FS_Subset

\* Each counter is stepped in the step that adds the block it counts, and
\* no block is counted twice.
LEMMA CountStep == ASSUME BlazeInv, [Next]_vars PROVE CountInv'
<1> USE DEF BlazeInv, main, counters, stamps, folders
<1>0. /\ CountInv /\ processedMap \subseteq Blocks /\ timestamps \subseteq Blocks
      /\ NoBlock \notin Blocks
  BY BlazeAssumption DEF TypeOK, Blocks
<1>s. ASSUME UNCHANGED <<counters, stamps>> PROVE CountInv'
  <2>1. UNCHANGED <<processedMap, nRipe, nUnripe, timestamps, nTimestamps>>
    BY <1>s
  <2> QED BY <2>1, <1>0 DEF CountInv, IsRipe
<1>1. CASE ScrapeBatch \/ Sigint
  <2>1. UNCHANGED <<counters, stamps>>
    BY <1>1 DEF Sigint, ScrapeBatch, CheckContext, CloseBlocks, JoinBlocks, JoinApps, JoinTs,
       CheckErrors, CheckInterrupt, CheckMissed, CheckCounts, Finish, CleanAndReturn, Return, Goto
  <2> QED BY <2>1, <1>s
<1>2. ASSUME NEW w \in Workers, SendBlock(w) \/ ProcessBlocks(w) PROVE CountInv'
  <2>1. UNCHANGED <<counters, stamps>>
    BY <1>2 DEF SendBlock, ProcessBlocks, QueryOk, QueryFails, BlockReadErrors, BlockWriteErrors,
       BlockExit
  <2> QED BY <2>1, <1>s
<1>3. ASSUME NEW w \in Workers, NEW a \in Workers, SendScraped(w, a) \/ SendTs(w, a)
      PROVE CountInv'
  BY <1>3, <1>s DEF SendScraped, SendTs
<1>4. ASSUME NEW a \in Workers, MarkProcessed(a) PROVE CountInv'
  <2> DEFINE b == appW[a].bn
             R == {x \in processedMap : IsRipe(x)}
             U == {x \in processedMap : ~IsRipe(x)}
  <2>1. b \in Blocks
    BY <1>4, Holding DEF MarkProcessed
  <2>2. b \notin processedMap
    <3>1. ~Passed(b)
      <4>1. InAppStage(b)
        BY DEF InAppStage
      <4>2. ~InTsStage(b) /\ b \notin timestamps
        BY <4>1, <2>1 DEF PlaceInv, AppPlace
      <4>3. ASSUME NEW v \in Workers, appW[v].bn = b, appW[v].at = "send" PROVE FALSE
        BY <4>3, <1>0, <1>4, <2>1 DEF PlaceInv, OneHolder, MarkProcessed
      <4> QED BY <4>2, <4>3 DEF Passed
    <3> QED BY <3>1 DEF FlowInv
  <2>3. IsFiniteSet(R) /\ IsFiniteSet(U)
    BY <1>0, BatchFinite
  <2>4. CASE IsRipe(b)
    <3>1. {x \in processedMap' : IsRipe(x)} = R \cup {b} /\ {x \in processedMap' : ~IsRipe(x)} = U
      BY <1>4, <2>4 DEF MarkProcessed
    <3>2. Cardinality(R \cup {b}) = Cardinality(R) + 1
      BY <2>2, <2>3, FS_AddElement
    <3>3. nRipe' = nRipe + 1 /\ UNCHANGED <<nUnripe, timestamps, nTimestamps>>
      BY <1>4, <2>4 DEF MarkProcessed
    <3> QED BY <1>0, <3>1, <3>2, <3>3 DEF CountInv, IsRipe
  <2>5. CASE ~IsRipe(b)
    <3>1. {x \in processedMap' : ~IsRipe(x)} = U \cup {b} /\ {x \in processedMap' : IsRipe(x)} = R
      BY <1>4, <2>5 DEF MarkProcessed
    <3>2. Cardinality(U \cup {b}) = Cardinality(U) + 1
      BY <2>2, <2>3, FS_AddElement
    <3>3. nUnripe' = nUnripe + 1 /\ UNCHANGED <<nRipe, timestamps, nTimestamps>>
      BY <1>4, <2>5 DEF MarkProcessed
    <3> QED BY <1>0, <3>1, <3>2, <3>3 DEF CountInv, IsRipe
  <2> QED BY <2>4, <2>5
<1>5. ASSUME NEW a \in Workers, ProcessAppearances(a), ~MarkProcessed(a) PROVE CountInv'
  <2>1. UNCHANGED <<counters, stamps>>
    BY <1>5 DEF ProcessAppearances, UniqFails, WriteFile, WriteFileFails, NotifyFails,
       AppReadErrors, AppWriteErrors, AppExit
  <2> QED BY <2>1, <1>s
<1>6. ASSUME NEW t \in Workers, StoreTs(t) PROVE CountInv'
  <2>1. tsW[t].bn \in Blocks
    BY <1>6, Holding DEF StoreTs
  <2>2. tsW[t].bn \notin timestamps
    BY <2>1 DEF PlaceInv, TsPlace, InTsStage
  <2>3. Cardinality(timestamps \cup {tsW[t].bn}) = Cardinality(timestamps) + 1
    BY <1>0, <2>2, BatchFinite, FS_AddElement
  <2>4. /\ timestamps' = timestamps \cup {tsW[t].bn} /\ nTimestamps' = nTimestamps + 1
        /\ UNCHANGED <<processedMap, nRipe, nUnripe>>
    BY <1>6 DEF StoreTs
  <2> QED BY <1>0, <2>3, <2>4 DEF CountInv, IsRipe
<1>7. ASSUME NEW t \in Workers, TsExit(t) PROVE CountInv'
  BY <1>7, <1>s DEF TsExit
<1>8. CASE UNCHANGED vars
  BY <1>8, <1>s DEF vars
<1> QED BY <1>1, <1>2, <1>3, <1>4, <1>5, <1>6, <1>7, <1>8 DEF Next, ProcessTimestamps

\* A file is written before its block is marked, into the folder of its age,
\* and only a failing ScrapeBatch takes it away.
LEMMA FileStep == ASSUME BlazeInv, [Next]_vars PROVE FileInv'
<1> USE DEF BlazeInv, main, counters, stamps, folders
<1>0. /\ DOMAIN appW = Workers /\ FileInv /\ ControlInv /\ TypeOK
  BY DEF TypeOK
<1> DEFINE Wrote(w, b) == appW[w].bn = b /\ appW[w].at = "wrote"
\* steps that neither touch the folders nor bring a goroutine to "wrote"
<1>s. ASSUME UNCHANGED <<folders, processedMap, result>>, Joined' => Joined,
             \A w \in Workers : \A b \in Blocks : Wrote(w, b)' => Wrote(w, b)
      PROVE  FileInv'
  BY <1>0, <1>s DEF FileInv, IsRipe
<1>1. CASE ScrapeBatch
  <2>1. CASE CheckContext \/ CloseBlocks \/ JoinBlocks \/ JoinApps \/ JoinTs
    BY <1>0, <2>1 DEF CheckContext, CloseBlocks, JoinBlocks, JoinApps, JoinTs, FileInv, ControlInv,
       IsRipe
  <2>2. CASE CheckErrors \/ CheckInterrupt \/ CheckMissed \/ CheckCounts \/ Finish
    BY <1>0, <2>2 DEF CheckErrors, CheckInterrupt, CheckMissed, CheckCounts, Finish,
       CleanAndReturn, Return, Goto, FileInv, ControlInv, IsRipe
  <2> QED BY <1>1, <2>1, <2>2 DEF ScrapeBatch
<1>2. CASE Sigint
  BY <1>2, <1>s DEF Sigint, Joined
<1>3. ASSUME NEW w \in Workers, SendBlock(w) \/ ProcessBlocks(w) PROVE FileInv'
  <2>1. UNCHANGED <<folders, processedMap, result, appW, closed>>
    BY <1>3 DEF SendBlock, ProcessBlocks, QueryOk, QueryFails, BlockReadErrors, BlockWriteErrors,
       BlockExit
  <2>2. Joined' => Joined
    BY <1>3, <1>0 DEF SendBlock, ProcessBlocks, QueryOk, QueryFails, BlockReadErrors,
       BlockWriteErrors, BlockExit, Joined, ControlInv, Channels
  <2> QED BY <2>1, <2>2, <1>s
<1>4. ASSUME NEW w \in Workers, NEW a \in Workers, SendScraped(w, a) PROVE FileInv'
  BY <1>0, <1>4, <1>s DEF SendScraped, At, Joined
<1>5. ASSUME NEW a \in Workers, ProcessAppearances(a) PROVE FileInv'
  <2>0. ~Joined /\ ~Joined' /\ UNCHANGED result
    BY <1>5, <1>0 DEF ProcessAppearances, UniqFails, WriteFile, WriteFileFails, NotifyFails,
       MarkProcessed, AppReadErrors, AppWriteErrors, AppExit, Joined, ControlInv, Channels, Exited, At
  <2>1. CASE UniqFails(a) \/ WriteFileFails(a) \/ NotifyFails(a)
    BY <1>0, <2>0, <2>1, <1>s DEF UniqFails, WriteFileFails, NotifyFails, At
  <2>2. CASE WriteFile(a)
    <3>1. appW[a].bn \in Blocks
      BY <1>0, <2>2, Holding DEF WriteFile
    <3> QED BY <1>0, <2>0, <2>2, <3>1 DEF WriteFile, At, FileInv, IsRipe
  <2>3. CASE MarkProcessed(a)
    BY <1>0, <2>0, <2>3 DEF MarkProcessed, At, FileInv, IsRipe
  <2>4. CASE AppReadErrors(a)
    BY <1>0, <2>0, <2>4, <1>s DEF AppReadErrors
  <2>5. CASE AppWriteErrors(a)
    BY <1>0, <2>0, <2>5, <1>s DEF AppWriteErrors, At
  <2>6. CASE AppExit(a)
    BY <1>0, <2>0, <2>6, <1>s DEF AppExit, At, Exited
  <2> QED BY <1>5, <2>1, <2>2, <2>3, <2>4, <2>5, <2>6 DEF ProcessAppearances
<1>6. ASSUME NEW a \in Workers, NEW t \in Workers, SendTs(a, t) PROVE FileInv'
  BY <1>0, <1>6, <1>s DEF SendTs, At, Idle, Joined
<1>7. ASSUME NEW t \in Workers, ProcessTimestamps(t) PROVE FileInv'
  BY <1>0, <1>7, <1>s DEF ProcessTimestamps, StoreTs, TsExit, Joined
<1>8. CASE UNCHANGED vars
  BY <1>8, <1>s DEF vars, Joined
<1> QED BY <1>1, <1>2, <1>3, <1>4, <1>5, <1>6, <1>7, <1>8 DEF Next

\* The bookkeeping of a batch is consistent at every step, for every number
\* of goroutines (HandleBlaze, ProcessBlocks, ProcessAppearances,
\* ProcessTimestamps and ScrapeBatch together).
THEOREM Consistent == Spec => []BlazeInv
<1>1. BlazeInv /\ [Next]_vars => BlazeInv'
  BY TypeStep, ControlStep, PlaceStep, FlowStep, CountStep, FileStep DEF BlazeInv
<1> QED
  BY <1>1, InvInit, PTL DEF Spec

\* The pipeline keeps to its types: no goroutine ever holds a block outside
\* of the batch, and no counter or set leaves its range (HandleBlaze).
THEOREM TypeCorrect == Spec => []TypeOK
BY Consistent, PTL DEF BlazeInv

\* Once every goroutine has left and no error was met, the batch has been
\* through every stage.
LEMMA JoinedComplete ==
  ASSUME BlazeInv, Joined, errors = {}
  PROVE  processedMap = Blocks /\ timestamps = Blocks
<1>1. next = StartBlock + BlockCount /\ timestamps \subseteq Blocks /\ processedMap \subseteq Blocks
  BY DEF BlazeInv, ControlInv, Joined, Channels, TypeOK
<1>2. \A b \in Blocks : ~InBlockStage(b) /\ ~InAppStage(b) /\ ~InTsStage(b)
  <2>1. \A w \in Workers : blockW[w] = Exited /\ appW[w] = Exited /\ tsW[w] = Exited
    BY DEF BlazeInv, ControlInv, Joined, Channels
  <2> QED BY <2>1, BlazeAssumption
          DEF InBlockStage, InAppStage, InTsStage, Exited, At, Blocks
<1>3. \A b \in Blocks : b < next
  BY <1>1, BlazeAssumption DEF Blocks
<1>4. \A b \in Blocks : b \in timestamps
  BY <1>2, <1>3 DEF BlazeInv, FlowInv
<1>5. \A b \in Blocks : b \in processedMap
  BY <1>4 DEF BlazeInv, FlowInv, Passed
<1> QED BY <1>1, <1>4, <1>5

\* A batch that goes on to WriteTimestamps is complete: every block of it has
\* been processed, has its timestamp and its file in the right folder
\* (ScrapeBatch returning into Consolidate).
THEOREM CompleteBatch == Spec => []BatchComplete
<1>1. BlazeInv => BatchComplete
  <2> SUFFICES ASSUME BlazeInv, result = "write"
               PROVE  /\ processedMap = Blocks /\ timestamps = Blocks
                      /\ ripe = {b \in Blocks \cap Addressed : IsRipe(b)}
                      /\ unripe = {b \in Blocks \cap Addressed : ~IsRipe(b)}
    BY DEF BatchComplete
  <2>1. Joined /\ errors = {}
    BY DEF BlazeInv, ControlInv, Joined
  <2>2. processedMap = Blocks /\ timestamps = Blocks
    BY <2>1, JoinedComplete
  <2>3. \A b \in Blocks \cap Addressed : IF IsRipe(b) THEN b \in ripe ELSE b \in unripe
    BY <2>2 DEF BlazeInv, FileInv
  <2>4. /\ \A b \in ripe : b \in Blocks \cap Addressed /\ IsRipe(b)
        /\ \A b \in unripe : b \in Blocks \cap Addressed /\ ~IsRipe(b)
    BY DEF BlazeInv, TypeOK, FileInv
  <2> QED BY <2>2, <2>3, <2>4
<1> QED BY <1>1, Consistent, PTL

\* The error that kept a block from being processed is not lost in the
\* unlocked appends to bm.errors (ProcessBlocks, ProcessAppearances).
THEOREM ErrorSurvives == Spec => []FailureIsReported
<1>1. BlazeInv => FailureIsReported
  BY JoinedComplete DEF FailureIsReported, Joined
<1> QED BY <1>1, Consistent, PTL

\* A failed batch that was joined leaves no file (cleanEphemeralIndexFolders).
THEOREM NothingLeft == Spec => []FailedBatchLeavesNothing
<1>1. BlazeInv => FailedBatchLeavesNothing
  BY DEF BlazeInv, ControlInv, FileInv, FailedBatchLeavesNothing, Joined
<1> QED BY <1>1, Consistent, PTL

\* The checks that ScrapeBatch makes for missed blocks and for disagreeing
\* counters cannot fire.
THEOREM ChecksHold == Spec => []DefensiveChecksHold
<1> DEFINE Inv == BlazeInv /\ DefensiveChecksHold
<1>1. Init => Inv
  BY InvInit DEF Init, DefensiveChecksHold
<1>2. Inv /\ [Next]_vars => Inv'
  <2> SUFFICES ASSUME BlazeInv, DefensiveChecksHold, [Next]_vars PROVE DefensiveChecksHold'
    BY TypeStep, ControlStep, PlaceStep, FlowStep, CountStep, FileStep DEF BlazeInv
  <2> USE DEF main, counters, stamps, folders, DefensiveChecksHold
  <2>1. ASSUME pc \in {"missed", "counts"} PROVE Blocks \subseteq processedMap /\ CountsAgree
    <3>1. Joined /\ errors = {}
      BY <2>1 DEF BlazeInv, ControlInv, Joined
    <3>2. processedMap = Blocks /\ timestamps = Blocks
      BY <3>1, JoinedComplete
    <3> DEFINE R == {b \in Blocks : IsRipe(b)}
               U == {b \in Blocks : ~IsRipe(b)}
    <3>3. nRipe = Cardinality(R) /\ nUnripe = Cardinality(U) /\ nTimestamps = BlockCount
      BY <3>2, BatchFinite DEF BlazeInv, CountInv
    <3>4. IsFiniteSet(R) /\ IsFiniteSet(U)
      BY BatchFinite
    <3>5. R \cup U = Blocks /\ R \cap U = {}
      OBVIOUS
    <3>6. Cardinality(R) \in Nat /\ Cardinality(U) \in Nat
      BY <3>4, FS_CardinalityType
    <3>7. BlockCount = Cardinality(R) + Cardinality(U)
      <4>1. Cardinality(R \cup U) = Cardinality(R) + Cardinality(U) - Cardinality(R \cap U)
        BY <3>4, FS_Union
      <4> QED BY <4>1, <3>5, <3>6, BatchFinite, FS_EmptySet
    <3> QED BY <3>2, <3>3, <3>7, BatchFinite DEF CountsAgree, nProcessed
  <2>2. CASE ScrapeBatch
    BY <2>1, <2>2 DEF ScrapeBatch, CheckContext, CloseBlocks, JoinBlocks, JoinApps, JoinTs,
       CheckErrors, CheckInterrupt, CheckMissed, CheckCounts, Finish, CleanAndReturn, Return, Goto
  <2>3. ASSUME NEW w \in Workers, SendBlock(w) \/ ProcessBlocks(w) PROVE DefensiveChecksHold'
    BY <2>3 DEF SendBlock, ProcessBlocks, QueryOk, QueryFails, BlockReadErrors, BlockWriteErrors,
       BlockExit
  <2>4. ASSUME NEW w \in Workers, NEW a \in Workers, SendScraped(w, a) \/ SendTs(w, a)
        PROVE DefensiveChecksHold'
    BY <2>4 DEF SendScraped, SendTs
  <2>5. ASSUME NEW a \in Workers, ProcessAppearances(a) \/ ProcessTimestamps(a)
        PROVE DefensiveChecksHold'
    BY <2>5 DEF ProcessAppearances, UniqFails, WriteFile, WriteFileFails, NotifyFails,
       MarkProcessed, AppReadErrors, AppWriteErrors, AppExit, ProcessTimestamps, StoreTs, TsExit
  <2>6. CASE Sigint \/ UNCHANGED vars
    BY <2>6 DEF Sigint, vars
  <2> QED BY <2>2, <2>3, <2>4, <2>5, <2>6 DEF Next
<1>3. Inv => DefensiveChecksHold
  OBVIOUS
<1> QED BY <1>1, <1>2, <1>3, PTL DEF Spec

\* After a joined batch has returned nothing of it moves any more.
THEOREM Quiescent == Spec => NothingMovesAfterReturn
<1> DEFINE Step == result # "none" /\ closed = Channels
                   => UNCHANGED <<folders, stamps, counters, errors>>
<1>1. BlazeInv /\ [Next]_vars => Step
  <2> SUFFICES ASSUME BlazeInv, [Next]_vars, result # "none", closed = Channels
               PROVE  UNCHANGED <<folders, stamps, counters, errors>>
    OBVIOUS
  <2>1. /\ pc = "done" /\ Joined
        /\ \A w \in Workers : blockW[w].at = "exit" /\ appW[w].at = "exit" /\ tsW[w].at = "exit"
    BY DEF BlazeInv, ControlInv, Joined, Channels, Exited, At
  <2>2. /\ ~ScrapeBatch /\ \A w \in Workers : ~SendBlock(w)
    BY <2>1 DEF SendBlock, ScrapeBatch, CheckContext, CloseBlocks, JoinBlocks, JoinApps, JoinTs,
       CheckErrors, CheckInterrupt, CheckMissed, CheckCounts, Finish
  <2>3. \A w \in Workers : ~ProcessBlocks(w) /\ ~ProcessTimestamps(w)
    BY <2>1 DEF ProcessBlocks, QueryOk, QueryFails, BlockReadErrors, BlockWriteErrors, BlockExit,
       ProcessTimestamps, StoreTs, TsExit
  <2>4. \A a \in Workers : ~ProcessAppearances(a)
    BY <2>1 DEF ProcessAppearances, UniqFails, WriteFile, WriteFileFails, NotifyFails,
       MarkProcessed, AppReadErrors, AppWriteErrors, AppExit
  <2>5. \A w, a \in Workers : ~SendScraped(w, a) /\ ~SendTs(w, a)
    BY <2>1 DEF SendScraped, SendTs
  <2>6. Sigint \/ UNCHANGED vars
    BY <2>2, <2>3, <2>4, <2>5 DEF Next
  <2> QED BY <2>6 DEF Sigint, vars, main, counters, stamps, folders
<1> QED BY <1>1, Consistent, PTL DEF Spec, NothingMovesAfterReturn

=============================================================================
