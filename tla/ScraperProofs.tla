--------------------------- MODULE ScraperProofs ---------------------------
(***************************************************************************)
(* Proofs about the scraper's loop: whatever is killed, interrupted or     *)
(* fails, and for any chain, batch size, chunk size and snap grid, the     *)
(* files on disk keep the promise of IndexLog, and chunks do not overlap   *)
(* unless a stage was restored.                                            *)
(***************************************************************************)
EXTENDS Scraper, WellFoundedInduction, TLAPS

\* The two things the code relies on: a bloom file can be opened (otherwise
\* writeBloom reports no error), and the blocks of the snap grid are not empty
\* (otherwise a chunk ends beyond unripe blocks).  Without either NoHole fails.
Regular == "bloom" \notin Events /\ \A b \in Blocks : IsSnap(b) => b \in Addressed

\* A block is in the final part of the index, as the names of the blooms say
Done(b) == \E r \in blooms : b <= r.last
Ripe(b) == b + UnripeDist <= head

\* The last block of the final part of the index, without Max
IsTop(n) == (n = 0 \/ \E r \in blooms : r.last = n) /\ \A r \in blooms : r.last <= n

TypeInv ==
    /\ chunks \subseteq IndexFiles /\ stages \subseteq IndexFiles /\ blooms \subseteq Spans
    /\ ripe \subseteq Blocks /\ unripe \subseteq Blocks
    /\ head \in 0 .. MaxBlock
    /\ cancelled \in BOOLEAN
    /\ cr \in Spans /\ appMap \subseteq 0 .. MaxBlock /\ backup \subseteq IndexFiles

\* What is final can be found, and was ripe when it was indexed
ChunkInv ==
    /\ \A r \in blooms : r.last <= MaxBlock
    /\ \A b \in Addressed : Done(b) => \E c \in chunks : Name(c) \in blooms /\ b \in c.has
    /\ \A c \in chunks : \A b \in c.has :
         b <= c.last /\ (b # 0 => b \in Addressed /\ Ripe(b))

\* A stage has everything from the end of the chunks to its own end, unless a
\* chunk has taken it; of several, the one that sorts last reaches farthest
StageOk(s) ==
    /\ s.has \subseteq Addressed /\ s.last \in s.has
    /\ \A b \in s.has : b <= s.last /\ Ripe(b)
    /\ \A b \in Addressed : b <= s.last => Done(b) \/ b \in s.has
    /\ s.first = 1 \/ \E r \in blooms : s.first <= r.last + 1
    /\ Done(s.last) \/ (1 <= s.first /\ \A r \in blooms : r.last < s.first)
    /\ ~ (Apps(s.has) >= PerChunk)
StageInv ==
    /\ \A s \in stages \cup backup : StageOk(s)
    /\ \A s, t \in stages : Name(s) = Name(t) => s = t

\* A round looks at the blocks behind everything that is indexed
InRound == pc \in {"scrape", "stage", "block"} \/ (pc \in {"index", "bloom", "notify"} /\ ~IsZero)
RoundInv ==
    /\ pc \in {"loop", "index", "bloom", "notify"} /\ ~InRound => ripe = {} /\ unripe = {}
    /\ pc \in {"off", "loop", "scrape", "stage", "pause"} => backup = {}
    /\ pc \in {"index", "bloom", "notify"} /\ ~InRound => backup = {}
    /\ InRound =>
         /\ batch.first \in Blocks /\ batch.last \in Blocks /\ batch.first <= batch.last
         /\ batch.ripeBlock \in 0 .. MaxBlock /\ Ripe(batch.ripeBlock)
         /\ pc # "scrape" => batch.first <= batch.ripeBlock
         /\ pc # "notify" /\ meta # NoMeta => IsTop(meta)
         /\ \A s \in stages \cup backup : s.last < batch.first
    /\ pc \in {"scrape", "stage"} =>
         /\ meta # NoMeta
         /\ \A r \in blooms : r.last < batch.first
         /\ \A b \in Addressed : b < batch.first => Done(b) \/ \E s \in stages : b <= s.last

\* Consolidate has taken, in order, every ripe block up to cur
Taken(upTo) ==
    /\ appMap \subseteq Addressed
    /\ \A b \in appMap : b <= upTo /\ b <= batch.ripeBlock
    /\ \A b \in Addressed : b <= upTo /\ b <= batch.ripeBlock => Done(b) \/ b \in appMap
    /\ \A b \in Addressed : upTo < b /\ b <= batch.last =>
         IF b <= batch.ripeBlock THEN b \in ripe ELSE b \in unripe
    /\ \A b \in ripe : b \in Addressed /\ b <= batch.ripeBlock
    /\ \A b \in unripe : b > batch.ripeBlock
ConsolidateInv ==
    /\ pc = "stage" => ripe = RipeFiles /\ unripe = UnripeFiles
    /\ pc = "block" =>
         /\ cur \in batch.first .. batch.last + 1
         /\ Taken(cur - 1) /\ ~ (Apps(appMap) >= PerChunk)
         /\ \A r \in blooms : r.last < cur
    /\ pc \in {"index", "bloom", "notify"} /\ ~IsZero =>
         /\ cur \in batch.first .. batch.last /\ cur \in Addressed /\ cur <= batch.ripeBlock
         /\ cr.last = cur /\ Taken(cur)
         /\ \A r \in blooms : r.last < cur \/ (pc = "notify" /\ r.last = cur)
    /\ pc \in {"index", "bloom", "notify"} /\ IsZero => appMap = {0}
    /\ pc = "bloom" => \E c \in chunks : Name(c) = cr /\ c.has = appMap
    /\ pc = "notify" => cr \in blooms

ScraperInv == TypeInv /\ ChunkInv /\ StageInv /\ RoundInv /\ ConsolidateInv

-----------------------------------------------------------------------------
(* The operators of the model.                                             *)

\* A bounded set of numbers has a greatest element.
LEMMA HasGreatest ==
  ASSUME NEW N \in Nat, NEW S \in SUBSET (0 .. N), S # {}
  PROVE  \E x \in S : \A y \in S : x >= y
<1> DEFINE T == {N - x : x \in S}
           R == OpToRel(<, Nat)
<1>0. S \subseteq 0 .. N
  OBVIOUS
<1>1. T \subseteq Nat /\ T # {}
  <2>1. \A x \in S : N - x \in Nat
    BY <1>0
  <2> QED BY <2>1
<1>2. PICK t \in T : \A u \in T : ~ (<<u, t>> \in R)
  <2> HIDE DEF T, R
  <2> QED BY <1>1, NatLessThanWellFounded, WFMin DEF R
<1>3. \A u \in T : ~ (u < t)
  BY <1>1, <1>2 DEF OpToRel
<1>4. PICK x \in S : t = N - x
  OBVIOUS
<1>5. \A y \in S : x >= y
  <2> SUFFICES ASSUME NEW y \in S PROVE x >= y
    OBVIOUS
  <2>1. x \in 0 .. N /\ y \in 0 .. N
    BY <1>0
  <2>2. N - y \in T
    OBVIOUS
  <2>3. ~ (N - y < N - x)
    BY <1>3, <1>4, <2>2
  <2> QED BY <2>1, <2>3
<1> QED BY <1>5

\* Max returns the greatest element.
LEMMA MaxIs ==
  ASSUME NEW N \in Nat, NEW S \in SUBSET (0 .. N), S # {}
  PROVE  Max(S) \in S /\ \A y \in S : y <= Max(S)
BY HasGreatest DEF Max

\* MaxOf of the empty set is 0.
LEMMA MaxOfIs ==
  ASSUME NEW N \in Nat, NEW S \in SUBSET (0 .. N)
  PROVE  /\ MaxOf(S) \in 0 .. N /\ (MaxOf(S) = 0 \/ MaxOf(S) \in S)
         /\ \A y \in S : y <= MaxOf(S)
<1>1. S \cup {0} \in SUBSET (0 .. N) /\ S \cup {0} # {}
  <2>1. 0 \in 0 .. N
    OBVIOUS
  <2> QED BY <2>1
<1>2. Max(S \cup {0}) \in S \cup {0} /\ \A y \in S \cup {0} : y <= Max(S \cup {0})
  BY <1>1, MaxIs
<1>3. MaxOf(S) = Max(S \cup {0})
  BY DEF MaxOf
<1>4. MaxOf(S) \in 0 .. N
  <2>1. S \cup {0} \subseteq 0 .. N
    BY <1>1
  <2> QED BY <1>2, <1>3, <2>1
<1> QED BY <1>2, <1>3, <1>4

\* Nothing has no appearances.
LEMMA AppsOfNothing == Apps({}) = 0
<1> DEFINE Size(b) == IF b \in Blocks THEN Weight[b] ELSE 1
           Pick(s) == CHOOSE x \in s : TRUE
           iter[s \in SUBSET {}] ==
             IF s = {} THEN 0 ELSE Size(Pick(s)) + iter[s \ {Pick(s)}]
<1>1. iter[{}] = 0
  OBVIOUS
<1> QED BY <1>1 DEF Apps, MapThenSumSet, MapThenFoldSet

\* Min returns the least element.
LEMMA MinIs ==
  ASSUME NEW N \in Nat, NEW S \in SUBSET (0 .. N), S # {}
  PROVE  Min(S) \in S /\ \A y \in S : Min(S) <= y
<1> DEFINE R == OpToRel(<, Nat)
<1>1. S \subseteq Nat
  OBVIOUS
<1>2. PICK x \in S : \A y \in S : ~ (<<y, x>> \in R)
  <2> HIDE DEF R
  <2> QED BY <1>1, NatLessThanWellFounded, WFMin DEF R
<1>3. \A y \in S : x <= y
  <2>1. \A y \in S : y \in Nat /\ x \in Nat /\ ~ (y < x)
    BY <1>1, <1>2 DEF OpToRel
  <2> QED BY <2>1
<1>4. x \in S /\ \A y \in S : x <= y
  BY <1>3
<1> HIDE DEF R
<1> QED BY <1>4 DEF Min

\* Finalized is the end of the last bloom.
LEMMA FinalizedIs ==
  ASSUME blooms \subseteq Spans
  PROVE  Finalized \in 0 .. MaxBlock + 1 /\ IsTop(Finalized)
<1>1. {r.last : r \in blooms} \in SUBSET (0 .. MaxBlock + 1) /\ MaxBlock + 1 \in Nat
  BY ScraperAssumption DEF Spans
<1> HIDE DEF Finalized
<1>2. Finalized = MaxOf({r.last : r \in blooms})
  BY DEF Finalized
<1> QED BY <1>1, <1>2, MaxOfIs DEF IsTop

\* Staged is the end of the stage that reaches farthest.
LEMMA StagedIs ==
  ASSUME stages \subseteq IndexFiles
  PROVE  /\ Staged \in 0 .. MaxBlock /\ (Staged = 0 \/ \E s \in stages : s.last = Staged)
         /\ \A s \in stages : s.last <= Staged
<1>1. {s.last : s \in stages} \in SUBSET (0 .. MaxBlock) /\ MaxBlock \in Nat
  BY ScraperAssumption DEF IndexFiles
<1>2. Staged = MaxOf({s.last : s \in stages})
  BY DEF Staged
<1> QED BY <1>1, <1>2, MaxOfIs

\* Height is the greater of the two, and so is Staging unless nothing is staged.
LEMMA HeightIs ==
  ASSUME TypeInv, ChunkInv
  PROVE  /\ Height \in 0 .. MaxBlock /\ Finalized \in 0 .. MaxBlock
         /\ Finalized <= Height /\ Staged <= Height
         /\ Height = Finalized \/ (Height = Staged /\ Staged # 0)
         /\ Staging <= Height
<1>1. /\ Finalized \in 0 .. MaxBlock + 1 /\ IsTop(Finalized)
      /\ Staged \in 0 .. MaxBlock /\ MaxBlock \in Nat
  BY FinalizedIs, StagedIs, ScraperAssumption DEF TypeInv
<1>2. Finalized \in 0 .. MaxBlock
  BY <1>1 DEF IsTop, ChunkInv
<1>3. Staging \in 0 .. MaxBlock
  BY <1>1, <1>2 DEF Staging
<1>4. Height = MaxOf({Finalized, Staging})
  BY DEF Height
<1>5. /\ Height \in 0 .. MaxBlock /\ Height \in {0, Finalized, Staging}
      /\ Finalized <= Height /\ Staging <= Height
  <2>1. {Finalized, Staging} \in SUBSET (0 .. MaxBlock)
    BY <1>2, <1>3
  <2> HIDE DEF Finalized, Staging
  <2> QED BY <1>1, <1>4, <2>1, MaxOfIs
<1> QED BY <1>1, <1>2, <1>5 DEF Staging

-----------------------------------------------------------------------------
(* The invariant holds at the start, and each step keeps each part.        *)

\* An empty index satisfies the invariant.
LEMMA InvInit == Init => ScraperInv
<1> SUFFICES ASSUME Init PROVE ScraperInv
  OBVIOUS
<1> USE ScraperAssumption DEF Init
<1>1. TypeInv
  <2>1. 0 \in 0 .. MaxBlock + 1
    OBVIOUS
  <2>2. cr \in Spans
    BY <2>1 DEF NoSpan, Span, Spans
  <2>3. head \in 0 .. MaxBlock /\ cancelled \in BOOLEAN
    OBVIOUS
  <2> QED BY <2>2, <2>3 DEF TypeInv
<1>2. ChunkInv /\ StageInv
  BY DEF ChunkInv, StageInv, Done
<1>3. RoundInv /\ ConsolidateInv
  BY DEF RoundInv, ConsolidateInv, InRound
<1> QED BY <1>1, <1>2, <1>3 DEF ScraperInv

\* What the deferred Restore puts back is the backup, under its own name.
LEMMA RestoreIs ==
  ASSUME Restore
  PROVE  /\ stages' \subseteq stages \cup backup
         /\ (\A s, t \in stages : Name(s) = Name(t) => s = t)
              => \A s, t \in stages' : Name(s) = Name(t) => s = t
<1>1. CASE backup = {}
  BY <1>1 DEF Restore
<1>2. CASE backup # {}
  <2> DEFINE old == CHOOSE s \in backup : TRUE
  <2>1. old \in backup
    BY <1>2
  <2>2. stages' = {f \in stages : Name(f) # Name(old)} \cup {old}
    BY <1>2 DEF Restore, Put
  <2> HIDE DEF old
  <2> QED BY <2>1, <2>2
<1> QED BY <1>1, <1>2

\* The stage that sorts last holds all that the stages hold and no chunk has,
\* and there is one if there are stages.
LEMMA LatestIs ==
  ASSUME TypeInv, StageInv, stages # {}
  PROVE  \E s \in stages : /\ LatestStages = {s}
                           /\ \A t \in stages : t.last <= s.last \/ Done(t.last)
<1> DEFINE F == {s.first : s \in stages}
<1>1. \A s \in stages : s.first \in 0 .. MaxBlock + 1 /\ s.last \in 0 .. MaxBlock
  BY DEF TypeInv, IndexFiles
<1>2. MaxBlock \in Nat /\ MaxBlock + 1 \in Nat
  BY ScraperAssumption
<1>3. PICK f \in F : \A g \in F : f >= g
  <2>1. F \in SUBSET (0 .. MaxBlock + 1) /\ F # {}
    BY <1>1
  <2> HIDE DEF F
  <2> QED BY <1>2, <2>1, HasGreatest
<1> DEFINE L == {s.last : s \in {t \in stages : t.first = f}}
<1>4. PICK l \in L : \A m \in L : l >= m
  <2>1. L \in SUBSET (0 .. MaxBlock) /\ L # {}
    BY <1>1, <1>3
  <2> HIDE DEF L
  <2> QED BY <1>2, <2>1, HasGreatest
<1>5. PICK s \in stages : s.first = f /\ s.last = l
  BY <1>4
<1>6. \A t \in stages : t.first < s.first \/ (t.first = s.first /\ t.last <= s.last)
  <2> SUFFICES ASSUME NEW t \in stages
               PROVE  t.first < s.first \/ (t.first = s.first /\ t.last <= s.last)
    OBVIOUS
  <2>1. t.first \in F /\ f >= t.first
    BY <1>3
  <2>2. t.first = f => t.last \in L /\ l >= t.last
    BY <1>4
  <2> QED BY <1>1, <1>5, <2>1, <2>2
<1>7. \A t \in LatestStages : t = s
  <2> SUFFICES ASSUME NEW t \in LatestStages PROVE t = s
    OBVIOUS
  <2>1. t \in stages /\ (s.first < t.first \/ (s.first = t.first /\ s.last <= t.last))
    BY DEF LatestStages
  <2>2. t.first = s.first /\ t.last = s.last
    BY <1>1, <1>6, <2>1
  <2> QED BY <2>1, <2>2 DEF StageInv, Name, Span
<1>8. LatestStages = {s}
  BY <1>6, <1>7 DEF LatestStages
<1>9. ASSUME NEW t \in stages PROVE t.last <= s.last \/ Done(t.last)
  <2>1. CASE t.first = s.first
    BY <1>1, <1>6, <2>1
  <2>2. CASE t.first < s.first
    <3>1. s.first = 1 \/ \E r \in blooms : s.first <= r.last + 1
      BY DEF StageInv, StageOk
    <3>2. Done(t.last) \/ (1 <= t.first /\ \A r \in blooms : r.last < t.first)
      BY DEF StageInv, StageOk
    <3>3. \A r \in blooms : r.last \in Int
      BY DEF TypeInv, Spans
    <3> QED BY <1>1, <2>2, <3>1, <3>2, <3>3
  <2> QED BY <1>6, <2>1, <2>2
<1> QED BY <1>8, <1>9

\* The steps that leave the index alone ...
Quiet ==
    /\ UNCHANGED disk
    /\ backup' = backup \/ backup' = {}
    /\ head' = head \/ (head < MaxBlock /\ head' = head + 1)

\* ... and those that end in the deferred Restore.
PutBack ==
    /\ Restore /\ pc' \in {"off", "pause"} /\ backup' = {}
    /\ chunks' = chunks \/ (pc \in {"index", "bloom"} /\ ~IsZero
                              /\ chunks' = {c \in chunks : Name(c) # cr})
    /\ UNCHANGED <<blooms, head>>

\* What a step can do to the disk.
LEMMA DiskSteps ==
  ASSUME [Next]_<<vars, restored>>
  PROVE  Quiet \/ PutBack \/ LoadStage \/ WriteIndex \/ WriteBloom \/ WriteStage
<1> USE DEF vars, disk, files, memory, Exit, Forget
<1>1. ASSUME Start \/ Interrupted \/ NothingToDo \/ BeginRound PROVE Quiet
  BY <1>1 DEF Start, Interrupted, NothingToDo, BeginRound, Quiet
<1>2. ASSUME ScrapeBatchOk \/ ScrapeBatchFails \/ TimestampsFail \/ ScrapeBatchCancelled
      PROVE  Quiet
  BY <1>2 DEF ScrapeBatchOk, ScrapeBatchFails, TimestampsFail, ScrapeBatchCancelled, Quiet
<1>3. ASSUME BackupFails \/ SkipUnripe \/ ConsolidateBlock \/ NextChunk \/ BlockZeroDone PROVE Quiet
  BY <1>3 DEF BackupFails, SkipUnripe, ConsolidateBlock, NextChunk, BlockZeroDone, Quiet
<1>4. ASSUME NoStage \/ Commit \/ RunCountReached \/ PauseInterrupted \/ Pause PROVE Quiet
  BY <1>4 DEF NoStage, Commit, RunCountReached, PauseInterrupted, Pause, Quiet
<1>5. ASSUME NewBlock \/ Sigint \/ Crash \/ UNCHANGED <<vars, restored>> PROVE Quiet
  BY <1>5 DEF NewBlock, Sigint, Crash, Quiet
<1>6. ASSUME CancelledInLoop \/ MissingRipe \/ WriteFails \/ NotifyChunkFails PROVE PutBack
  BY <1>6 DEF CancelledInLoop, MissingRipe, WriteFails, NotifyChunkFails, Abandon, Die, PutBack
<1>7. ASSUME StageNotWritten \/ NilMeta \/ NotifyStageFails PROVE PutBack
  BY <1>7 DEF StageNotWritten, NilMeta, NotifyStageFails, Abandon, Die, PutBack
<1> QED BY <1>1, <1>2, <1>3, <1>4, <1>5, <1>6, <1>7 DEF Next, Scrape

\* What Consolidate and Prepare hold when they write a chunk: nothing unripe,
\* nothing that an earlier chunk has, and all that none has.
LEMMA AtWrite ==
  ASSUME ScraperInv, pc \in {"index", "bloom"}
  PROVE  /\ cr.first \in 0 .. MaxBlock + 1 /\ cr.last \in 0 .. MaxBlock
         /\ cr = Span(cr.first, cr.last)
         /\ IsZero \/ \A r \in blooms : r.last < cr.last
         /\ \A b \in appMap : b <= cr.last /\ (b # 0 => b \in Addressed /\ Ripe(b))
         /\ \A b \in Addressed : b <= cr.last => Done(b) \/ b \in appMap
         /\ IsZero \/ \A s \in stages \cup backup : s.last < cr.last
<1> USE ScraperAssumption
<1>1. cr \in Spans /\ head \in 0 .. MaxBlock
  BY DEF ScraperInv, TypeInv
<1>2. cr.first \in 0 .. MaxBlock + 1 /\ cr = Span(cr.first, cr.last)
  BY <1>1 DEF Spans, Span
<1>3. CASE IsZero
  <2>1. appMap = {0} /\ cr.last = 0
    BY <1>3 DEF ScraperInv, ConsolidateInv, IsZero, Span
  <2> QED BY <1>2, <1>3, <2>1 DEF Addressed, Blocks
<1>4. CASE ~IsZero
  <2>1. /\ batch.first \in Blocks /\ batch.last \in Blocks
        /\ batch.ripeBlock \in 0 .. MaxBlock /\ Ripe(batch.ripeBlock)
        /\ \A s \in stages \cup backup : s.last < batch.first
    BY <1>4 DEF ScraperInv, RoundInv, InRound
  <2>2. /\ cur \in batch.first .. batch.last /\ cur <= batch.ripeBlock
        /\ cr.last = cur /\ Taken(cur)
        /\ \A r \in blooms : r.last < cur
    BY <1>4 DEF ScraperInv, ConsolidateInv
  <2>3. \A b \in appMap : b <= cr.last /\ b \in Addressed /\ Ripe(b)
    BY <1>1, <2>1, <2>2 DEF Taken, Ripe, Addressed, Blocks
  <2>4. \A s \in stages \cup backup : s.last < cr.last
    BY <2>1, <2>2 DEF ScraperInv, TypeInv, IndexFiles, Blocks
  <2>5. cr.last \in 0 .. MaxBlock
    BY <2>1, <2>2 DEF Blocks
  <2>6. \A b \in Addressed : b <= cr.last => Done(b) \/ b \in appMap
    BY <2>1, <2>2 DEF Taken, Addressed, Blocks
  <2> QED BY <1>2, <2>2, <2>3, <2>4, <2>5, <2>6
<1> QED BY <1>3, <1>4

\* The numbers of a round.
LEMMA RoundIs ==
  ASSUME ScraperInv, InRound
  PROVE  /\ MaxBlock \in Nat /\ batch.first \in 1 .. MaxBlock /\ batch.last \in 1 .. MaxBlock
         /\ batch.first <= batch.last
         /\ batch.ripeBlock \in 0 .. MaxBlock /\ Ripe(batch.ripeBlock)
         /\ pc # "scrape" => batch.first <= batch.ripeBlock
         /\ pc # "notify" /\ meta # NoMeta => meta \in 0 .. MaxBlock /\ IsTop(meta)
         /\ \A s \in stages \cup backup : s.last < batch.first
<1>1. \A r \in blooms : r.last \in 0 .. MaxBlock
  <2>1. \A r \in blooms : r.last \in 0 .. MaxBlock + 1 /\ r.last <= MaxBlock
    BY DEF ScraperInv, TypeInv, ChunkInv, Spans
  <2> QED BY <2>1, ScraperAssumption
<1>2. pc # "notify" /\ meta # NoMeta => IsTop(meta)
  BY DEF ScraperInv, RoundInv
<1>3. pc # "notify" /\ meta # NoMeta => meta \in 0 .. MaxBlock
  BY <1>1, <1>2, ScraperAssumption DEF IsTop
<1> QED BY <1>2, <1>3, ScraperAssumption DEF ScraperInv, RoundInv, Blocks

\* Where Consolidate is in a round.
LEMMA CurIs ==
  ASSUME ScraperInv
  PROVE  /\ pc = "block" => cur \in 1 .. MaxBlock + 1
         /\ pc \in {"index", "bloom", "notify"} /\ ~IsZero => cur \in 1 .. MaxBlock /\ cr.last = cur
<1>1. CASE pc = "block"
  <2>1. cur \in batch.first .. batch.last + 1
    BY <1>1 DEF ScraperInv, ConsolidateInv
  <2> QED BY <1>1, <2>1, RoundIs DEF InRound
<1>2. CASE pc \in {"index", "bloom", "notify"} /\ ~IsZero
  <2>1. cur \in batch.first .. batch.last /\ cr.last = cur
    BY <1>2 DEF ScraperInv, ConsolidateInv
  <2> QED BY <1>2, <2>1, RoundIs DEF InRound
<1> QED BY <1>1, <1>2

\* Every step keeps to the types: first what is on disk ...
LEMMA DiskTypes ==
  ASSUME ScraperInv, [Next]_<<vars, restored>>
  PROVE  /\ chunks' \subseteq IndexFiles /\ stages' \subseteq IndexFiles
         /\ backup' \subseteq IndexFiles /\ blooms' \subseteq Spans /\ head' \in 0 .. MaxBlock
<1> USE ScraperAssumption DEF disk, files, memory
<1>1. /\ chunks \subseteq IndexFiles /\ stages \subseteq IndexFiles /\ backup \subseteq IndexFiles
      /\ blooms \subseteq Spans /\ head \in 0 .. MaxBlock /\ cr \in Spans
      /\ appMap \subseteq 0 .. MaxBlock
  BY DEF ScraperInv, TypeInv
<1>2. CASE Quiet
  BY <1>1, <1>2 DEF Quiet
<1>3. CASE PutBack
  BY <1>1, <1>3, RestoreIs DEF PutBack
<1>4. CASE LoadStage
  BY <1>1, <1>4 DEF LoadStage, LatestStages
<1>5. CASE WriteIndex
  <2>1. [first |-> cr.first, last |-> cr.last, has |-> appMap] \in IndexFiles
    BY <1>1, <1>5, AtWrite DEF WriteIndex, IndexFiles
  <2> QED BY <1>1, <1>5, <2>1 DEF WriteIndex, Put
<1>6. CASE WriteBloom
  BY <1>1, <1>6 DEF WriteBloom
<1>7. CASE WriteStage
  <2>1. Max(appMap) \in 0 .. MaxBlock
    BY <1>1, <1>7, MaxIs DEF WriteStage
  <2>2. meta + 1 \in 0 .. MaxBlock + 1
    BY <1>7, RoundIs DEF WriteStage, AtEnd, InRound
  <2>3. [first |-> meta + 1, last |-> Max(appMap), has |-> appMap] \in IndexFiles
    BY <1>1, <2>1, <2>2 DEF IndexFiles
  <2> QED BY <1>1, <1>7, <2>3 DEF WriteStage, Put
<1> QED BY <1>2, <1>3, <1>4, <1>5, <1>6, <1>7, DiskSteps

\* ... then what the program works with.
LEMMA TypeStep ==
  ASSUME ScraperInv, [Next]_<<vars, restored>>
  PROVE  TypeInv'
<1> USE ScraperAssumption DEF vars, disk, files, memory, Exit, Forget, NoSpan
<1>1. /\ ripe \subseteq Blocks /\ unripe \subseteq Blocks /\ cancelled \in BOOLEAN
      /\ cr \in Spans /\ appMap \subseteq 0 .. MaxBlock
  BY DEF ScraperInv, TypeInv
<1>2. Span(0, 0) \in Spans /\ {0} \subseteq 0 .. MaxBlock
  <2>1. 0 \in 0 .. MaxBlock + 1 /\ 0 \in 0 .. MaxBlock
    OBVIOUS
  <2> QED BY <2>1 DEF Span, Spans
<1> DEFINE Kept == /\ ripe' \subseteq Blocks /\ unripe' \subseteq Blocks /\ cancelled' \in BOOLEAN
                   /\ cr' \in Spans /\ appMap' \subseteq 0 .. MaxBlock
<1>3. ASSUME Start \/ Interrupted \/ NothingToDo \/ BeginRound PROVE Kept
  BY <1>1, <1>2, <1>3 DEF Start, Interrupted, NothingToDo, BeginRound
<1>4. ASSUME ScrapeBatchOk \/ ScrapeBatchFails \/ TimestampsFail \/ ScrapeBatchCancelled
      PROVE  Kept
  BY <1>1, <1>2, <1>4 DEF ScrapeBatchOk, ScrapeBatchFails, TimestampsFail, ScrapeBatchCancelled,
     RipeFiles, UnripeFiles, Addressed
<1>5. ASSUME BackupFails \/ SkipUnripe \/ WriteIndex \/ WriteBloom \/ BlockZeroDone PROVE Kept
  BY <1>1, <1>5 DEF BackupFails, SkipUnripe, WriteIndex, WriteBloom, BlockZeroDone
<1>6. ASSUME NoStage \/ WriteStage \/ Commit \/ RunCountReached \/ PauseInterrupted \/ Pause
      PROVE  Kept
  BY <1>1, <1>2, <1>6 DEF NoStage, WriteStage, Commit, RunCountReached, PauseInterrupted, Pause
<1>7. ASSUME NewBlock \/ Sigint \/ Crash \/ UNCHANGED <<vars, restored>> PROVE Kept
  BY <1>1, <1>2, <1>7 DEF NewBlock, Sigint, Crash
<1>8. ASSUME CancelledInLoop \/ MissingRipe \/ WriteFails \/ NotifyChunkFails PROVE Kept
  BY <1>1, <1>2, <1>8 DEF CancelledInLoop, MissingRipe, WriteFails, NotifyChunkFails, Abandon, Die
<1>9. ASSUME StageNotWritten \/ NilMeta \/ NotifyStageFails PROVE Kept
  BY <1>1, <1>2, <1>9 DEF StageNotWritten, NilMeta, NotifyStageFails, Abandon, Die
<1>10. ASSUME LoadStage PROVE Kept
  <2>1. appMap' \subseteq 0 .. MaxBlock
    BY <1>10 DEF LoadStage, LatestStages, ScraperInv, TypeInv, IndexFiles
  <2>2. CASE LatestStages = {}
    <3>1. meta + 1 \in 0 .. MaxBlock + 1 /\ batch.first \in 0 .. MaxBlock + 1
      <4>1. InRound /\ meta # NoMeta /\ pc # "notify"
        BY <1>10 DEF LoadStage, InRound, ScraperInv, RoundInv
      <4> QED BY <4>1, RoundIs
    <3> QED BY <1>1, <1>10, <2>1, <2>2, <3>1 DEF LoadStage, Span, Spans
  <2>3. CASE LatestStages # {}
    <3>1. PICK s \in LatestStages : s \in stages
      BY <2>3 DEF LatestStages
    <3>2. s.last \in s.has
      BY <3>1 DEF ScraperInv, StageInv, StageOk
    <3>3. appMap' # {}
      BY <1>10, <3>1, <3>2 DEF LoadStage
    <3>4. Min(appMap') \in 0 .. MaxBlock /\ Max(appMap') \in 0 .. MaxBlock
      BY <2>1, <3>3, MinIs, MaxIs
    <3>5. cr' = Span(Min(appMap'), Max(appMap'))
      BY <1>10, <2>3 DEF LoadStage
    <3>6. cr' \in Spans
      BY <3>4, <3>5 DEF Span, Spans
    <3>7. UNCHANGED <<files, head, cancelled>>
      BY <1>10 DEF LoadStage
    <3> QED BY <1>1, <2>1, <3>6, <3>7
  <2> QED BY <2>2, <2>3
<1>11. ASSUME ConsolidateBlock PROVE Kept
  <2>1. cur \in 0 .. MaxBlock + 1
    BY <1>11, CurIs DEF ConsolidateBlock, AtBlock
  <2> QED BY <1>1, <1>11, <2>1 DEF ConsolidateBlock, Blocks, Spans
<1>12. ASSUME NextChunk PROVE Kept
  <2>1. cr.last + 1 \in 0 .. MaxBlock + 1
    BY <1>12, CurIs DEF NextChunk
  <2> QED BY <1>1, <1>12, <2>1 DEF NextChunk, Span, Spans
<1>13. Kept
  BY <1>3, <1>4, <1>5, <1>6, <1>7, <1>8, <1>9, <1>10, <1>11, <1>12 DEF Next, Scrape
<1> QED BY <1>13, DiskTypes DEF TypeInv

\* What is final or ripe stays so.
LEMMA Lasts ==
  ASSUME ScraperInv, Regular, [Next]_<<vars, restored>>
  PROVE  /\ blooms \subseteq blooms' /\ \A b : Done(b) => Done(b)'
         /\ \A b \in Int : Ripe(b) => Ripe(b)'
<1> USE ScraperAssumption DEF disk, files, memory
<1>1. head \in Int /\ (head' = head \/ head' = head + 1)
  BY DiskSteps DEF ScraperInv, TypeInv, Quiet, PutBack, LoadStage, WriteIndex, WriteBloom, WriteStage
<1>2. blooms \subseteq blooms'
  BY DiskSteps DEF Quiet, PutBack, LoadStage, WriteIndex, WriteBloom, WriteStage
<1> QED BY <1>1, <1>2 DEF Done, Ripe

\* A step that writes no bloom keeps what the blooms say as it is.
LEMMA SameBlooms == ASSUME blooms' = blooms PROVE \A b : Done(b) <=> Done(b)'
BY DEF Done

\* Chunks are added whole and only where they belong.
LEMMA ChunkStep ==
  ASSUME ScraperInv, Regular, [Next]_<<vars, restored>>
  PROVE  ChunkInv'
<1> USE ScraperAssumption DEF disk, files, memory, Name
<1>1. \A c \in chunks : c.has \subseteq 0 .. MaxBlock
  BY DEF ScraperInv, TypeInv, IndexFiles
<1>2. ASSUME chunks' \subseteq chunks, blooms' = blooms,
             \A c \in chunks : Name(c) \in blooms => c \in chunks'
      PROVE  ChunkInv'
  BY <1>1, <1>2, SameBlooms, Lasts DEF ScraperInv, ChunkInv
<1>3. CASE Quiet
  BY <1>2, <1>3 DEF Quiet
<1>4. CASE PutBack
  <2>1. CASE chunks' = chunks
    BY <1>2, <1>4, <2>1 DEF PutBack
  <2>2. CASE pc \in {"index", "bloom"} /\ ~IsZero /\ chunks' = {c \in chunks : Name(c) # cr}
    <3>1. \A r \in blooms : r.last < cr.last /\ r.last \in Int
      BY <2>2, AtWrite DEF ScraperInv, TypeInv, Spans
    <3>2. cr \notin blooms
      BY <3>1
    <3> QED BY <1>2, <1>4, <2>2, <3>2 DEF PutBack
  <2> QED BY <1>4, <2>1, <2>2 DEF PutBack
<1>5. CASE LoadStage \/ WriteStage
  BY <1>2, <1>5 DEF LoadStage, WriteStage
<1>6. CASE WriteIndex
  <2> DEFINE new == [first |-> cr.first, last |-> cr.last, has |-> appMap]
  <2>0. pc = "index" /\ chunks' = {c \in chunks : Name(c) # cr} \cup {new} /\ blooms' = blooms
    BY <1>6, AtWrite DEF WriteIndex, Put, Span
  <2>1. \A b \in appMap : b <= cr.last /\ (b # 0 => b \in Addressed /\ Ripe(b))
    BY <2>0, AtWrite
  <2>2. \A b \in appMap : b \in Int
    BY DEF ScraperInv, TypeInv
  <2>3. \A c \in chunks' : \A b \in c.has : b <= c.last /\ (b # 0 => b \in Addressed /\ Ripe(b)')
    BY <1>1, <2>0, <2>1, <2>2, Lasts DEF ScraperInv, ChunkInv
  <2>4. ASSUME NEW b \in Addressed, Done(b)
        PROVE  \E c \in chunks : Name(c) \in blooms /\ b \in c.has /\ Name(c) # cr
    <3>1. PICK c \in chunks : Name(c) \in blooms /\ b \in c.has
      BY <2>4 DEF ScraperInv, ChunkInv
    <3>2. b <= c.last /\ b \in 1 .. MaxBlock
      BY <3>1 DEF ScraperInv, ChunkInv, Addressed, Blocks
    <3>3. c.last # cr.last
      <4>1. c.last \in 0 .. MaxBlock /\ Name(c).last = c.last
        BY <3>1 DEF ScraperInv, TypeInv, IndexFiles, Span
      <4>2. IsZero => cr.last = 0
        BY DEF IsZero, Span
      <4>3. IsZero \/ c.last < cr.last
        BY <2>0, <3>1, <4>1, AtWrite
      <4> QED BY <2>0, <3>2, <4>1, <4>2, <4>3, AtWrite
    <3> QED BY <3>1, <3>3 DEF Span
  <2>5. \A b \in Addressed : Done(b)' => \E c \in chunks' : Name(c) \in blooms' /\ b \in c.has
    BY <2>0, <2>4, SameBlooms
  <2> QED BY <2>0, <2>3, <2>5 DEF ScraperInv, ChunkInv
<1>7. CASE WriteBloom
  <2>0. pc = "bloom" /\ chunks' = chunks /\ blooms' = blooms \cup {cr}
    BY <1>7 DEF WriteBloom, Regular
  <2>1. PICK c \in chunks : Name(c) = cr /\ c.has = appMap
    BY <2>0 DEF ScraperInv, ConsolidateInv
  <2>2. \A b \in Addressed : b <= cr.last => Done(b) \/ b \in appMap
    BY <2>0, AtWrite
  <2>3. \A b \in Addressed : Done(b)' => Done(b) \/ b <= cr.last
    BY <2>0 DEF Done
  <2>4. ASSUME NEW b \in Addressed, Done(b)'
        PROVE  \E d \in chunks : Name(d) \in blooms' /\ b \in d.has
    <3>1. CASE Done(b)
      BY <2>0, <3>1 DEF ScraperInv, ChunkInv
    <3>2. CASE b \in appMap
      BY <2>0, <2>1, <3>2
    <3> QED BY <2>2, <2>3, <2>4, <3>1, <3>2
  <2>5. \A r \in blooms' : r.last <= MaxBlock
    BY <2>0, AtWrite DEF ScraperInv, ChunkInv
  <2>6. \A d \in chunks' : \A b \in d.has : b <= d.last /\ (b # 0 => b \in Addressed /\ Ripe(b)')
    BY <1>1, <2>0, Lasts DEF ScraperInv, ChunkInv
  <2> QED BY <2>0, <2>4, <2>5, <2>6 DEF ChunkInv
<1> QED BY <1>3, <1>4, <1>5, <1>6, <1>7, DiskSteps

\* A stage stays good while blooms are not written.
LEMMA StageOkStays ==
  ASSUME ScraperInv, Regular, [Next]_<<vars, restored>>, blooms' = blooms,
         NEW s \in IndexFiles, StageOk(s)
  PROVE  StageOk(s)'
<1>1. \A b \in s.has : b \in Int
  BY DEF IndexFiles
<1> QED BY <1>1, SameBlooms, Lasts DEF StageOk

\* Stages are put, taken away and put back as they should.
LEMMA StageStep ==
  ASSUME ScraperInv, Regular, [Next]_<<vars, restored>>
  PROVE  StageInv'
<1> USE ScraperAssumption DEF disk, files, memory
<1>1. /\ \A s \in stages \cup backup : s \in IndexFiles /\ StageOk(s)
      /\ \A s, t \in stages : Name(s) = Name(t) => s = t
  BY DEF ScraperInv, TypeInv, StageInv
<1>2. ASSUME blooms' = blooms, stages' \cup backup' \subseteq stages \cup backup,
             \A s, t \in stages' : Name(s) = Name(t) => s = t
      PROVE  StageInv'
  <2>1. \A s \in stages' \cup backup' : StageOk(s)'
    BY <1>1, <1>2, StageOkStays
  <2>2. \A s, t \in stages' : (Name(s) = Name(t) => s = t)'
    BY <1>2 DEF Name
  <2> QED BY <2>1, <2>2 DEF StageInv
<1>3. CASE Quiet
  BY <1>1, <1>2, <1>3 DEF Quiet
<1>4. CASE PutBack
  BY <1>1, <1>2, <1>4, RestoreIs DEF PutBack
<1>5. CASE LoadStage
  BY <1>1, <1>2, <1>5 DEF LoadStage, LatestStages
<1>6. CASE WriteIndex
  BY <1>1, <1>2, <1>6 DEF WriteIndex
<1>7. CASE WriteStage
  <2> DEFINE new == [first |-> meta + 1, last |-> Max(appMap), has |-> appMap]
  <2>0. /\ pc = "block" /\ cur > batch.last /\ appMap # {} /\ meta # NoMeta
        /\ stages' = Put(stages, new) /\ blooms' = blooms /\ backup' = backup
    BY <1>7 DEF WriteStage, AtEnd
  <2>1. /\ MaxBlock \in Nat /\ batch.last \in 1 .. MaxBlock /\ batch.ripeBlock \in 0 .. MaxBlock
        /\ Ripe(batch.ripeBlock) /\ meta \in 0 .. MaxBlock /\ IsTop(meta)
    BY <2>0, RoundIs DEF InRound
  <2>2. Taken(cur - 1) /\ ~ (Apps(appMap) >= PerChunk) /\ cur \in Int
    BY <2>0, CurIs DEF ScraperInv, ConsolidateInv
  <2>3. Max(appMap) \in appMap /\ \A b \in appMap : b <= Max(appMap)
    BY <2>0, MaxIs DEF ScraperInv, TypeInv
  <2>4. /\ appMap \subseteq Addressed /\ Addressed \subseteq 1 .. MaxBlock
        /\ Max(appMap) \in 1 .. MaxBlock /\ appMap \subseteq 0 .. MaxBlock
    <3>1. appMap \subseteq Addressed /\ Addressed \subseteq 1 .. MaxBlock
      BY <2>2 DEF Taken, Addressed, Blocks
    <3>2. appMap \subseteq 0 .. MaxBlock
      BY DEF ScraperInv, TypeInv
    <3> QED BY <2>3, <3>1, <3>2
  <2>5. \A b \in appMap : b <= cur - 1 /\ Ripe(b)
    BY <2>1, <2>2, <2>4 DEF Taken, Ripe, ScraperInv, TypeInv
  <2>6. \A b \in Addressed : b <= Max(appMap) => Done(b) \/ b \in appMap
    <3> SUFFICES ASSUME NEW b \in Addressed, b <= Max(appMap) PROVE Done(b) \/ b \in appMap
      OBVIOUS
    <3>1. Max(appMap) <= cur - 1 /\ Max(appMap) <= batch.ripeBlock
      BY <2>2, <2>3 DEF Taken
    <3>2. b <= cur - 1 /\ b <= batch.ripeBlock
      <4>1. b \in Int /\ Max(appMap) \in Int /\ batch.ripeBlock \in Int
        BY <2>1, <2>4
      <4> QED BY <2>2, <3>1, <4>1
    <3> QED BY <2>2, <3>2 DEF Taken
  <2>7. meta + 1 = 1 \/ \E r \in blooms : meta + 1 <= r.last + 1
    BY <2>1 DEF IsTop
  <2>8. 1 <= meta + 1 /\ \A r \in blooms : r.last < meta + 1
    BY <2>1 DEF IsTop, ScraperInv, TypeInv, Spans
  <2>9. StageOk(new)
    BY <2>2, <2>3, <2>4, <2>5, <2>6, <2>7, <2>8 DEF StageOk
  <2>10. new \in IndexFiles
    <3>1. meta + 1 \in 0 .. MaxBlock + 1 /\ Max(appMap) \in 0 .. MaxBlock
      BY <2>1, <2>4
    <3> QED BY <2>4, <3>1 DEF IndexFiles
  <2> HIDE DEF new
  <2>11. stages' = {f \in stages : Name(f) # Name(new)} \cup {new}
    BY <2>0 DEF Put
  <2>12. \A s \in stages' \cup backup' : StageOk(s)'
    BY <1>1, <2>0, <2>9, <2>10, <2>11, StageOkStays
  <2>13. \A s, t \in stages' : (Name(s) = Name(t) => s = t)'
    BY <1>1, <2>11 DEF Name
  <2> QED BY <2>12, <2>13 DEF StageInv
<1>8. CASE WriteBloom
  <2>0. /\ pc = "bloom" /\ blooms' = blooms \cup {cr} /\ stages' = stages /\ backup' = backup
        /\ head' = head
    BY <1>8 DEF WriteBloom, Regular
  <2>1. ASSUME NEW s \in stages \cup backup PROVE StageOk(s)'
    <3>1. /\ s.has \subseteq Addressed /\ s.last \in s.has
          /\ \A b \in s.has : b <= s.last /\ Ripe(b)'
          /\ \A b \in Addressed : b <= s.last => Done(b)' \/ b \in s.has
          /\ s.first = 1 \/ \E r \in blooms' : s.first <= r.last + 1
          /\ ~ (Apps(s.has) >= PerChunk)
      BY <1>1, <2>0, Lasts DEF StageOk, Ripe
    <3>2. CASE IsZero
      <4>1. cr.last = 0 /\ s.first \in Int /\ s.last \in Int
        BY <1>1, <3>2 DEF IsZero, Span, IndexFiles
      <4>2. Done(s.last) \/ (1 <= s.first /\ \A r \in blooms : r.last < s.first)
        BY <1>1 DEF StageOk
      <4>3. Done(s.last)' \/ (1 <= s.first /\ \A r \in blooms' : r.last < s.first)
        BY <2>0, <4>1, <4>2, Lasts
      <4> QED BY <3>1, <4>3 DEF StageOk
    <3>3. CASE ~IsZero
      <4>1. s.last < cr.last /\ s.last \in Int /\ cr.last \in Int
        BY <1>1, <2>0, <3>3, AtWrite DEF IndexFiles
      <4>2. Done(s.last)'
        BY <2>0, <4>1 DEF Done
      <4> QED BY <3>1, <4>2 DEF StageOk
    <3> QED BY <3>2, <3>3
  <2>2. \A s, t \in stages' : (Name(s) = Name(t) => s = t)'
    BY <1>1, <2>0 DEF Name
  <2> QED BY <2>0, <2>1, <2>2 DEF StageInv
<1> QED BY <1>3, <1>4, <1>5, <1>6, <1>7, <1>8, DiskSteps

\* At the head of the loop, with the temporary folders clean, the next round
\* begins just behind all that is indexed.
LEMMA NextIs ==
  ASSUME ScraperInv, ripe = {}
  PROVE  IndexHeight = Height
<1> USE ScraperAssumption
<1>1. Staging \in 0 .. MaxBlock
  BY HeightIs, StagedIs DEF ScraperInv, TypeInv, Staging
<1>2. RipeHeight = MaxOf({Staging})
  <2>1. ripe \cup {Staging} = {Staging}
    OBVIOUS
  <2> QED BY <2>1 DEF RipeHeight
<1>3. {Staging} \in SUBSET (0 .. MaxBlock)
  BY <1>1
<1>4. MaxOf({Staging}) = Staging
  <2> HIDE DEF Staging
  <2>1. MaxOf({Staging}) \in 0 .. MaxBlock /\ MaxOf({Staging}) \in {0, Staging}
    BY <1>3, MaxOfIs
  <2>2. Staging <= MaxOf({Staging})
    BY <1>3, MaxOfIs
  <2> QED BY <1>1, <2>1, <2>2
<1>5. {Finalized, Staging, RipeHeight} = {Finalized, Staging}
  BY <1>2, <1>4
<1> QED BY <1>5 DEF IndexHeight, Height

\* A round begins behind everything that is on disc.
LEMMA BeginIs ==
  ASSUME ScraperInv, BeginRound
  PROVE  /\ batch'.first \in Blocks /\ batch'.last \in Blocks /\ batch'.first <= batch'.last
         /\ batch'.ripeBlock \in 0 .. MaxBlock /\ Ripe(batch'.ripeBlock)
         /\ meta' # NoMeta /\ IsTop(meta')
         /\ \A s \in stages : s.last < batch'.first
         /\ \A r \in blooms : r.last < batch'.first
         /\ \A b \in Addressed : b < batch'.first => Done(b) \/ \E s \in stages : b <= s.last
<1> USE ScraperAssumption
<1>1. ripe = {}
  BY DEF BeginRound, ScraperInv, RoundInv, InRound
<1>2. /\ head \in 0 .. MaxBlock /\ blooms \subseteq Spans /\ stages \subseteq IndexFiles
  BY DEF ScraperInv, TypeInv
<1>3. /\ Height \in 0 .. MaxBlock /\ Finalized \in 0 .. MaxBlock
      /\ Finalized <= Height /\ Staged <= Height
      /\ Height = Finalized \/ (Height = Staged /\ Staged # 0)
  BY HeightIs DEF ScraperInv
<1>4. NextIndexHeight = Height + 1
  BY <1>1, NextIs DEF NextIndexHeight
<1>5. Finalized \in Nat /\ IsTop(Finalized)
  BY <1>2, <1>3, FinalizedIs
<1>6. /\ Staged \in 0 .. MaxBlock /\ (Staged = 0 \/ \E s \in stages : s.last = Staged)
      /\ \A s \in stages : s.last <= Staged
  BY <1>2, StagedIs
<1>7. /\ meta' = Finalized
      /\ batch' = [first |-> Height + 1,
                   last |-> Min({Height + 1 + BlockCnt - 1, head}),
                   ripeBlock |-> head - UnripeDist]
      /\ head >= UnripeDist /\ Height + 1 <= head
  BY <1>4 DEF BeginRound
<1> HIDE DEF Finalized, Staged, Height
<1> DEFINE ends == {Height + 1 + BlockCnt - 1, head}
<1>8. Min(ends) \in ends
  <2>1. ends \in SUBSET (0 .. MaxBlock + BlockCnt) /\ ends # {} /\ MaxBlock + BlockCnt \in Nat
    BY <1>2, <1>3
  <2> HIDE DEF ends
  <2> QED BY <2>1, MinIs
<1>9. batch'.last \in Blocks /\ batch'.first <= batch'.last
  <2>1. batch'.last = Min(ends) /\ batch'.first = Height + 1
    BY <1>7
  <2>2. BlockCnt \in Nat \ {0}
    OBVIOUS
  <2>3. \A e \in ends : e >= Height + 1
    BY <1>2, <1>3, <1>7, <2>2
  <2>4. Min(ends) >= Height + 1 /\ (Min(ends) = head \/ Min(ends) = Height + 1 + BlockCnt - 1)
    BY <1>8, <2>3
  <2>5. Min(ends) <= head
    <3>1. ends \in SUBSET (0 .. MaxBlock + BlockCnt) /\ ends # {} /\ MaxBlock + BlockCnt \in Nat
      BY <1>2, <1>3
    <3>2. head \in ends
      OBVIOUS
    <3> HIDE DEF ends
    <3> QED BY <3>1, <3>2, MinIs
  <2> HIDE DEF ends
  <2> QED BY <1>2, <1>3, <2>1, <2>2, <2>4, <2>5 DEF Blocks
<1>10. batch'.first \in Blocks /\ batch'.ripeBlock \in 0 .. MaxBlock /\ Ripe(batch'.ripeBlock)
  BY <1>2, <1>3, <1>7 DEF Blocks, Ripe
<1>11. meta' # NoMeta /\ IsTop(meta')
  BY <1>5, <1>7 DEF NoMeta
<1>12. \A s \in stages : s.last < batch'.first
  BY <1>2, <1>3, <1>6, <1>7 DEF IndexFiles
<1>13. \A r \in blooms : r.last < batch'.first
  BY <1>2, <1>3, <1>5, <1>7 DEF IsTop, Spans
<1>14. \A b \in Addressed : b < batch'.first => Done(b) \/ \E s \in stages : b <= s.last
  <2> SUFFICES ASSUME NEW b \in Addressed, b < batch'.first
               PROVE  Done(b) \/ \E s \in stages : b <= s.last
    OBVIOUS
  <2>1. b \in 1 .. MaxBlock /\ b <= Height
    BY <1>3, <1>7 DEF Addressed, Blocks
  <2>2. CASE Height = Finalized
    BY <1>5, <2>1, <2>2 DEF IsTop, Done
  <2>3. CASE Height = Staged /\ Staged # 0
    BY <1>6, <2>1, <2>3
  <2> QED BY <1>3, <2>2, <2>3
<1> QED BY <1>9, <1>10, <1>11, <1>12, <1>13, <1>14

\* The steps that end a round, one way or another.
LEMMA EndStep ==
  ASSUME ScraperInv,
         \/ Interrupted \/ NothingToDo \/ ScrapeBatchFails \/ TimestampsFail
         \/ ScrapeBatchCancelled \/ BackupFails \/ CancelledInLoop \/ MissingRipe
         \/ WriteFails \/ NotifyChunkFails \/ StageNotWritten \/ NilMeta
         \/ NotifyStageFails \/ Commit \/ RunCountReached \/ PauseInterrupted \/ Crash
         \/ NoStage \/ WriteStage \/ (ScrapeBatchOk /\ pc' = "pause")
  PROVE  RoundInv' /\ ConsolidateInv'
<1> USE DEF vars, disk, files, memory, Exit, Forget
<1>1. ASSUME pc' \in {"off", "pause"}, backup' = {} PROVE RoundInv' /\ ConsolidateInv'
  BY <1>1 DEF RoundInv, ConsolidateInv, InRound
<1>2. backup' = backup /\ pc' = "commit" => RoundInv' /\ ConsolidateInv'
  BY DEF RoundInv, ConsolidateInv, InRound
<1>3. pc \in {"loop", "scrape", "stage", "pause"} => backup = {}
  BY DEF ScraperInv, RoundInv
<1>4. ASSUME Interrupted \/ NothingToDo \/ ScrapeBatchFails \/ TimestampsFail
             \/ ScrapeBatchCancelled \/ BackupFails
      PROVE  pc' \in {"off", "pause"} /\ backup' = {}
  BY <1>3, <1>4 DEF Interrupted, NothingToDo, ScrapeBatchFails, TimestampsFail,
     ScrapeBatchCancelled, BackupFails
<1>5. ASSUME CancelledInLoop \/ MissingRipe \/ WriteFails \/ NotifyChunkFails
             \/ StageNotWritten \/ NilMeta \/ NotifyStageFails
      PROVE  pc' \in {"off", "pause"} /\ backup' = {}
  BY <1>5 DEF CancelledInLoop, MissingRipe, WriteFails, NotifyChunkFails, StageNotWritten,
     NilMeta, NotifyStageFails, Abandon, Die
<1>6. ASSUME Commit \/ RunCountReached \/ PauseInterrupted \/ Crash
             \/ (ScrapeBatchOk /\ pc' = "pause")
      PROVE  pc' \in {"off", "pause"} /\ backup' = {}
  BY <1>3, <1>6 DEF Commit, RunCountReached, PauseInterrupted, Crash, ScrapeBatchOk
<1>7. ASSUME NoStage \/ WriteStage PROVE backup' = backup /\ pc' = "commit"
  BY <1>7 DEF NoStage, WriteStage
<1> QED BY <1>1, <1>2, <1>4, <1>5, <1>6, <1>7

\* The steps that come before a round.
LEMMA BeginStep ==
  ASSUME ScraperInv, Start \/ Pause \/ BlockZeroDone \/ BeginRound
  PROVE  RoundInv' /\ ConsolidateInv'
<1> USE DEF disk, files, memory
<1>1. CASE Start
  <2>1. backup = {}
    BY <1>1 DEF Start, ScraperInv, RoundInv
  <2> QED BY <1>1, <2>1 DEF Start, RoundInv, ConsolidateInv, InRound, IsZero
<1>2. CASE Pause
  BY <1>2 DEF Pause, Forget, RoundInv, ConsolidateInv, InRound
<1>3. CASE BlockZeroDone
  <2>1. ripe = {} /\ unripe = {} /\ backup = {}
    BY <1>3 DEF BlockZeroDone, ScraperInv, RoundInv, InRound
  <2> QED BY <1>3, <2>1 DEF BlockZeroDone, RoundInv, ConsolidateInv, InRound
<1>4. CASE BeginRound
  <2>1. pc' = "scrape" /\ backup = {} /\ UNCHANGED <<blooms, stages, backup, head>>
    BY <1>4 DEF BeginRound, ScraperInv, RoundInv
  <2>2. /\ batch'.first \in Blocks /\ batch'.last \in Blocks /\ batch'.first <= batch'.last
        /\ batch'.ripeBlock \in 0 .. MaxBlock /\ Ripe(batch'.ripeBlock)
        /\ meta' # NoMeta /\ IsTop(meta')
        /\ \A s \in stages : s.last < batch'.first
        /\ \A r \in blooms : r.last < batch'.first
        /\ \A b \in Addressed : b < batch'.first => Done(b) \/ \E s \in stages : b <= s.last
    BY <1>4, BeginIs
  <2>3. ConsolidateInv'
    BY <2>1 DEF ConsolidateInv
  <2>4. RoundInv'
    BY <2>1, <2>2 DEF RoundInv, InRound, IsTop, Ripe, Done
  <2> QED BY <2>3, <2>4
<1> QED BY <1>1, <1>2, <1>3, <1>4

\* What the round was set up with stays while it runs.
LEMMA RoundStays ==
  ASSUME ScraperInv, Regular, [Next]_<<vars, restored>>, InRound,
         batch' = batch, blooms' = blooms \/ pc' = "notify",
         stages' \cup backup' \subseteq stages \cup backup,
         pc' \in {"block", "index", "bloom", "notify"}, InRound',
         pc' = "notify" \/ (pc # "notify" /\ meta' = meta) \/ meta' = NoMeta \/ meta' = Finalized,
         pc # "scrape"
  PROVE  RoundInv'
<1>1. /\ MaxBlock \in Nat /\ batch.first \in 1 .. MaxBlock /\ batch.last \in 1 .. MaxBlock
      /\ batch.first <= batch.last
      /\ batch.ripeBlock \in 0 .. MaxBlock /\ Ripe(batch.ripeBlock)
      /\ batch.first <= batch.ripeBlock
      /\ pc # "notify" /\ meta # NoMeta => meta \in 0 .. MaxBlock /\ IsTop(meta)
      /\ \A s \in stages \cup backup : s.last < batch.first
  BY RoundIs
<1>2. Ripe(batch.ripeBlock)'
  BY <1>1, Lasts DEF Ripe
<1>3. IsTop(Finalized)
  BY FinalizedIs DEF ScraperInv, TypeInv
<1>4. pc' # "notify" /\ meta' # NoMeta => IsTop(meta)'
  BY <1>1, <1>3 DEF IsTop
<1> QED BY <1>1, <1>2, <1>4 DEF RoundInv, Blocks

\* The stage is loaded: what no chunk has, up to the round, is in memory.
LEMMA LoadStep ==
  ASSUME ScraperInv, Regular, [Next]_<<vars, restored>>, LoadStage
  PROVE  RoundInv' /\ ConsolidateInv'
<1> USE ScraperAssumption DEF disk, files, memory
<1>0. /\ pc = "stage" /\ pc' = "block" /\ backup' = LatestStages /\ stages' = stages \ LatestStages
      /\ appMap' = UNION {s.has : s \in LatestStages} /\ cur' = batch.first
      /\ UNCHANGED <<chunks, blooms, ripe, unripe, head, meta, batch>>
  BY DEF LoadStage
<1>1. InRound /\ InRound'
  BY <1>0 DEF InRound
<1>2. RoundInv'
  BY <1>0, <1>1, RoundStays DEF LatestStages
<1>3. /\ batch.first \in 1 .. MaxBlock /\ batch.last \in 1 .. MaxBlock /\ batch.first <= batch.last
      /\ batch.ripeBlock \in 0 .. MaxBlock /\ batch.first <= batch.ripeBlock
      /\ \A s \in stages \cup backup : s.last < batch.first
  BY <1>0, <1>1, RoundIs
<1>4. /\ \A r \in blooms : r.last < batch.first
      /\ \A b \in Addressed : b < batch.first => Done(b) \/ \E s \in stages : b <= s.last
  BY <1>0 DEF ScraperInv, RoundInv
<1>5. ripe = RipeFiles /\ unripe = UnripeFiles
  BY <1>0 DEF ScraperInv, ConsolidateInv
<1>6. Addressed \subseteq 1 .. MaxBlock
  BY DEF Addressed, Blocks
<1>7. /\ appMap' \subseteq Addressed /\ ~ (Apps(appMap') >= PerChunk)
      /\ \A b \in appMap' : b < batch.first
      /\ \A b \in Addressed : b < batch.first => Done(b) \/ b \in appMap'
  <2>1. CASE stages = {}
    <3>1. appMap' = {}
      BY <1>0, <2>1 DEF LatestStages
    <3>2. ~ (Apps(appMap') >= PerChunk)
      BY <3>1, AppsOfNothing
    <3> QED BY <1>4, <2>1, <3>1, <3>2
  <2>2. CASE stages # {}
    <3>1. PICK s \in stages : /\ LatestStages = {s}
                              /\ \A t \in stages : t.last <= s.last \/ Done(t.last)
      BY <2>2, LatestIs DEF ScraperInv
    <3>2. appMap' = s.has
      BY <1>0, <3>1
    <3>3. StageOk(s)
      BY DEF ScraperInv, StageInv
    <3>4. \A t \in stages : t.last \in 0 .. MaxBlock
      BY DEF ScraperInv, TypeInv, IndexFiles
    <3>5. \A b \in s.has : b < batch.first
      <4>1. s.last \in Int /\ s.last < batch.first
        BY <1>3, <3>4
      <4>3. s.has \subseteq 1 .. MaxBlock
        BY <1>6, <3>3 DEF StageOk
      <4>2. \A b \in s.has : b <= s.last
        BY <3>3 DEF StageOk
      <4> QED BY <1>3, <4>1, <4>2, <4>3
    <3>6. ASSUME NEW b \in Addressed, b < batch.first PROVE Done(b) \/ b \in s.has
      <4>1. CASE Done(b)
        BY <4>1
      <4>2. ASSUME NEW t \in stages, b <= t.last PROVE Done(b) \/ b \in s.has
        <5>1. CASE t.last <= s.last
          <6>1. b <= s.last
            BY <1>6, <3>4, <4>2, <5>1
          <6> QED BY <3>3, <6>1 DEF StageOk
        <5>2. CASE Done(t.last)
          <6>1. PICK r \in blooms : t.last <= r.last
            BY <5>2 DEF Done
          <6>2. r.last \in Int
            BY DEF ScraperInv, TypeInv, Spans
          <6>3. b <= r.last
            BY <1>6, <3>4, <4>2, <6>1, <6>2
          <6> QED BY <6>3 DEF Done
        <5> QED BY <3>1, <5>1, <5>2
      <4> QED BY <1>4, <3>6, <4>1, <4>2
    <3> QED BY <3>2, <3>3, <3>5, <3>6 DEF StageOk
  <2> QED BY <2>1, <2>2
<1>8. Taken(batch.first - 1)'
  <2>1. \A b \in appMap' : b <= batch.first - 1 /\ b <= batch.ripeBlock
    BY <1>3, <1>6, <1>7
  <2>2. \A b \in Addressed : b <= batch.first - 1 => Done(b) \/ b \in appMap'
    BY <1>3, <1>6, <1>7
  <2>3. \A b \in Addressed : batch.first - 1 < b /\ b <= batch.last =>
          IF b <= batch.ripeBlock THEN b \in ripe ELSE b \in unripe
    BY <1>3, <1>5, <1>6 DEF RipeFiles, UnripeFiles
  <2>4. \A b \in ripe : b \in Addressed /\ b <= batch.ripeBlock
    BY <1>5 DEF RipeFiles
  <2>5. \A b \in unripe : b > batch.ripeBlock
    BY <1>5 DEF UnripeFiles
  <2>6. \A b : Done(b) <=> Done(b)'
    BY <1>0, SameBlooms
  <2> QED BY <1>0, <1>7, <2>1, <2>2, <2>3, <2>4, <2>5, <2>6 DEF Taken
<1>9. ConsolidateInv'
  <2>1. cur' \in batch.first .. batch.last + 1
    BY <1>0, <1>3
  <2>2. cur' - 1 = batch.first - 1
    BY <1>0
  <2>3. Taken(cur - 1)'
    BY <1>0, <1>8, <2>2 DEF Taken, Done
  <2> QED BY <1>0, <1>4, <1>7, <2>1, <2>3 DEF ConsolidateInv
<1> QED BY <1>2, <1>9

\* A block is skipped or taken.
LEMMA BlockStep ==
  ASSUME ScraperInv, Regular, [Next]_<<vars, restored>>, SkipUnripe \/ ConsolidateBlock
  PROVE  RoundInv' /\ ConsolidateInv'
<1> USE ScraperAssumption DEF disk, files, memory
<1>0. /\ pc = "block" /\ cur <= batch.last
      /\ UNCHANGED <<chunks, blooms, stages, unripe, head, meta, batch, backup>>
  BY DEF SkipUnripe, ConsolidateBlock, AtBlock
<1>1. InRound
  BY <1>0 DEF InRound
<1>2. /\ batch.first \in 1 .. MaxBlock /\ batch.last \in 1 .. MaxBlock
      /\ batch.ripeBlock \in 0 .. MaxBlock
  BY <1>1, RoundIs
<1>3. /\ cur \in batch.first .. batch.last + 1 /\ cur \in Int /\ cur \in 1 .. MaxBlock
      /\ Taken(cur - 1) /\ ~ (Apps(appMap) >= PerChunk) /\ \A r \in blooms : r.last < cur
  BY <1>0, <1>2 DEF ScraperInv, ConsolidateInv
<1>4. Addressed \subseteq 1 .. MaxBlock /\ \A r \in blooms : r.last \in Int
  BY DEF Addressed, Blocks, ScraperInv, TypeInv, Spans
<1>5. \A b : Done(b) <=> Done(b)'
  BY <1>0, SameBlooms
<1>6. CASE SkipUnripe
  <2>0. /\ cur \in unripe /\ cur' = cur + 1
        /\ UNCHANGED <<ripe, appMap, pc>>
    BY <1>6 DEF SkipUnripe
  <2>1. cur > batch.ripeBlock
    BY <1>3, <2>0 DEF Taken
  <2>2. Taken(cur)
    BY <1>2, <1>3, <1>4, <2>1 DEF Taken
  <2>3. Taken(cur - 1)'
    <3>1. ASSUME NEW n, n = cur PROVE Taken(n)'
      BY <1>0, <1>5, <2>0, <2>2, <3>1 DEF Taken
    <3>2. cur' - 1 = cur
      BY <1>3, <2>0
    <3> QED BY <3>1, <3>2
  <2>4. RoundInv'
    BY <1>0, <1>1, <2>0, RoundStays DEF InRound
  <2>5. cur' \in batch.first .. batch.last + 1
    BY <1>0, <1>2, <1>3, <2>0
  <2>6. \A r \in blooms : r.last < cur'
    BY <1>3, <1>4, <2>0
  <2>7. ConsolidateInv'
    BY <1>0, <1>3, <2>0, <2>3, <2>5, <2>6 DEF ConsolidateInv
  <2> QED BY <2>4, <2>7
<1>7. CASE ConsolidateBlock
  <2>0. /\ cur \notin unripe /\ appMap' = appMap \cup ({cur} \cap ripe) /\ ripe' = ripe \ {cur}
        /\ cr' = [cr EXCEPT !.last = cur]
        /\ IF IsSnap(cur) \/ Apps(appMap') >= PerChunk
           THEN pc' = "index" /\ cur' = cur
           ELSE cur' = cur + 1 /\ pc' = pc
    BY <1>7 DEF ConsolidateBlock
  <2>1. cur \in Addressed => cur <= batch.ripeBlock /\ cur \in ripe
    BY <1>0, <1>3, <2>0 DEF Taken
  <2>2. ASSUME NEW n, n = cur PROVE Taken(n)'
    <3>1. appMap' \subseteq Addressed /\ \A b \in appMap' : b <= n /\ b <= batch.ripeBlock
      BY <1>3, <1>4, <2>0, <2>2 DEF Taken
    <3>2. \A b \in Addressed : b <= n /\ b <= batch.ripeBlock => Done(b) \/ b \in appMap'
      BY <1>3, <1>4, <2>0, <2>1, <2>2 DEF Taken
    <3>3. \A b \in Addressed : n < b /\ b <= batch.last =>
            IF b <= batch.ripeBlock THEN b \in ripe' ELSE b \in unripe
      BY <1>3, <1>4, <2>0, <2>2 DEF Taken
    <3>4. /\ \A b \in ripe' : b \in Addressed /\ b <= batch.ripeBlock
          /\ \A b \in unripe : b > batch.ripeBlock
      BY <1>3, <2>0 DEF Taken
    <3> QED BY <1>0, <1>5, <3>1, <3>2, <3>3, <3>4 DEF Taken
  <2>3. CASE IsSnap(cur) \/ Apps(appMap') >= PerChunk
    <3>0. pc' = "index" /\ cur' = cur
      BY <2>0, <2>3
    <3>1. cur \in Addressed
      <4>1. CASE IsSnap(cur)
        BY <1>3, <4>1 DEF Regular, Blocks
      <4>2. CASE Apps(appMap') >= PerChunk
        <5>1. appMap' # appMap
          BY <1>3, <4>2
        <5>2. cur \in ripe
          BY <2>0, <5>1
        <5> QED BY <1>3, <5>2 DEF Taken
      <4> QED BY <2>3, <4>1, <4>2
    <3>2. cr'.last = cur' /\ cr' # Span(0, 0)
      BY <1>3, <2>0, <3>0 DEF ScraperInv, TypeInv, Spans, Span
    <3>3. InRound' /\ ~IsZero'
      BY <3>0, <3>2 DEF InRound, IsZero, Span
    <3>4. RoundInv'
      BY <1>0, <1>1, <3>0, <3>3, RoundStays
    <3>5. Taken(cur)'
      BY <2>2, <3>0
    <3>6. cur' \in batch.first .. batch.last /\ cur' <= batch.ripeBlock
      BY <1>0, <1>2, <1>3, <2>1, <3>0, <3>1
    <3>7. ConsolidateInv'
      BY <1>0, <1>3, <3>0, <3>1, <3>2, <3>3, <3>5, <3>6 DEF ConsolidateInv
    <3> QED BY <3>4, <3>7
  <2>4. CASE ~ (IsSnap(cur) \/ Apps(appMap') >= PerChunk)
    <3>0. pc' = "block" /\ cur' = cur + 1
      BY <1>0, <2>0, <2>4
    <3>1. RoundInv'
      BY <1>0, <1>1, <3>0, RoundStays DEF InRound
    <3>2. Taken(cur - 1)'
      <4>1. cur' - 1 = cur
        BY <1>3, <3>0
      <4> QED BY <2>2, <4>1
    <3>3. cur' \in batch.first .. batch.last + 1 /\ \A r \in blooms : r.last < cur'
      BY <1>0, <1>2, <1>3, <1>4, <3>0
    <3>4. ConsolidateInv'
      BY <1>0, <2>4, <3>0, <3>2, <3>3 DEF ConsolidateInv
    <3> QED BY <3>1, <3>4
  <2> QED BY <2>3, <2>4
<1> QED BY <1>6, <1>7

\* ScrapeBatch has left its files, some of them ripe.
LEMMA ScrapedStep ==
  ASSUME ScraperInv, ScrapeBatchOk, pc' = "stage"
  PROVE  RoundInv' /\ ConsolidateInv'
<1> USE ScraperAssumption DEF disk, memory
<1>0. /\ pc = "scrape" /\ ripe' = RipeFiles /\ unripe' = UnripeFiles
      /\ ~ (batch.first > batch.ripeBlock)
      /\ UNCHANGED <<chunks, blooms, stages, head, meta, batch, cur, appMap, cr, backup>>
  BY DEF ScrapeBatchOk
<1>1. InRound /\ backup = {}
  BY <1>0 DEF InRound, ScraperInv, RoundInv
<1>2. /\ batch.first \in Blocks /\ batch.last \in Blocks /\ batch.first <= batch.last
      /\ batch.ripeBlock \in 0 .. MaxBlock /\ Ripe(batch.ripeBlock)
      /\ meta # NoMeta /\ IsTop(meta)
      /\ \A s \in stages \cup backup : s.last < batch.first
      /\ \A r \in blooms : r.last < batch.first
      /\ \A b \in Addressed : b < batch.first => Done(b) \/ \E s \in stages : b <= s.last
  BY <1>0, <1>1 DEF ScraperInv, RoundInv
<1>3. batch.first <= batch.ripeBlock
  BY <1>0, <1>2 DEF Blocks
<1>4. RoundInv'
  BY <1>0, <1>1, <1>2, <1>3 DEF RoundInv, InRound, IsTop, Ripe, Done
<1>5. ConsolidateInv'
  <2>1. (ripe = RipeFiles /\ unripe = UnripeFiles)'
    BY <1>0 DEF RipeFiles, UnripeFiles
  <2> QED BY <2>1 DEF ConsolidateInv
<1> QED BY <1>4, <1>5

\* A chunk is written in two steps, after which the next one begins.
LEMMA WriteStep ==
  ASSUME ScraperInv, Regular, [Next]_<<vars, restored>>, WriteIndex \/ WriteBloom \/ NextChunk
  PROVE  RoundInv' /\ ConsolidateInv'
<1> USE ScraperAssumption DEF disk, files, memory
<1>0. UNCHANGED <<stages, ripe, unripe, head, batch, backup>>
  BY DEF WriteIndex, WriteBloom, NextChunk
<1>1. ASSUME ~IsZero, pc \in {"index", "bloom", "notify"}
      PROVE  /\ InRound /\ batch.first \in 1 .. MaxBlock /\ batch.last \in 1 .. MaxBlock
             /\ batch.ripeBlock \in 0 .. MaxBlock
             /\ cur \in batch.first .. batch.last /\ cur \in Addressed /\ cur <= batch.ripeBlock
             /\ cr.last = cur /\ Taken(cur)
             /\ \A r \in blooms : r.last < cur \/ (pc = "notify" /\ r.last = cur)
  BY <1>1, RoundIs DEF InRound, ScraperInv, ConsolidateInv
<1>2. ASSUME NEW n, Taken(n), appMap' = appMap, blooms' = blooms \/ blooms' = blooms \cup {cr}
      PROVE  Taken(n)'
  BY <1>0, <1>2 DEF Taken, Done
<1>3. CASE WriteIndex
  <2>0. pc = "index" /\ pc' = "bloom" /\ UNCHANGED <<blooms, meta, cur, appMap, cr>>
    BY <1>3 DEF WriteIndex
  <2> DEFINE new == [first |-> cr.first, last |-> cr.last, has |-> appMap]
  <2>1. new \in chunks' /\ Name(new) = cr /\ new.has = appMap
    BY <1>3, <2>0, AtWrite DEF WriteIndex, Put, Name, Span
  <2>2. (\E c \in chunks : Name(c) = cr /\ c.has = appMap)'
    <3> HIDE DEF new
    <3> QED BY <2>0, <2>1 DEF Name
  <2>3. CASE IsZero
    <3>1. IsZero' /\ ~InRound' /\ ~InRound
      BY <2>0, <2>3 DEF IsZero, InRound
    <3>2. appMap = {0} /\ backup = {} /\ ripe = {} /\ unripe = {}
      BY <2>0, <2>3, <3>1 DEF ScraperInv, ConsolidateInv, RoundInv
    <3> QED BY <1>0, <2>0, <2>2, <3>1, <3>2 DEF RoundInv, ConsolidateInv
  <2>4. CASE ~IsZero
    <3>1. ~IsZero' /\ InRound'
      BY <2>0, <2>4 DEF IsZero, InRound
    <3>2. RoundInv'
      BY <1>0, <1>1, <2>0, <2>4, <3>1, RoundStays
    <3>3. Taken(cur)'
      BY <1>1, <1>2, <2>0, <2>4
    <3>4. ConsolidateInv'
      BY <1>0, <1>1, <2>0, <2>2, <2>4, <3>1, <3>3 DEF ConsolidateInv
    <3> QED BY <3>2, <3>4
  <2> QED BY <2>3, <2>4
<1>4. CASE WriteBloom
  <2>0. /\ pc = "bloom" /\ pc' = "notify" /\ blooms' = blooms \cup {cr}
        /\ UNCHANGED <<meta, cur, appMap, cr>>
    BY <1>4 DEF WriteBloom, Regular
  <2>1. CASE IsZero
    <3>1. IsZero' /\ ~InRound' /\ ~InRound
      BY <2>0, <2>1 DEF IsZero, InRound
    <3>2. appMap = {0} /\ backup = {} /\ ripe = {} /\ unripe = {}
      BY <2>0, <2>1, <3>1 DEF ScraperInv, ConsolidateInv, RoundInv
    <3> QED BY <1>0, <2>0, <3>1, <3>2 DEF RoundInv, ConsolidateInv
  <2>2. CASE ~IsZero
    <3>1. ~IsZero' /\ InRound'
      BY <2>0, <2>2 DEF IsZero, InRound
    <3>2. RoundInv'
      BY <1>0, <1>1, <2>0, <2>2, <3>1, RoundStays
    <3>3. Taken(cur)'
      BY <1>1, <1>2, <2>0, <2>2
    <3>4. \A r \in blooms' : r.last < cur \/ r.last = cur
      BY <1>1, <2>0, <2>2
    <3>5. ConsolidateInv'
      BY <1>0, <1>1, <2>0, <2>2, <3>1, <3>3, <3>4 DEF ConsolidateInv
    <3> QED BY <3>2, <3>5
  <2> QED BY <2>1, <2>2
<1>5. CASE NextChunk
  <2>0. /\ pc = "notify" /\ ~IsZero /\ pc' = "block" /\ blooms' = blooms
        /\ meta' = Finalized \/ meta' = NoMeta
        /\ appMap' = {} /\ cur' = cur + 1
    BY <1>5 DEF NextChunk
  <2>1. /\ cur \in batch.first .. batch.last /\ cur \in Int /\ Taken(cur) /\ cr.last = cur
        /\ InRound /\ InRound'
        /\ \A r \in blooms : (r.last < cur \/ r.last = cur) /\ r.last \in Int
    BY <1>1, <2>0 DEF InRound, ScraperInv, TypeInv, Spans
  <2>2. RoundInv'
    BY <1>0, <2>0, <2>1, RoundStays
  <2>3. cr \in blooms
    BY <2>0 DEF ScraperInv, ConsolidateInv
  <2>4. ASSUME NEW n, n = cur PROVE Taken(n)'
    BY <1>0, <2>0, <2>1, <2>3, <2>4 DEF Taken, Done
  <2>5. Taken(cur - 1)'
    <3>1. cur' - 1 = cur
      BY <2>0, <2>1
    <3> QED BY <2>4, <3>1
  <2>6. cur' \in batch.first .. batch.last + 1 /\ \A r \in blooms : r.last < cur'
    BY <1>1, <2>0, <2>1
  <2>7. ~ (Apps(appMap') >= PerChunk)
    BY <2>0, AppsOfNothing
  <2>8. ConsolidateInv'
    BY <1>0, <2>0, <2>5, <2>6, <2>7 DEF ConsolidateInv
  <2> QED BY <2>2, <2>8
<1> QED BY <1>3, <1>4, <1>5

\* The outside world disturbs nothing.
LEMMA OutsideStep ==
  ASSUME ScraperInv, Regular, [Next]_<<vars, restored>>,
         NewBlock \/ Sigint \/ UNCHANGED <<vars, restored>>
  PROVE  RoundInv' /\ ConsolidateInv'
<1> USE ScraperAssumption DEF vars, disk, files, memory
<1>1. UNCHANGED <<chunks, blooms, stages, ripe, unripe, pc, meta, batch, cur, appMap, cr, backup>>
  BY DEF NewBlock, Sigint
<1>2. InRound' = InRound /\ IsZero' = IsZero
  BY <1>1 DEF InRound, IsZero
<1>3. InRound => Ripe(batch.ripeBlock)'
  <2>1. InRound => batch.ripeBlock \in Int /\ Ripe(batch.ripeBlock)
    BY RoundIs
  <2> QED BY <1>1, <2>1, Lasts DEF Ripe
<1>4. RoundInv'
  BY <1>1, <1>2, <1>3 DEF ScraperInv, RoundInv, IsTop, Done
<1>5. ConsolidateInv'
  BY <1>1, <1>2 DEF ScraperInv, ConsolidateInv, Taken, Done, Name, RipeFiles, UnripeFiles
<1> QED BY <1>4, <1>5

\* Together: the invariant is inductive.
LEMMA InvNext == Regular /\ ScraperInv /\ [Next]_<<vars, restored>> => ScraperInv'
<1> SUFFICES ASSUME Regular, ScraperInv, [Next]_<<vars, restored>> PROVE ScraperInv'
  OBVIOUS
<1>1. RoundInv' /\ ConsolidateInv'
  <2>1. ScrapeBatchOk => pc' \in {"pause", "stage"}
    BY DEF ScrapeBatchOk
  <2> QED BY <2>1, EndStep, BeginStep, ScrapedStep, LoadStep, BlockStep, WriteStep, OutsideStep
          DEF Next, Scrape
<1> QED BY <1>1, TypeStep, ChunkStep, StageStep DEF ScraperInv

\* The whole of it holds in every state of the scraper (HandleScrape, Prepare
\* and Consolidate together).
THEOREM ScraperConsistent == ASSUME Regular PROVE Spec => []ScraperInv
<1>1. Init => ScraperInv
  BY InvInit
<1>2. ScraperInv /\ [Next]_<<vars, restored>> => ScraperInv'
  BY InvNext
<1> QED BY <1>1, <1>2, PTL DEF Spec

-----------------------------------------------------------------------------
(* What the invariant says to those who read the index.                    *)

\* Up to its height the index holds the blocks with appearances, and no others.
LEMMA IndexIsRight ==
  ASSUME ScraperInv
  PROVE  \A b \in Blocks : b \in Indexed <=> b \in Addressed /\ b <= Height
<1> SUFFICES ASSUME NEW b \in Blocks PROVE b \in Indexed <=> b \in Addressed /\ b <= Height
  OBVIOUS
<1>0. b \in 1 .. MaxBlock /\ MaxBlock \in Nat
  BY ScraperAssumption DEF Blocks
<1>1. /\ Height \in 0 .. MaxBlock /\ Finalized \in 0 .. MaxBlock
      /\ Finalized <= Height /\ Staged <= Height
      /\ Height = Finalized \/ (Height = Staged /\ Staged # 0)
  BY HeightIs DEF ScraperInv
<1>2. IsTop(Finalized) /\ \A r \in blooms : r.last \in Int
  BY FinalizedIs DEF ScraperInv, TypeInv, Spans
<1>3. /\ Staged \in 0 .. MaxBlock /\ (Staged = 0 \/ \E s \in stages : s.last = Staged)
      /\ \A s \in stages : s.last <= Staged /\ s.last \in Int
  BY StagedIs DEF ScraperInv, TypeInv, IndexFiles
<1>4. b \in Indexed <=> \/ \E c \in chunks : Name(c) \in blooms /\ b \in c.has
                        \/ \E s \in stages : b \in s.has
  BY DEF Indexed
<1> HIDE DEF Finalized, Staged, Height, Indexed
<1>5. ASSUME b \in Addressed, b <= Height PROVE b \in Indexed
  <2>1. CASE Height = Finalized
    <3>1. Done(b)
      BY <1>0, <1>2, <1>5, <2>1 DEF IsTop, Done
    <3> QED BY <1>4, <1>5, <3>1 DEF ScraperInv, ChunkInv
  <2>2. CASE Height = Staged /\ Staged # 0
    <3>1. PICK s \in stages : s.last = Staged
      BY <1>3, <2>2
    <3>2. Done(b) \/ b \in s.has
      BY <1>5, <2>2, <3>1 DEF ScraperInv, StageInv, StageOk
    <3> QED BY <1>4, <1>5, <3>2 DEF ScraperInv, ChunkInv
  <2> QED BY <1>1, <2>1, <2>2
<1>6. ASSUME NEW c \in chunks, Name(c) \in blooms, b \in c.has
      PROVE  b \in Addressed /\ b <= Height
  <2>1. b \in Addressed /\ b <= c.last
    BY <1>0, <1>6 DEF ScraperInv, ChunkInv
  <2>2. c.last = Name(c).last
    BY DEF Name, Span
  <2>3. c.last <= Finalized /\ c.last \in Int
    BY <1>2, <1>6, <2>2 DEF IsTop
  <2> QED BY <1>0, <1>1, <2>1, <2>3
<1>7. ASSUME NEW s \in stages, b \in s.has
      PROVE  b \in Addressed /\ b <= Height
  <2>1. b \in Addressed /\ b <= s.last
    BY <1>7 DEF ScraperInv, StageInv, StageOk
  <2> QED BY <1>0, <1>1, <1>3, <2>1
<1> QED BY <1>4, <1>5, <1>6, <1>7

\* No kill, interrupt or failure leaves a hole below the height from which the
\* scraper resumes (IndexHeight of GetMetaData against the files of Consolidate).
THEOREM NoHoles == ASSUME Regular PROVE Spec => []NoHole
<1>1. ScraperInv => NoHole
  BY IndexIsRight DEF NoHole, Addressed
<1> QED BY <1>1, ScraperConsistent, PTL

\* An unripe block is never behind the height of the index when the next round
\* is planned, so it is queried again (HandleScrape).
THEOREM UnripeAgain == ASSUME Regular PROVE Spec => []UnripeQueriedAgain
<1>1. ASSUME ScraperInv PROVE UnripeQueriedAgain
  <2> SUFFICES ASSUME NEW b \in Addressed, b + UnripeDist > head PROVE b > Height
    BY DEF UnripeQueriedAgain
  <2>0. b \in Blocks /\ b \in 1 .. MaxBlock /\ head \in Int /\ Height \in 0 .. MaxBlock
    BY <1>1, HeightIs DEF Addressed, Blocks, ScraperInv, TypeInv
  <2>1. ~Ripe(b)
    BY <2>0, ScraperAssumption DEF Ripe
  <2>2. b \notin Indexed
    <3>1. \A c \in chunks : b \notin c.has
      BY <1>1, <2>0, <2>1 DEF ScraperInv, ChunkInv
    <3>2. \A s \in stages : b \notin s.has
      BY <1>1, <2>1 DEF ScraperInv, StageInv, StageOk
    <3> QED BY <3>1, <3>2 DEF Indexed
  <2>3. ~ (b <= Height)
    BY <1>1, <2>0, <2>2, IndexIsRight
  <2> QED BY <2>0, <2>3
<1> QED BY <1>1, ScraperConsistent, PTL

\* The files of the scraper implement IndexLog: what is final never goes back,
\* and what is found is always exact (Finalized and IndexHeight of GetMetaData).
THEOREM Refinement == ASSUME Regular PROVE Spec => ImplementsIndexLog
<1> DEFINE found == Indexed \cap Blocks
           Exact == /\ Log!Promise /\ IsTop(Finalized) /\ Finalized \in Nat
                    /\ Height \in 0 .. MaxBlock /\ Finalized <= Height /\ Staged <= Height
                    /\ Height = Finalized \/ Height = Staged
<1>1. ScraperInv => Exact
  <2> SUFFICES ASSUME ScraperInv PROVE Exact
    OBVIOUS
  <2>1. Addressed \subseteq Blocks
    BY DEF Addressed
  <2>2. found = {b \in Addressed : b <= Height}
    BY <2>1, IndexIsRight
  <2>3. IsTop(Finalized)
    BY FinalizedIs DEF ScraperInv, TypeInv
  <2>4. /\ Height \in 0 .. MaxBlock /\ Finalized \in 0 .. MaxBlock /\ Finalized <= Height
        /\ Staged <= Height /\ (Height = Finalized \/ Height = Staged)
    BY HeightIs DEF ScraperInv
  <2> QED BY <2>2, <2>3, <2>4 DEF Log!Promise
<1>2. Init => Log!Init
  <2> SUFFICES ASSUME Init PROVE Log!Init
    OBVIOUS
  <2>1. ScraperInv /\ blooms = {} /\ stages = {}
    BY InvInit DEF Init
  <2>2. Finalized = 0
    BY <2>1, FinalizedIs DEF ScraperInv, TypeInv, IsTop
  <2>3. Staged = 0
    BY <2>1, StagedIs DEF ScraperInv, TypeInv
  <2>4. Height = 0
    BY <2>1, <2>2, <2>3, HeightIs DEF ScraperInv
  <2> QED BY <1>1, <2>1, <2>2, <2>4 DEF Log!Init
<1>3. Exact /\ Exact' /\ ScraperInv /\ [Next]_<<vars, restored>>
      => [Log!Extend \/ Log!FallBack]_<<Finalized, Height, found>>
  <2> SUFFICES ASSUME Exact, Exact', ScraperInv, [Next]_<<vars, restored>>
               PROVE  Log!Extend \/ Log!FallBack
    OBVIOUS
  <2>1. \/ blooms' = blooms
        \/ stages' = stages /\ blooms \subseteq blooms'
    BY DiskSteps DEF Quiet, PutBack, LoadStage, WriteIndex, WriteBloom, WriteStage, disk
  <2>2. /\ Height \in 0 .. MaxBlock /\ Height' \in 0 .. MaxBlock
        /\ Finalized \in Nat /\ Finalized' \in Nat /\ Finalized <= Height /\ Finalized' <= Height'
        /\ Log!Promise'
    OBVIOUS
  <2>3. CASE blooms' = blooms
    <3>1. Finalized' = Finalized
      BY <2>3 DEF Finalized
    <3>2. CASE Height' >= Height
      BY <2>2, <3>1, <3>2 DEF Log!Extend
    <3>3. CASE ~ (Height' >= Height)
      BY <2>2, <3>1, <3>3 DEF Log!FallBack
    <3> QED BY <3>2, <3>3
  <2>4. CASE stages' = stages /\ blooms \subseteq blooms'
    <3>1. Staged' = Staged
      BY <2>4 DEF Staged
    <3>2. IsTop(Finalized) /\ IsTop(Finalized)' /\ Finalized' >= 0
      BY <2>2
    <3>3. Finalized <= Finalized'
      <4> HIDE DEF Finalized
      <4> QED BY <2>2, <2>4, <3>2 DEF IsTop
    <3>4. Staged' <= Height' /\ (Height = Finalized \/ Height = Staged)
      OBVIOUS
    <3>5. Height <= Height'
      BY <2>2, <3>1, <3>3, <3>4
    <3> QED BY <2>2, <3>3, <3>5 DEF Log!Extend
  <2> QED BY <2>1, <2>3, <2>4
<1> QED BY <1>1, <1>2, <1>3, ScraperConsistent, PTL DEF Spec, ImplementsIndexLog, Log!Spec

-----------------------------------------------------------------------------
(* No overlap, no gap and no appearance twice, unless a stage was restored. *)

\* A chunk may end at l: block zero, a block of the grid, enough appearances
Ends(l) == l = 0 \/ IsSnap(l) \/ \E S \in SUBSET (1 .. l) : Apps(S) >= PerChunk

\* What the names rely on, since a reloaded stage is named after its first
\* appearance: where a chunk may end, either the next block is not empty, or the
\* first that is not is a chunk by itself.  It holds if no block is empty.
NoGaps ==
    \A e \in Blocks \ Addressed, n \in Addressed :
        e < n /\ (\A b \in e .. n - 1 : b \notin Addressed) /\ Ends(e - 1)
            => IsSnap(n) \/ Apps({n}) >= PerChunk

\* The names of the files are unique, the chunk of block zero comes first
OrderInv ==
    /\ blooms = {} \/ NoSpan \in blooms
    /\ InRound \/ pc \in {"loop", "commit", "pause"} => NoSpan \in blooms
    /\ pc \in {"index", "bloom"} /\ IsZero => blooms = {}
    /\ pc = "notify" /\ IsZero => blooms = {NoSpan}
    /\ \A c, d \in chunks : Name(c) = Name(d) => c = d
    /\ \A r \in blooms : Ends(r.last)
    /\ pc \in {"index", "bloom"} /\ ~IsZero => Ends(cr.last)

\* The appearances in S begin right behind the final part of the index
Follows(S) == \E f \in 0 .. MaxBlock : IsTop(f) /\ f + 1 \in S /\ \A b \in S : f < b
InChunk(s) == \E c \in chunks : Name(c) \in blooms /\ s.has \cap c.has # {}
Consolidating == pc = "block" \/ (pc \in {"index", "bloom"} /\ ~IsZero)

SpansInv ==
    \A r, u \in blooms : r.last < u.last =>
        \E t \in blooms : t.first = r.last + 1
            /\ \A v \in blooms : v.last > r.last => v.first > r.last
DisjointInv ==
    \A c, d \in chunks :
        Name(c) \in blooms /\ Name(d) \in blooms /\ c # d => c.has \cap d.has = {}
SingleInv ==
    /\ \A s, t \in stages : s = t
    /\ \A s \in stages : Follows(s.has)
    /\ Consolidating \/ (pc = "notify" /\ ~IsZero) => stages = {}
HeldInv ==
    /\ Consolidating => IsTop(cr.first - 1) /\ \A b \in appMap, r \in blooms : r.last < b
    /\ pc = "block" /\ appMap # {} => Follows(appMap)
BackupInv ==
    \A s \in backup :
        \/ InChunk(s)
        \/ Consolidating /\ s.has \subseteq appMap /\ Follows(s.has)
        \/ pc = "commit" /\ \E t \in stages : s.has \cap t.has # {}

OverlapInv == SpansInv /\ DisjointInv /\ SingleInv /\ HeldInv /\ BackupInv

-----------------------------------------------------------------------------
\* Names stay unique and block zero stays first.
LEMMA OrderStep ==
  ASSUME ScraperInv, OrderInv, Regular, [Next]_<<vars, restored>>
  PROVE  OrderInv'
<1> USE ScraperAssumption DEF vars, disk, files, memory, Exit, Forget
<1>0. blooms \subseteq blooms' /\ cr \in Spans /\ NoSpan = Span(0, 0)
  BY Lasts DEF ScraperInv, TypeInv, NoSpan
<1>1. \A c, d \in chunks' : Name(c) = Name(d) => c = d
  <2>1. CASE WriteIndex
    BY <2>1 DEF WriteIndex, Put, OrderInv
  <2>2. CASE ~WriteIndex
    <3>1. chunks' \subseteq chunks
      BY <2>2, DiskSteps DEF Quiet, PutBack, LoadStage, WriteBloom, WriteStage
    <3> QED BY <3>1 DEF OrderInv
  <2> QED BY <2>1, <2>2
<1>2. CASE WriteBloom
  <2>1. /\ pc = "bloom" /\ pc' = "notify" /\ blooms' = blooms \cup {cr} /\ cr' = cr
    BY <1>2 DEF WriteBloom, Regular
  <2>2. CASE IsZero
    <3>1. blooms' = {NoSpan} /\ IsZero'
      BY <1>0, <2>1, <2>2 DEF OrderInv, IsZero
    <3>2. NoSpan.last = 0
      BY DEF NoSpan, Span
    <3> QED BY <1>1, <2>1, <3>1, <3>2 DEF OrderInv, InRound, Ends
  <2>3. CASE ~IsZero
    <3>1. NoSpan \in blooms' /\ ~IsZero' /\ Ends(cr.last)
      BY <1>0, <2>1, <2>3 DEF OrderInv, IsZero, InRound
    <3> QED BY <1>1, <2>1, <3>1 DEF OrderInv, InRound, Ends
  <2> QED BY <2>2, <2>3
<1>3. CASE ~WriteBloom
  <2>0. blooms' = blooms
    BY <1>3, DiskSteps DEF Quiet, PutBack, LoadStage, WriteIndex, WriteStage
  <2>1. /\ blooms' = {} \/ NoSpan \in blooms'
        /\ \A r \in blooms' : Ends(r.last)
    BY <2>0 DEF OrderInv
  <2>2. ASSUME pc' = "off" PROVE OrderInv'
    BY <1>1, <2>1, <2>2 DEF OrderInv, InRound, Ends
  <2>3. CASE Start
    <3>1. \/ (pc' = "loop" /\ Span(0, 0) \in blooms)
          \/ (pc' = "index" /\ cr' = Span(0, 0) /\ Span(0, 0) \notin blooms)
      BY <2>3 DEF Start
    <3> QED BY <1>0, <1>1, <2>0, <2>1, <3>1 DEF OrderInv, InRound, IsZero, Ends
  <2>4. CASE \/ Interrupted \/ ScrapeBatchCancelled \/ WriteFails \/ Crash \/ RunCountReached
             \/ PauseInterrupted \/ NilMeta
    BY <2>2, <2>4 DEF Interrupted, ScrapeBatchCancelled, WriteFails, Crash, RunCountReached,
        PauseInterrupted, NilMeta, Die
  <2>5. ASSUME pc' \notin {"off", "index", "bloom", "notify"}, NoSpan \in blooms PROVE OrderInv'
    BY <1>1, <2>0, <2>1, <2>5 DEF OrderInv, InRound, Ends
  <2>6. ASSUME pc \in {"loop", "scrape", "stage", "block", "commit", "pause"} PROVE NoSpan \in blooms
    BY <2>6 DEF OrderInv, InRound
  <2>7. CASE \/ NothingToDo \/ BeginRound \/ ScrapeBatchOk \/ ScrapeBatchFails \/ TimestampsFail
             \/ LoadStage \/ BackupFails \/ SkipUnripe \/ NoStage \/ WriteStage \/ Pause
    BY <2>5, <2>6, <2>7 DEF NothingToDo, BeginRound, ScrapeBatchOk, ScrapeBatchFails, TimestampsFail,
        LoadStage, BackupFails, SkipUnripe, NoStage, WriteStage, Pause, AtBlock, AtEnd
  <2>8. CASE CancelledInLoop \/ MissingRipe \/ StageNotWritten \/ NotifyStageFails \/ Commit
    BY <2>2, <2>5, <2>6, <2>8 DEF CancelledInLoop, MissingRipe, StageNotWritten, NotifyStageFails,
        Commit, Abandon, AtBlock, AtEnd
  <2>9. CASE NotifyChunkFails \/ NextChunk \/ BlockZeroDone
    <3>1. NoSpan \in blooms
      BY <2>9 DEF NotifyChunkFails, NextChunk, BlockZeroDone, OrderInv, InRound
    <3> QED BY <2>2, <2>5, <2>9, <3>1 DEF NotifyChunkFails, NextChunk, BlockZeroDone, Abandon, Die
  <2>10. CASE WriteIndex
    <3>1. pc = "index" /\ pc' = "bloom" /\ cr' = cr
      BY <2>10 DEF WriteIndex
    <3> QED BY <1>1, <2>0, <2>1, <3>1 DEF OrderInv, InRound, IsZero, Ends
  <2>11. CASE ConsolidateBlock
    <3>1. /\ pc = "block" /\ NoSpan \in blooms /\ cr' = [cr EXCEPT !.last = cur] /\ cur \in 1 .. MaxBlock + 1
          /\ appMap' = appMap \cup ({cur} \cap ripe)
          /\ \/ pc' = "block"
             \/ pc' = "index" /\ (IsSnap(cur) \/ Apps(appMap') >= PerChunk)
      BY <2>6, <2>11, CurIs DEF ConsolidateBlock, AtBlock
    <3>2. CASE pc' = "block"
      BY <2>5, <3>1, <3>2
    <3>3. CASE pc' = "index" /\ (IsSnap(cur) \/ Apps(appMap') >= PerChunk)
      <4>1. cr'.last = cur /\ ~IsZero'
        BY <1>0, <3>1 DEF Spans, IsZero, Span
      <4>2. appMap' \subseteq 1 .. cur
        <5>1. \A b \in appMap : b \in Addressed /\ b <= cur - 1
          BY <3>1 DEF ScraperInv, ConsolidateInv, Taken
        <5> QED BY <3>1, <5>1 DEF Addressed, Blocks
      <4>3. Ends(cr'.last)
        BY <3>3, <4>1, <4>2 DEF Ends
      <4> QED BY <1>1, <2>0, <2>1, <3>1, <3>3, <4>1, <4>3 DEF OrderInv, InRound, Ends
    <3> QED BY <3>1, <3>2, <3>3
  <2>12. CASE NewBlock \/ Sigint \/ UNCHANGED <<vars, restored>>
    <3>1. UNCHANGED <<pc, cr>>
      BY <2>12 DEF NewBlock, Sigint
    <3> QED BY <1>1, <2>0, <2>1, <3>1 DEF OrderInv, InRound, IsZero, Ends
  <2> QED BY <1>3, <2>3, <2>4, <2>7, <2>8, <2>9, <2>10, <2>11, <2>12 DEF Next, Scrape
<1> QED BY <1>2, <1>3

\* What a step is to the files that may overlap.
Rest ==
    /\ UNCHANGED disk
    /\ pc' \in {"off", "loop", "scrape", "stage", "pause"} \/ (pc' = "index" /\ IsZero')
Same == UNCHANGED <<disk, pc, appMap, cr, backup>>

\* Every step rests, does the same or is one of the steps of a consolidation.
LEMMA Kinds ==
  ASSUME [Next]_<<vars, restored>>
  PROVE  \/ Rest \/ Same \/ LoadStage \/ ConsolidateBlock \/ WriteIndex \/ WriteBloom
         \/ NextChunk \/ NoStage \/ WriteStage
         \/ (PutBack /\ pc \in {"block", "index", "bloom", "notify", "commit"})
<1> USE DEF vars, disk, files, memory, Exit, Forget
<1>1. ASSUME Start PROVE Rest
  BY <1>1 DEF Start, Rest, IsZero
<1>2. ASSUME Interrupted \/ NothingToDo \/ BeginRound \/ ScrapeBatchOk \/ ScrapeBatchFails
      PROVE  Rest
  BY <1>2 DEF Interrupted, NothingToDo, BeginRound, ScrapeBatchOk, ScrapeBatchFails, Rest
<1>3. ASSUME TimestampsFail \/ ScrapeBatchCancelled \/ BackupFails \/ BlockZeroDone \/ Commit
      PROVE  Rest
  BY <1>3 DEF TimestampsFail, ScrapeBatchCancelled, BackupFails, BlockZeroDone, Commit, Rest
<1>4. ASSUME RunCountReached \/ PauseInterrupted \/ Pause \/ Crash PROVE Rest
  BY <1>4 DEF RunCountReached, PauseInterrupted, Pause, Crash, Rest
<1>5. ASSUME NewBlock \/ Sigint \/ SkipUnripe \/ UNCHANGED <<vars, restored>> PROVE Same
  BY <1>5 DEF NewBlock, Sigint, SkipUnripe, Same
<1>6. ASSUME CancelledInLoop \/ MissingRipe \/ WriteFails \/ NotifyChunkFails
             \/ StageNotWritten \/ NilMeta \/ NotifyStageFails
      PROVE  PutBack /\ pc \in {"block", "index", "bloom", "notify", "commit"}
  BY <1>6 DEF CancelledInLoop, MissingRipe, WriteFails, NotifyChunkFails, StageNotWritten, NilMeta,
      NotifyStageFails, Abandon, Die, PutBack, AtBlock, AtEnd
<1> QED BY <1>1, <1>2, <1>3, <1>4, <1>5, <1>6 DEF Next, Scrape

-----------------------------------------------------------------------------
(* Each kind of step keeps OverlapInv.                                     *)

\* What a step that leaves the blooms alone leaves as it is.
LEMMA SameTop ==
  ASSUME blooms' = blooms
  PROVE  (\A n : IsTop(n) <=> IsTop(n)') /\ \A S : Follows(S) <=> Follows(S)'
BY DEF IsTop, Follows

\* The numbers in the blooms.
LEMMA Bounds ==
  ASSUME ScraperInv
  PROVE  /\ MaxBlock \in Nat /\ \A r \in blooms : r.last \in 0 .. MaxBlock /\ r.first \in 0 .. MaxBlock + 1
         /\ \A s \in stages \cup backup : s \in IndexFiles /\ s.last \in s.has
<1>1. \A r \in blooms : r.last \in 0 .. MaxBlock + 1 /\ r.last <= MaxBlock /\ r.first \in 0 .. MaxBlock + 1
  BY DEF ScraperInv, TypeInv, ChunkInv, Spans
<1>2. \A s \in stages \cup backup : s \in IndexFiles /\ s.last \in s.has
  BY DEF ScraperInv, TypeInv, StageInv, StageOk
<1> QED BY <1>1, <1>2, ScraperAssumption

\* Steps outside of the consolidation, which touch no chunk and no stage.
LEMMA RestKeeps ==
  ASSUME ScraperInv, ScraperInv', OverlapInv, Rest
  PROVE  OverlapInv'
<1>1. UNCHANGED <<chunks, blooms, stages>>
  BY DEF Rest, disk
<1>2. SpansInv' /\ DisjointInv'
  BY <1>1 DEF OverlapInv, SpansInv, DisjointInv
<1>3. ~Consolidating' /\ ~ (pc = "notify" /\ ~IsZero)' /\ pc' # "block"
  BY DEF Rest, Consolidating
<1>4. SingleInv'
  BY <1>1, <1>3, SameTop DEF OverlapInv, SingleInv
<1>5. backup' = {}
  <2>1. pc' = "index" /\ IsZero' => ~InRound'
    BY DEF InRound
  <2> QED BY <2>1 DEF Rest, ScraperInv, RoundInv
<1> QED BY <1>2, <1>3, <1>4, <1>5 DEF OverlapInv, HeldInv, BackupInv

\* Steps that touch nothing which the invariant speaks of.
LEMMA SameKeeps ==
  ASSUME OverlapInv, Same
  PROVE  OverlapInv'
<1>1. UNCHANGED <<chunks, blooms, stages, pc, appMap, cr, backup>>
  BY DEF Same, disk
<1>2. /\ IsZero' = IsZero /\ Consolidating' = Consolidating
      /\ \A s : InChunk(s) <=> InChunk(s)'
  BY <1>1 DEF IsZero, Consolidating, InChunk
<1>3. SpansInv' /\ DisjointInv'
  BY <1>1 DEF OverlapInv, SpansInv, DisjointInv
<1>4. SingleInv' /\ HeldInv'
  BY <1>1, <1>2, SameTop DEF OverlapInv, SingleInv, HeldInv
<1>5. BackupInv'
  BY <1>1, <1>2, SameTop DEF OverlapInv, BackupInv
<1> QED BY <1>3, <1>4, <1>5 DEF OverlapInv

\* The stage that is loaded is the only one, and begins behind the last chunk.
LEMMA LoadKeeps ==
  ASSUME ScraperInv, OverlapInv, LoadStage
  PROVE  OverlapInv'
<1> USE ScraperAssumption DEF disk, files, memory
<1>0. /\ pc = "stage" /\ pc' = "block" /\ backup' = LatestStages /\ stages' = stages \ LatestStages
      /\ appMap' = UNION {s.has : s \in LatestStages}
      /\ cr' = IF LatestStages = {} THEN Span(meta + 1, batch.first) ELSE Span(Min(appMap'), Max(appMap'))
      /\ UNCHANGED <<chunks, blooms>>
  BY DEF LoadStage
<1>1. SpansInv' /\ DisjointInv'
  BY <1>0 DEF OverlapInv, SpansInv, DisjointInv
<1>2. meta \in 0 .. MaxBlock /\ IsTop(meta)
  <2>1. InRound /\ meta # NoMeta
    BY <1>0 DEF InRound, ScraperInv, RoundInv
  <2> QED BY <1>0, <2>1, RoundIs
<1>3. CASE stages = {}
  <2>1. LatestStages = {}
    BY <1>3 DEF LatestStages
  <2>2. stages' = {} /\ appMap' = {} /\ backup' = {} /\ cr'.first - 1 = meta
    BY <1>0, <1>2, <1>3, <2>1 DEF Span
  <2>3. PICK m : m = meta
    OBVIOUS
  <2>4. IsTop(m)' /\ cr'.first - 1 = m
    BY <1>0, <1>2, <2>2, <2>3, SameTop
  <2> QED BY <1>1, <2>2, <2>4 DEF OverlapInv, SingleInv, HeldInv, BackupInv
<1>4. CASE stages # {}
  <2>1. PICK s \in stages : LatestStages = {s}
    BY <1>4, LatestIs DEF ScraperInv
  <2>2. stages = {s} /\ Follows(s.has)
    BY <2>1 DEF OverlapInv, SingleInv
  <2>3. stages' = {} /\ appMap' = s.has /\ backup' = {s} /\ cr' = Span(Min(s.has), Max(s.has))
    BY <1>0, <2>1, <2>2
  <2>4. PICK f \in 0 .. MaxBlock : IsTop(f) /\ f + 1 \in s.has /\ \A b \in s.has : f < b
    BY <2>2 DEF Follows
  <2>5. Min(s.has) = f + 1
    <3>1. s.has \in SUBSET (0 .. MaxBlock) /\ s.has # {} /\ MaxBlock \in Nat
      BY <2>4, Bounds DEF IndexFiles
    <3>2. Min(s.has) \in s.has /\ Min(s.has) <= f + 1
      BY <2>4, <3>1, MinIs
    <3> HIDE DEF Min
    <3>3. f < Min(s.has) /\ Min(s.has) \in Int
      BY <2>4, <3>1, <3>2
    <3> QED BY <3>2, <3>3
  <2>6. cr'.first - 1 = f /\ IsTop(f)'
    BY <1>0, <2>3, <2>4, <2>5, SameTop DEF Span
  <2>7. Follows(appMap)' /\ Follows(s.has)'
    BY <1>0, <2>2, <2>3, SameTop
  <2>8. \A b \in appMap', r \in blooms' : r.last < b
    <3>1. \A b \in s.has : b \in Int
      BY Bounds DEF IndexFiles
    <3> QED BY <1>0, <2>3, <2>4, <3>1, Bounds DEF IsTop
  <2>9. Consolidating'
    BY <1>0 DEF Consolidating
  <2>10. BackupInv'
    BY <2>3, <2>7, <2>9 DEF BackupInv
  <2>11. SingleInv' /\ HeldInv'
    BY <1>0, <2>3, <2>6, <2>7, <2>8 DEF SingleInv, HeldInv
  <2> QED BY <1>1, <2>10, <2>11 DEF OverlapInv
<1> QED BY <1>3, <1>4

\* A block is added behind what was there; the first one is the next after the
\* chunks, or makes a chunk at once.
LEMMA BlockKeeps ==
  ASSUME ScraperInv, OrderInv, OverlapInv, NoGaps, ConsolidateBlock
  PROVE  OverlapInv'
<1> USE ScraperAssumption DEF disk, files, memory
<1>0. /\ pc = "block" /\ pc' \in {"block", "index"} /\ cr' = [cr EXCEPT !.last = cur]
      /\ appMap' = appMap \cup ({cur} \cap ripe)
      /\ IsSnap(cur) \/ Apps(appMap') >= PerChunk => pc' = "index"
      /\ UNCHANGED <<chunks, blooms, stages, backup>>
  BY DEF ConsolidateBlock, AtBlock
<1>1. SpansInv' /\ DisjointInv'
  BY <1>0 DEF OverlapInv, SpansInv, DisjointInv
<1>2. /\ Consolidating /\ stages = {} /\ IsTop(cr.first - 1)
      /\ \A b \in appMap, r \in blooms : r.last < b
      /\ appMap # {} => Follows(appMap)
  BY <1>0 DEF OverlapInv, SingleInv, HeldInv, Consolidating
<1>3. /\ cur \in 1 .. MaxBlock + 1 /\ MaxBlock \in Nat /\ Taken(cur - 1)
      /\ \A r \in blooms : r.last < cur /\ r.last \in 0 .. MaxBlock
      /\ cr \in Spans /\ batch.ripeBlock \in Int
  <2>1. InRound
    BY <1>0 DEF InRound
  <2> QED BY <1>0, <2>1, CurIs, RoundIs, Bounds DEF ScraperInv, TypeInv, ConsolidateInv
<1>4. cr'.first = cr.first /\ cr.first \in 0 .. MaxBlock + 1 /\ cr'.last = cur
  BY <1>0, <1>3 DEF Spans
<1>5. Consolidating'
  BY <1>0, <1>3, <1>4 DEF Consolidating, IsZero, Span
<1>n. PICK top : top = cr.first - 1
  OBVIOUS
<1>6. /\ IsTop(top) /\ IsTop(top)' /\ cr'.first - 1 = top /\ top \in Int
      /\ \A b \in appMap', r \in blooms' : r.last < b
  BY <1>0, <1>2, <1>3, <1>4, <1>n, SameTop
<1>7. ASSUME pc' = "block", appMap' # {} PROVE Follows(appMap)'
  <2>1. CASE appMap # {}
    <3>1. PICK f \in 0 .. MaxBlock : IsTop(f) /\ f + 1 \in appMap /\ \A b \in appMap : f < b
      BY <1>2, <2>1 DEF Follows
    <3>2. f < cur
      BY <1>3, <3>1 DEF IsTop
    <3>3. f + 1 \in appMap' /\ \A b \in appMap' : f < b
      BY <1>0, <3>1, <3>2
    <3>4. IsTop(f)'
      BY <1>0, <3>1, SameTop
    <3> QED BY <3>3, <3>4 DEF Follows
  <2>2. CASE appMap = {}
    <3>1. cur \in ripe /\ appMap' = {cur}
      BY <1>0, <1>7, <2>2
    <3>2. PICK f \in Int : f = top
      BY <1>6
    <3>3. f \in 0 .. MaxBlock /\ f < cur
      BY <1>3, <1>6, <3>2 DEF IsTop
    <3>4. cur \in Addressed /\ cur <= batch.ripeBlock /\ cur \in 1 .. MaxBlock
      BY <1>3, <3>1 DEF Taken, Addressed, Blocks
    <3>5. ASSUME f + 1 # cur PROVE FALSE
      <4>1. ASSUME NEW b \in (f + 1) .. (cur - 1), b \in Addressed PROVE FALSE
        <5>1. Done(b)
          BY <1>3, <2>2, <3>3, <3>4, <4>1 DEF Taken
        <5> QED BY <1>3, <1>6, <3>2, <3>3, <4>1, <5>1 DEF IsTop, Done
      <4>2. f + 1 \in Blocks \ Addressed /\ f + 1 < cur
        <5>1. f + 1 \in 1 .. MaxBlock /\ f + 1 \in (f + 1) .. (cur - 1)
          BY <3>3, <3>4, <3>5
        <5> QED BY <3>3, <3>4, <3>5, <4>1, <5>1 DEF Blocks
      <4>3. Ends((f + 1) - 1)
        <5>1. Ends(f)
          BY <1>6, <3>2 DEF IsTop, OrderInv, Ends
        <5>2. (f + 1) - 1 = f
          BY <3>3
        <5> QED BY <5>1, <5>2
      <4>4. IsSnap(cur) \/ Apps({cur}) >= PerChunk
        BY <3>4, <4>1, <4>2, <4>3 DEF NoGaps
      <4> QED BY <1>0, <1>7, <3>1, <4>4
    <3>6. f + 1 \in appMap' /\ \A b \in appMap' : f < b
      BY <3>1, <3>3, <3>5
    <3>7. IsTop(f)'
      BY <1>6, <3>2
    <3> QED BY <3>3, <3>6, <3>7 DEF Follows
  <2> QED BY <2>1, <2>2
<1>8. SingleInv' /\ HeldInv'
  BY <1>0, <1>2, <1>6, <1>7 DEF SingleInv, HeldInv
<1>9. BackupInv'
  <2> SUFFICES ASSUME NEW s \in backup
               PROVE  InChunk(s)' \/ (s.has \subseteq appMap' /\ Follows(s.has)')
    BY <1>0, <1>5 DEF BackupInv
  <2>1. InChunk(s) \/ (s.has \subseteq appMap /\ Follows(s.has))
    BY <1>0 DEF OverlapInv, BackupInv
  <2>2. InChunk(s) => InChunk(s)'
    BY <1>0 DEF InChunk
  <2> QED BY <1>0, <2>1, <2>2, SameTop
<1> QED BY <1>1, <1>8, <1>9 DEF OverlapInv

\* A chunk's index file cannot be found before its bloom is there.
LEMMA IndexKeeps ==
  ASSUME ScraperInv, OrderInv, OverlapInv, WriteIndex
  PROVE  OverlapInv'
<1> USE ScraperAssumption DEF disk, files, memory
<1> DEFINE new == [first |-> cr.first, last |-> cr.last, has |-> appMap]
<1>0. /\ pc = "index" /\ pc' = "bloom" /\ chunks' = {c \in chunks : Name(c) # Name(new)} \cup {new}
      /\ UNCHANGED <<blooms, stages, appMap, cr, backup>>
  BY DEF WriteIndex, Put
<1>1. Name(new) = cr /\ cr \notin blooms
  <2>1. cr = Span(cr.first, cr.last) /\ (IsZero \/ \A r \in blooms : r.last < cr.last)
    BY <1>0, AtWrite
  <2>2. \A r \in blooms : r.last \in Int
    BY Bounds
  <2>3. IsZero => blooms = {}
    BY <1>0 DEF OrderInv
  <2> QED BY <2>1, <2>2, <2>3 DEF Name
<1>2. \A c \in chunks' : Name(c) \in blooms => c \in chunks
  BY <1>0, <1>1
<1>3. \A c \in chunks : Name(c) \in blooms => c \in chunks'
  BY <1>0, <1>1
<1> HIDE DEF new
<1>4. SpansInv' /\ DisjointInv'
  BY <1>0, <1>2 DEF OverlapInv, SpansInv, DisjointInv
<1>5. IsZero' = IsZero /\ Consolidating' = Consolidating
  BY <1>0 DEF IsZero, Consolidating
<1>n. PICK top : top = cr.first - 1
  OBVIOUS
<1>6. SingleInv' /\ HeldInv'
  <2>1. Consolidating => IsTop(top)'
    BY <1>0, <1>n, SameTop DEF OverlapInv, HeldInv
  <2> QED BY <1>0, <1>5, <1>n, <2>1, SameTop DEF OverlapInv, SingleInv, HeldInv
<1>7. BackupInv'
  <2>1. \A s : InChunk(s) => InChunk(s)'
    BY <1>0, <1>3 DEF InChunk
  <2> QED BY <1>0, <1>5, <2>1, SameTop DEF OverlapInv, BackupInv
<1> QED BY <1>4, <1>6, <1>7 DEF OverlapInv

\* The new chunk begins behind all others, and so do its appearances.
LEMMA BloomKeeps ==
  ASSUME ScraperInv, OrderInv, OverlapInv, Regular, WriteBloom
  PROVE  OverlapInv'
<1> USE ScraperAssumption DEF disk, files, memory
<1>0. /\ pc = "bloom" /\ pc' = "notify" /\ blooms' = blooms \cup {cr}
      /\ UNCHANGED <<chunks, stages, appMap, cr, backup>>
  BY DEF WriteBloom, Regular
<1>1. /\ MaxBlock \in Nat /\ \A r \in blooms : r.last \in 0 .. MaxBlock /\ r.first \in 0 .. MaxBlock + 1
      /\ cr.first \in 0 .. MaxBlock + 1 /\ cr.last \in 0 .. MaxBlock
      /\ IsZero \/ \A r \in blooms : r.last < cr.last
      /\ IsZero => blooms = {} /\ cr = Span(0, 0)
  BY <1>0, Bounds, AtWrite DEF OrderInv, IsZero
<1>2. ~IsZero => /\ IsTop(cr.first - 1) /\ stages = {}
                 /\ \A b \in appMap, r \in blooms : r.last < b
  BY <1>0 DEF OverlapInv, SingleInv, HeldInv, Consolidating
<1>3. IsZero' = IsZero /\ ~Consolidating'
  BY <1>0 DEF IsZero, Consolidating
<1>4. SpansInv'
  <2>1. CASE IsZero
    BY <1>0, <1>1, <2>1 DEF SpansInv
  <2>2. CASE ~IsZero
    <3> SUFFICES ASSUME NEW r \in blooms', NEW u \in blooms', r.last < u.last
                 PROVE  \E t \in blooms' : t.first = r.last + 1
                            /\ \A v \in blooms' : v.last > r.last => v.first > r.last
      BY DEF SpansInv
    <3>0. r \in blooms /\ IsTop(cr.first - 1) /\ r.last \in 0 .. MaxBlock /\ r.last <= cr.first - 1
      BY <1>0, <1>1, <1>2, <2>2 DEF IsTop
    <3>1. CASE r.last = cr.first - 1
      <4>1. cr \in blooms' /\ cr.first = r.last + 1
        BY <1>0, <1>1, <3>0, <3>1
      <4>2. \A v \in blooms' : v.last > r.last => v.first > r.last
        BY <1>0, <1>1, <3>0, <3>1 DEF IsTop
      <4> QED BY <4>1, <4>2
    <3>2. CASE r.last # cr.first - 1
      <4>1. PICK w \in blooms : w.last = cr.first - 1
        BY <1>1, <3>0, <3>2 DEF IsTop
      <4>2. r.last < w.last
        BY <1>1, <3>0, <3>2, <4>1
      <4>3. PICK t \in blooms : t.first = r.last + 1
                 /\ \A v \in blooms : v.last > r.last => v.first > r.last
        BY <3>0, <4>2 DEF OverlapInv, SpansInv
      <4>4. cr.first > r.last
        BY <1>1, <3>0
      <4> QED BY <1>0, <4>3, <4>4
    <3> QED BY <3>1, <3>2
  <2> QED BY <2>1, <2>2
<1>5. \A c \in chunks : Name(c) = cr => c.has = appMap
  BY <1>0 DEF ScraperInv, ConsolidateInv, OrderInv
<1>6. \A c \in chunks, d \in chunks : Name(c) = cr /\ Name(d) \in blooms => c.has \cap d.has = {}
  <2> SUFFICES ASSUME NEW c \in chunks, NEW d \in chunks, Name(c) = cr, Name(d) \in blooms,
                      NEW b \in c.has, b \in d.has
               PROVE  FALSE
    OBVIOUS
  <2>1. ~IsZero
    BY <1>1
  <2>2. Name(d).last < b
    BY <1>2, <1>5, <2>1
  <2>3. b <= d.last /\ b \in Int /\ d.last \in Int
    BY DEF ScraperInv, ChunkInv, TypeInv, IndexFiles
  <2> QED BY <2>2, <2>3 DEF Name, Span
<1>7. DisjointInv'
  <2> SUFFICES ASSUME NEW c \in chunks, NEW d \in chunks, Name(c) \in blooms \cup {cr},
                      Name(d) \in blooms \cup {cr}, c # d
               PROVE  c.has \cap d.has = {}
    BY <1>0 DEF DisjointInv, Name
  <2>1. ~ (Name(c) = cr /\ Name(d) = cr)
    BY DEF OrderInv
  <2> QED BY <1>6, <2>1 DEF OverlapInv, DisjointInv
<1>8. SingleInv'
  <2>1. CASE ~IsZero
    BY <1>0, <1>2, <1>3, <2>1 DEF SingleInv
  <2>2. CASE IsZero
    <3>1. blooms' = {Span(0, 0)} /\ Span(0, 0).last = 0
      BY <1>0, <1>1, <2>2 DEF Span
    <3>2. \A n : IsTop(n) => IsTop(n)'
      BY <1>1, <2>2, <3>1 DEF IsTop
    <3>3. \A S : Follows(S) => Follows(S)'
      BY <3>2 DEF Follows
    <3> QED BY <1>0, <1>3, <2>2, <3>3 DEF OverlapInv, SingleInv
  <2> QED BY <2>1, <2>2
<1>9. BackupInv'
  <2> SUFFICES ASSUME NEW s \in backup PROVE InChunk(s)'
    BY <1>0 DEF BackupInv
  <2>1. InChunk(s) \/ s.has \subseteq appMap
    BY <1>0 DEF OverlapInv, BackupInv
  <2>2. InChunk(s) => InChunk(s)'
    BY <1>0 DEF InChunk, Name
  <2>3. s.last \in s.has
    BY Bounds
  <2>4. PICK c \in chunks : Name(c) = cr
    BY <1>0 DEF ScraperInv, ConsolidateInv
  <2>5. s.has \subseteq appMap => InChunk(s)'
    BY <1>0, <1>5, <2>3, <2>4 DEF InChunk, Name
  <2> QED BY <2>1, <2>2, <2>5
<1> QED BY <1>0, <1>3, <1>4, <1>7, <1>8, <1>9 DEF OverlapInv, HeldInv

\* The next chunk begins where this one ends.
LEMMA NextKeeps ==
  ASSUME ScraperInv, OverlapInv, NextChunk
  PROVE  OverlapInv'
<1> USE ScraperAssumption DEF disk, files, memory
<1>0. /\ pc = "notify" /\ ~IsZero /\ pc' = "block" /\ appMap' = {} /\ cr' = Span(cr.last + 1, cr.last + 1)
      /\ UNCHANGED <<chunks, blooms, stages, backup>>
  BY DEF NextChunk
<1>1. SpansInv' /\ DisjointInv'
  BY <1>0 DEF OverlapInv, SpansInv, DisjointInv
<1>2. stages' = {}
  BY <1>0 DEF OverlapInv, SingleInv
<1>3. cr.last = cur /\ cr \in blooms /\ cur \in 1 .. MaxBlock /\ \A r \in blooms : r.last < cur \/ r.last = cur
  BY <1>0, CurIs DEF ScraperInv, ConsolidateInv
<1>n. PICK top : top = cr.last
  OBVIOUS
<1>4. IsTop(top)
  BY <1>3, <1>n, Bounds DEF IsTop
<1>5. IsTop(top)' /\ cr'.first - 1 = top
  BY <1>0, <1>3, <1>4, <1>n, SameTop DEF Span
<1>6. BackupInv'
  <2>1. \A s : InChunk(s) => InChunk(s)'
    BY <1>0 DEF InChunk, Name
  <2> QED BY <1>0, <2>1 DEF OverlapInv, BackupInv, Consolidating
<1> QED BY <1>0, <1>1, <1>2, <1>5, <1>6 DEF OverlapInv, SingleInv, HeldInv

\* What is left becomes the one stage, or there is none.
LEMMA StageKeeps ==
  ASSUME ScraperInv, OverlapInv, NoStage \/ WriteStage
  PROVE  OverlapInv'
<1> USE ScraperAssumption DEF disk, files, memory
<1>0. /\ pc = "block" /\ pc' = "commit" /\ Consolidating
      /\ UNCHANGED <<chunks, blooms, appMap, backup>>
  BY DEF NoStage, WriteStage, AtEnd, Consolidating
<1>1. SpansInv' /\ DisjointInv'
  BY <1>0 DEF OverlapInv, SpansInv, DisjointInv
<1>2. stages = {} /\ (appMap # {} => Follows(appMap))
  BY <1>0 DEF OverlapInv, SingleInv, HeldInv
<1>3. ~Consolidating' /\ pc' # "notify" /\ pc' # "block"
  BY <1>0 DEF Consolidating
<1>4. \A s \in backup : s.has # {} /\ (InChunk(s) \/ s.has \subseteq appMap)
  BY <1>0, Bounds DEF OverlapInv, BackupInv
<1>5. \A s : InChunk(s) => InChunk(s)'
  BY <1>0 DEF InChunk, Name
<1>6. CASE NoStage
  <2>1. stages' = {} /\ appMap = {}
    BY <1>2, <1>6 DEF NoStage
  <2> QED BY <1>0, <1>1, <1>3, <1>4, <1>5, <2>1 DEF OverlapInv, SingleInv, HeldInv, BackupInv
<1>7. CASE WriteStage
  <2>0. PICK new : new = [first |-> meta + 1, last |-> Max(appMap), has |-> appMap]
    OBVIOUS
  <2>1. appMap # {} /\ stages' = {new}
    BY <1>2, <1>7, <2>0 DEF WriteStage, Put
  <2>2. new.has = appMap
    BY <2>0
  <2>3. Follows(new.has)'
    BY <1>0, <1>2, <2>1, <2>2, SameTop
  <2>4. SingleInv'
    BY <1>3, <2>1, <2>3 DEF SingleInv
  <2>5. BackupInv'
    <3> SUFFICES ASSUME NEW s \in backup PROVE InChunk(s)' \/ \E t \in stages' : s.has \cap t.has # {}
      BY <1>0 DEF BackupInv
    <3> QED BY <1>4, <1>5, <2>1, <2>2
  <2> QED BY <1>1, <1>3, <2>4, <2>5 DEF OverlapInv, HeldInv
<1> QED BY <1>6, <1>7

\* A stage is put back only where it was, unless that is remembered.
LEMMA PutBackKeeps ==
  ASSUME ScraperInv, OverlapInv, PutBack, Remember, ~restored',
         pc \in {"block", "index", "bloom", "notify", "commit"}
  PROVE  OverlapInv'
<1>0. /\ blooms' = blooms /\ chunks' \subseteq chunks /\ backup' = {} /\ pc' \in {"off", "pause"}
      /\ \A s \in stages' \ stages : ~Beside(s)
  BY DEF PutBack, Remember
<1>1. SpansInv' /\ DisjointInv'
  BY <1>0 DEF OverlapInv, SpansInv, DisjointInv
<1>2. ~Consolidating' /\ pc' \notin {"notify", "block"}
  BY <1>0 DEF Consolidating
<1>3. CASE backup = {}
  <2>1. stages' = stages
    BY <1>3 DEF PutBack, Restore
  <2> QED BY <1>0, <1>1, <1>2, <2>1, SameTop DEF OverlapInv, SingleInv, HeldInv, BackupInv
<1>4. CASE backup # {}
  <2>1. PICK s \in backup : stages' = {f \in stages : Name(f) # Name(s)} \cup {s}
    BY <1>4 DEF PutBack, Restore, Put
  <2>2. CASE s \in stages
    <3>1. stages' = {s} /\ Follows(s.has)
      BY <2>1, <2>2 DEF OverlapInv, SingleInv
    <3> QED BY <1>0, <1>1, <1>2, <3>1, SameTop DEF OverlapInv, SingleInv, HeldInv, BackupInv
  <2>3. CASE s \notin stages
    <3>1. ~Beside(s)
      BY <1>0, <2>1, <2>3
    <3>2. Consolidating /\ Follows(s.has)
      BY <2>3, <3>1 DEF Beside, InChunk, OverlapInv, BackupInv
    <3>3. stages' = {s}
      BY <2>1, <3>2 DEF OverlapInv, SingleInv
    <3> QED BY <1>0, <1>1, <1>2, <3>2, <3>3, SameTop DEF OverlapInv, SingleInv, HeldInv, BackupInv
  <2> QED BY <2>2, <2>3
<1> QED BY <1>3, <1>4

\* Together.
LEMMA OverlapStep ==
  ASSUME Regular, NoGaps, ScraperInv, OrderInv, ~restored => OverlapInv, [Next]_<<vars, restored>>
  PROVE  OrderInv' /\ (~restored' => OverlapInv')
<1>1. OrderInv' /\ ScraperInv'
  BY OrderStep, InvNext
<1>2. ASSUME ~restored' PROVE OverlapInv'
  <2>0. Remember \/ UNCHANGED <<vars, restored>>
    BY DEF Next
  <2>1. ~restored
    BY <1>2, <2>0 DEF Remember
  <2>2. ASSUME UNCHANGED <<vars, restored>> PROVE Same
    BY <2>2 DEF Same, vars, disk, memory
  <2>3. OverlapInv
    BY <2>1
  <2>4. PutBack /\ ~Remember => Same
    BY <2>0, <2>2
  <2> QED BY <1>1, <1>2, <2>0, <2>3, <2>4, Kinds, RestKeeps, SameKeeps, LoadKeeps, BlockKeeps, IndexKeeps,
          BloomKeeps, NextKeeps, StageKeeps, PutBackKeeps
<1> QED BY <1>1, <1>2

\* The chunks follow each other and share no appearance with each other or with
\* the stage, until a stage is restored beside the chunk that has taken it: for
\* any chain, batch and chunk size, with kills at any step.
THEOREM NoOverlap == ASSUME Regular, NoGaps PROVE Spec => []OverlapIsRestored
<1>1. Init => ScraperInv /\ OrderInv /\ (~restored => OverlapInv)
  BY InvInit DEF Init, OrderInv, OverlapInv, SpansInv, DisjointInv, SingleInv, HeldInv, BackupInv,
     Consolidating, InRound
<1>2. ScraperInv /\ OrderInv /\ (~restored => OverlapInv) /\ [Next]_<<vars, restored>>
        => (ScraperInv /\ OrderInv /\ (~restored => OverlapInv))'
  BY OverlapStep, InvNext
<1>3. ScraperInv /\ (~restored => OverlapInv) => OverlapIsRestored
  <2> SUFFICES ASSUME ScraperInv, OverlapInv PROVE Sequential /\ NoDuplicate
    BY DEF OverlapIsRestored
  <2>1. IsTop(Finalized) /\ Finalized \in Nat
    BY FinalizedIs DEF ScraperInv, TypeInv
  <2> HIDE DEF Finalized
  <2>2. Sequential
    <3> SUFFICES ASSUME NEW r \in blooms, r.last # Finalized
                 PROVE  \E t \in blooms : t.first = r.last + 1
                            /\ \A u \in blooms : u.last > r.last => u.first > r.last
      BY DEF Sequential
    <3>1. PICK u \in blooms : r.last < u.last
      BY <2>1, Bounds DEF IsTop
    <3> QED BY <3>1 DEF OverlapInv, SpansInv
  <2>3. ASSUME NEW c \in chunks, NEW s \in stages, Name(c) \in blooms PROVE c.has \cap s.has = {}
    <3> SUFFICES ASSUME NEW b \in c.has, b \in s.has PROVE FALSE
      OBVIOUS
    <3>1. PICK f \in 0 .. MaxBlock : IsTop(f) /\ \A a \in s.has : f < a
      BY DEF OverlapInv, SingleInv, Follows
    <3>2. b <= c.last /\ b \in Int /\ c.last \in Int
      BY DEF ScraperInv, ChunkInv, TypeInv, IndexFiles
    <3>3. Name(c).last = c.last
      BY DEF Name, Span
    <3>4. c.last <= f
      BY <2>3, <3>1, <3>3 DEF IsTop
    <3> QED BY <3>1, <3>2, <3>4
  <2> QED BY <2>2, <2>3 DEF NoDuplicate, OverlapInv, DisjointInv
<1> QED BY <1>1, <1>2, <1>3, PTL DEF Spec
=============================================================================
