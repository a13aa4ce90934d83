----------------------------- MODULE Timestamps -----------------------------
(***************************************************************************)
(* The timestamps file ts.bin: a flat array of records, looked up by       *)
(* position (tslib.FromBn), so that record n must be the record of block   *)
(* n.  It is written by the scraper (Prepare, WriteTimestamps), by `chifra *)
(* when --timestamps' (--update, --truncate, --repair), by `chifra scrape  *)
(* --touch', and downloaded when it does not exist (EstablishTimestamps).  *)
(* Nothing locks it.                                                       *)
(*                                                                         *)
(* A record is its block number.  Of the index only the height counts:     *)
(* every ripe block is taken to have an address.                           *)
(***************************************************************************)
EXTENDS Integers, Sequences, FiniteSets

CONSTANTS
    Procs,        \* the chifra processes
    Commands,     \* what they may be asked to do
    MaxBlock,     \* bound: the last block of the chain
    MaxRecords,   \* bound: block zero is prepared again only below this length
    BlockCnt,     \* opts.BlockCnt
    UnripeDist,   \* opts.Settings.UnripeDist
    MaxBackfill,  \* maxBlocks of WriteTimestamps
    FlushEvery,   \* HandleTimestampsUpdate writes at multiples of it
    Published,    \* the number of records in the published database
    Fresh,        \* may the chunk of block zero be still to be made?
    Events        \* what may go wrong, a subset of Hazards

AllCommands == {"scrape", "update", "truncate", "repair", "touch"}
Hazards == {"crash", "sigint", "node", "disk", "append", "chunk"}

ASSUME TimestampsAssumption ==
    /\ Commands \subseteq AllCommands /\ Events \subseteq Hazards
    /\ MaxBlock \in Nat /\ MaxRecords \in Nat /\ Published \in 0 .. MaxBlock + 1
    /\ {BlockCnt, UnripeDist, MaxBackfill, FlushEvery} \subseteq Nat \ {0}
    /\ Fresh # {} /\ Fresh \subseteq BOOLEAN

VARIABLES
    exists, file, \* ts.bin
    bloom0,       \* the bloom of the chunk of block zero exists
    height,       \* the height of the index
    head,         \* the latest block of the chain
    pc,
    fd,           \* the processes whose open file is still the one called ts.bin
    at, until,    \* the next block to write, the block to stop at
    batchLast,    \* the last block of the scraper's batch
    buf,          \* records collected in memory
    backup,       \* the copy that a Restore would put back
    slipped       \* history variable: one of the Accidents has happened

disk == <<exists, file>>
work == <<at, until, batchLast, buf, backup>>
vars == <<disk, bloom0, height, head, pc, fd, work>>

Records(n) == [i \in 1 .. n |-> i - 1]
NoBackup == [has |-> FALSE, recs |-> <<>>]
nTimestamps == Len(file)
MinOf(a, b) == IF a <= b THEN a ELSE b
MaxOf(a, b) == IF a <= b THEN b ELSE a

Init ==
    /\ \/ exists = FALSE /\ file = <<>>
       \/ exists = TRUE /\ file \in {Records(n) : n \in 0 .. MaxBlock + 1}
    /\ \E fresh \in Fresh :
          /\ fresh => ~exists
          /\ bloom0 = ~fresh
          /\ height \in IF fresh THEN {0} ELSE 0 .. MaxOf(0, MaxBlock - UnripeDist)
    /\ head \in height + UnripeDist .. MaxBlock
    /\ pc = [p \in Procs |-> "idle"] /\ fd = {}
    /\ at = [p \in Procs |-> 0] /\ until = [p \in Procs |-> 0]
    /\ batchLast = [p \in Procs |-> 0]
    /\ buf = [p \in Procs |-> <<>>] /\ backup = [p \in Procs |-> NoBackup]
    /\ slipped = FALSE

Goto(p, label) == pc' = [pc EXCEPT ![p] = label]
Scraping == {"prepare", "append0", "write0", "chunk0", "batch", "backfill", "stamp",
             "stamped", "backfilled"}

-----------------------------------------------------------------------------
NewBlock ==
    /\ head < MaxBlock /\ head' = head + 1
    /\ UNCHANGED <<disk, bloom0, height, pc, fd, work>>

Forget(p) ==
    /\ Goto(p, "idle") /\ fd' = fd \ {p}
    /\ buf' = [buf EXCEPT ![p] = <<>>] /\ backup' = [backup EXCEPT ![p] = NoBackup]
    /\ at' = [at EXCEPT ![p] = 0] /\ until' = [until EXCEPT ![p] = 0]
    /\ batchLast' = [batchLast EXCEPT ![p] = 0]

Crash(p) ==
    /\ "crash" \in Events /\ pc[p] # "idle"
    /\ Forget(p)
    /\ UNCHANGED <<disk, bloom0, height, head>>

\* Every command first downloads the published file if there is none; a
\* failure is only logged.  The download goes to a file of its own first.
EstablishTimestamps ==
    \/ exists /\ UNCHANGED disk
    \/ ~exists /\ Published > 0 /\ file' = Records(Published) /\ exists' = TRUE
    \/ ~exists /\ (Published = 0 \/ "node" \in Events) /\ UNCHANGED disk

\* one scraper at a time (scrape.pid)
Begin(p, c) ==
    /\ pc[p] = "idle" /\ c \in Commands
    /\ c = "scrape" => \A q \in Procs : pc[q] \notin Scraping
    /\ EstablishTimestamps
    /\ Goto(p, IF c = "scrape" THEN "prepare" ELSE c)
    /\ UNCHANGED <<bloom0, height, head, fd, work>>

-----------------------------------------------------------------------------
(* tslib.Append: MakeBackup, write, and Clear or Restore.                  *)

Appending == {"append0", "flush"}
AppendWriting == {"write0", "flushing"}
AfterAppend(p) ==
    /\ Goto(p, CASE pc[p] \in {"append0", "write0"} -> "chunk0"
                 [] pc[p] \in {"flush", "flushing"} /\ at[p] < until[p] -> "fetch"
                 [] OTHER -> "idle")
    /\ buf' = [buf EXCEPT ![p] = <<>>]

MakeBackup(p) ==
    /\ pc[p] \in Appending
    /\ backup' = [backup EXCEPT ![p] = [has |-> exists, recs |-> file]]
    /\ Goto(p, IF pc[p] = "append0" THEN "write0" ELSE "flushing")
    /\ UNCHANGED <<disk, bloom0, height, head, fd, at, until, batchLast, buf>>

\* no backup, no append; both callers ignore the error
BackupFails(p) ==
    /\ pc[p] \in Appending /\ "append" \in Events /\ exists
    /\ AfterAppend(p)
    /\ UNCHANGED <<disk, bloom0, height, head, fd, at, until, batchLast, backup>>

AppendWrite(p) ==
    /\ pc[p] \in AppendWriting
    /\ exists' = TRUE /\ file' = file \o buf[p]
    /\ backup' = [backup EXCEPT ![p] = NoBackup]
    /\ AfterAppend(p)
    /\ UNCHANGED <<bloom0, height, head, fd, at, until, batchLast>>

\* the backup takes the place, and the name, of the file
Restore(p) ==
    /\ IF backup[p].has
       THEN exists' = TRUE /\ file' = backup[p].recs /\ fd' = {}
       ELSE UNCHANGED <<disk, fd>>

AppendFails(p) ==
    /\ pc[p] \in AppendWriting /\ "append" \in Events
    /\ Restore(p)
    /\ backup' = [backup EXCEPT ![p] = NoBackup]
    /\ AfterAppend(p)
    /\ UNCHANGED <<bloom0, height, head, at, until, batchLast>>

-----------------------------------------------------------------------------
(* The scraper.                                                            *)

\* Prepare: the record of block zero goes with the chunk of block zero
Prepare(p) ==
    /\ pc[p] = "prepare" /\ (bloom0 \/ nTimestamps < MaxRecords)
    /\ IF bloom0 THEN Goto(p, "batch") /\ UNCHANGED buf
       ELSE Goto(p, "append0") /\ buf' = [buf EXCEPT ![p] = <<0>>]
    /\ UNCHANGED <<disk, bloom0, height, head, fd, at, until, batchLast, backup>>

WriteChunkZero(p) ==
    /\ pc[p] = "chunk0"
    /\ bloom0' = TRUE /\ Goto(p, "batch")
    /\ UNCHANGED <<disk, height, head, fd, work>>

WriteChunkZeroFails(p) ==
    /\ pc[p] = "chunk0" /\ "chunk" \in Events
    /\ Forget(p)
    /\ UNCHANGED <<disk, bloom0, height, head>>

\* open (or create) the file and decide: nothing to write, a gap to fill first
\* (as far as upTo), or a batch to append
StartBatch(p, last, gap, upTo) ==
    LET Work(label, from, to) ==
            /\ Goto(p, label)
            /\ at' = [at EXCEPT ![p] = from] /\ until' = [until EXCEPT ![p] = to]
    IN /\ pc[p] = "batch" /\ height < head
       /\ CASE last < nTimestamps -> Work("stamped", 0, 0)
            [] last >= nTimestamps /\ gap -> Work("backfill", nTimestamps, upTo)
            [] OTHER -> Work("stamp", MaxOf(height + 1, nTimestamps), last + 1)
       /\ batchLast' = [batchLast EXCEPT ![p] = last]
       /\ exists' = TRUE /\ fd' = fd \cup {p}
       /\ UNCHANGED <<file, bloom0, height, head, buf, backup>>

Last == MinOf(height + BlockCnt, head)
BackfillTo == MinOf(height + 1, nTimestamps + MaxBackfill)

\* [mutant] the first block may be one past the end of the file
WriteTimestamps_SkipsOne(p) == StartBatch(p, Last, height > nTimestamps, BackfillTo)

\* [mutant] a gap is noticed but not filled
WriteTimestamps_NoBackfill(p) ==
    StartBatch(p, Last, height + 1 > nTimestamps, nTimestamps)

\* ScrapeBatch has collected the blocks height + 1 .. Last and calls
\* WriteTimestamps
WriteTimestamps(p) == StartBatch(p, Last, height + 1 > nTimestamps, BackfillTo)

\* one record at the end of the open file
WriteRecord(p) ==
    /\ pc[p] \in {"stamp", "backfill"} /\ at[p] < until[p]
    /\ file' = IF p \in fd THEN Append(file, at[p]) ELSE file
    /\ at' = [at EXCEPT ![p] = @ + 1]
    /\ UNCHANGED <<exists, bloom0, height, head, pc, fd, until, batchLast, buf, backup>>

\* an error: HandleScrape pauses, the batch is scraped again
WriteRecordFails(p) ==
    /\ pc[p] \in {"stamp", "backfill"} /\ at[p] < until[p] /\ "disk" \in Events
    /\ Goto(p, "batch") /\ fd' = fd \ {p}
    /\ UNCHANGED <<disk, bloom0, height, head, work>>

\* [mutant] the file is closed and the batch given up for complete too early
WriteDone_Early(p) ==
    /\ pc[p] \in {"stamp", "backfill"} /\ at[p] + 1 >= until[p]
    /\ Goto(p, IF pc[p] = "stamp" THEN "stamped" ELSE "backfilled")
    /\ fd' = fd \ {p}
    /\ UNCHANGED <<disk, bloom0, height, head, work>>

WriteDone(p) ==
    /\ pc[p] \in {"stamp", "backfill"} /\ at[p] = until[p]
    /\ Goto(p, IF pc[p] = "stamp" THEN "stamped" ELSE "backfilled")
    /\ fd' = fd \ {p}
    /\ UNCHANGED <<disk, bloom0, height, head, work>>

\* the backfill looks at the context before each record; the append does not
Interrupt(p) ==
    /\ pc[p] \in {"batch", "backfill", "stamped", "backfilled"} /\ "sigint" \in Events
    /\ Forget(p)
    /\ UNCHANGED <<disk, bloom0, height, head>>

\* the index grows by the ripe blocks of the batch, stamped or not
Consolidate(p) ==
    /\ pc[p] \in {"stamped", "backfilled"}
    /\ height' = MaxOf(height, MinOf(batchLast[p], head - UnripeDist))
    /\ Goto(p, "batch") /\ fd' = fd \ {p}
    /\ UNCHANGED <<disk, bloom0, head, work>>

-----------------------------------------------------------------------------
(* chifra when --timestamps, and chifra scrape --touch.                    *)

\* HandleTimestampsUpdate: an error without a file, nothing to do, or a loop
Update(p) ==
    /\ pc[p] = "update"
    /\ IF exists /\ nTimestamps < head
       THEN /\ Goto(p, "fetch")
            /\ at' = [at EXCEPT ![p] = nTimestamps]
            /\ until' = [until EXCEPT ![p] = head]
       ELSE Goto(p, "idle") /\ UNCHANGED <<at, until>>
    /\ UNCHANGED <<disk, bloom0, height, head, fd, batchLast, buf, backup>>

\* a header that the node does not deliver is the zero header
Fetch(p) ==
    /\ pc[p] = "fetch"
    /\ \E r \in {at[p]} \cup (IF "node" \in Events THEN {0} ELSE {}) :
        buf' = [buf EXCEPT ![p] = Append(@, r)]
    /\ at' = [at EXCEPT ![p] = @ + 1]
    /\ Goto(p, IF at[p] % FlushEvery = 0 \/ at'[p] = until[p] THEN "flush" ELSE "fetch")
    /\ UNCHANGED <<disk, bloom0, height, head, fd, until, batchLast, backup>>

\* HandleTimestampsTruncate keeps the blocks up to b: tslib.Truncate(b + 1)
Truncate(p) ==
    /\ pc[p] = "truncate"
    /\ \E b \in 0 .. MaxBlock :
        IF exists /\ b + 1 < nTimestamps
        THEN /\ Goto(p, "remove")
             /\ buf' = [buf EXCEPT ![p] = SubSeq(file, 1, b + 1)]
             /\ backup' = [backup EXCEPT ![p] = [has |-> TRUE, recs |-> file]]
        ELSE Goto(p, "idle") /\ UNCHANGED <<buf, backup>>
    /\ UNCHANGED <<disk, bloom0, height, head, fd, at, until, batchLast>>

\* os.Remove
RemoveFile(p) ==
    /\ pc[p] = "remove"
    /\ exists' = FALSE /\ file' = <<>> /\ fd' = {}
    /\ Goto(p, "rewrite")
    /\ UNCHANGED <<bloom0, height, head, work>>

\* a new file, written from the start; then the backup is cleared
Rewrite(p) ==
    /\ pc[p] = "rewrite"
    /\ exists' = TRUE
    /\ file' = buf[p] \o SubSeq(file, Len(buf[p]) + 1, Len(file))
    /\ Forget(p)
    /\ UNCHANGED <<bloom0, height, head>>

RewriteFails(p) ==
    /\ pc[p] = "rewrite" /\ "disk" \in Events
    /\ Restore(p)
    /\ Goto(p, "idle")
    /\ buf' = [buf EXCEPT ![p] = <<>>] /\ backup' = [backup EXCEPT ![p] = NoBackup]
    /\ UNCHANGED <<bloom0, height, head, at, until, batchLast>>

\* tslib.Repair overwrites one record (and record zero with record one)
Repair(p) ==
    /\ pc[p] = "repair"
    /\ \E b \in 0 .. MaxBlock, good \in {TRUE} \cup (IF "node" \in Events THEN {FALSE} ELSE {}) :
        file' = [i \in DOMAIN file |->
                   IF i = b + 1 \/ (b = 1 /\ i = 1 /\ nTimestamps > 1)
                   THEN (IF good THEN i - 1 ELSE 0) ELSE file[i]]
    /\ Goto(p, "idle")
    /\ UNCHANGED <<exists, bloom0, height, head, fd, work>>

\* backfillTimestamps of --touch asks for a backup in a folder that nobody
\* makes, so it does nothing when there is a file.  Otherwise it writes a new
\* one, of which an interrupt leaves a part.
Touch(p) ==
    /\ pc[p] = "touch"
    /\ IF exists THEN UNCHANGED disk
       ELSE exists' = TRUE /\ file' \in {Records(n) : n \in 0 .. MaxBlock + 1}
    /\ Goto(p, "idle")
    /\ UNCHANGED <<bloom0, height, head, fd, work>>

Step(p) ==
    \/ \E c \in AllCommands : Begin(p, c)
    \/ MakeBackup(p) \/ BackupFails(p) \/ AppendWrite(p) \/ AppendFails(p)
    \/ Prepare(p) \/ WriteChunkZero(p) \/ WriteChunkZeroFails(p)
    \/ WriteTimestamps(p) \/ WriteRecord(p) \/ WriteRecordFails(p) \/ WriteDone(p)
    \/ Interrupt(p) \/ Consolidate(p)
    \/ Update(p) \/ Fetch(p)
    \/ Truncate(p) \/ RemoveFile(p) \/ Rewrite(p) \/ RewriteFails(p)
    \/ Repair(p) \/ Touch(p)

\* the four accidents after which a record may be out of its place: an append
\* that failed although its caller goes on, a header the node did not deliver,
\* a repair with such a header, and block zero behind records that are there
Accident(p) ==
    \/ BackupFails(p) \/ AppendFails(p)
    \/ Fetch(p) /\ buf'[p] # Append(buf[p], at[p])
    \/ Repair(p) /\ \E i \in DOMAIN file : file'[i] # file[i] /\ file'[i] # i - 1
    \/ AppendWrite(p) /\ pc[p] = "write0" /\ file # <<>>

Next ==
    /\ NewBlock \/ \E p \in Procs : Step(p) \/ Crash(p)
    /\ slipped' = (slipped \/ \E p \in Procs : Accident(p))

Spec == Init /\ [][Next]_<<vars, slipped>>

\* The chain goes on, the scraper is started again and again, and a command
\* that has begun goes on.
FairSpec ==
    /\ Spec
    /\ WF_vars(NewBlock)
    /\ \A p \in Procs : WF_vars(Step(p)) /\ SF_vars(Begin(p, "scrape"))

-----------------------------------------------------------------------------
(* Properties.                                                             *)

Bns == 0 .. MaxBlock
IsRecords(s) == DOMAIN s = 1 .. Len(s) /\ \A i \in DOMAIN s : s[i] \in Bns

\* The file exists if it has records, and the processes' variables have their types.
TypeOK ==
    /\ exists \in BOOLEAN /\ IsRecords(file) /\ (~exists => file = <<>>)
    /\ bloom0 \in BOOLEAN /\ height \in Bns /\ head \in Bns
    /\ fd \subseteq Procs
    /\ pc \in [Procs -> Scraping \cup Commands \cup
                 {"idle", "flush", "flushing", "fetch", "remove", "rewrite"}]
    /\ {at, until, batchLast} \subseteq [Procs -> 0 .. MaxBlock + 1]
    /\ \A p \in Procs : IsRecords(buf[p]) /\ IsRecords(backup[p].recs)

\* `At all times, the timestamp file is complete (that is, there are no missing
\* pieces ...)': record n is the record of block n, in every state.  FromBn
\* reads by position and FromTs by binary search, so one record too many or
\* too few makes every later date wrong.
RecordsInPlace == \A i \in DOMAIN file : file[i] = i - 1

\* A record is out of its place only after one of the four known accidents:
\* kills, interrupts, truncations and every other failed write never do it.
MisplacedIsExplained == ~slipped => RecordsInPlace

\* Once WriteTimestamps has appended a batch every block of it can be dated:
\* nothing is skipped at the front, in the middle, or at the end of the list.
BatchIsStamped == \A p \in Procs : pc[p] = "stamped" => batchLast[p] < nTimestamps

\* The steps that lose or delay something.
Mishap == \E p \in Procs :
    \/ Crash(p) \/ Interrupt(p) \/ WriteRecordFails(p) \/ BackupFails(p) \/ AppendFails(p)
    \/ WriteChunkZeroFails(p)
    \/ \E c \in AllCommands \ {"scrape"} : Begin(p, c)

\* Whatever was truncated, killed or interrupted before, a scraper that is
\* left alone brings the file up to the latest block, filling the gap first.
BackfillCatchesUp == <>[][~Mishap]_vars => <>[](nTimestamps > MaxBlock)
=============================================================================
