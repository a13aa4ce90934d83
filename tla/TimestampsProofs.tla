-------------------------- MODULE TimestampsProofs --------------------------
(***************************************************************************)
(* Proofs about the timestamps file: for any chain, batch size and command *)
(* sequence of one process, record n is the record of block n unless one   *)
(* of the known accidents has happened, and a batch that WriteTimestamps   *)
(* has finished is in the file to its end.                                 *)
(***************************************************************************)
EXTENDS Timestamps, SequenceTheorems, TLAPS

\* One process at a time.  Nothing locks the file: two that append to it may each
\* write the records that the other does not see.
OneProcess == \A p, q \in Procs : p = q

Collecting == {"append0", "write0", "fetch", "flush", "flushing", "remove", "rewrite"}

TypeInv ==
    /\ exists \in BOOLEAN /\ file \in Seq(Nat)
    /\ height \in Nat /\ head \in Nat
    /\ DOMAIN pc = Procs /\ fd \subseteq Procs
    /\ at \in [Procs -> Nat] /\ until \in [Procs -> Nat] /\ batchLast \in [Procs -> Nat]
    /\ buf \in [Procs -> Seq(Nat)]
    /\ backup \in [Procs -> [has : BOOLEAN, recs : Seq(Nat)]]

\* the next record of the scraper goes to the end of the file, and the file is as
\* long as the batch when it has been stamped
StampOf(p) ==
    /\ pc[p] \in {"stamp", "backfill"} => p \in fd /\ at[p] = nTimestamps
    /\ pc[p] = "stamp" => until[p] = batchLast[p] + 1
    /\ pc[p] = "stamped" => batchLast[p] < nTimestamps

\* nothing is left in memory from one command to the next
BufOf(p) ==
    /\ pc[p] \in {"append0", "write0"} => buf[p] = <<0>>
    /\ pc[p] \notin Collecting => buf[p] = <<>>
    /\ pc[p] = "rewrite" => file = <<>>

\* s holds the records of the blocks from first on
Holds(s, first) == \A i \in 1 .. Len(s) : s[i] = first + i - 1

\* what is to be appended continues the file; what is to replace it is in place
PlaceOf(p) ==
    /\ pc[p] \in {"fetch", "flush", "flushing"} =>
         Holds(buf[p], nTimestamps) /\ at[p] = nTimestamps + Len(buf[p])
    /\ pc[p] \in {"remove", "rewrite"} => Holds(buf[p], 0) /\ Holds(backup[p].recs, 0)

WorkInv == \A p \in Procs : StampOf(p) /\ BufOf(p)
PlaceInv == slipped \/ (Holds(file, 0) /\ \A p \in Procs : PlaceOf(p))

FileInv == TypeInv /\ WorkInv /\ PlaceInv

-----------------------------------------------------------------------------
(* The sequences.                                                          *)

\* The first n records are in place.
LEMMA RecordsAre ==
  ASSUME NEW n \in Nat
  PROVE  Records(n) \in Seq(Nat) /\ Len(Records(n)) = n /\ Holds(Records(n), 0)
<1>1. /\ Records(n) = [i \in 1 .. n |-> i - 1]
      /\ \A i \in 1 .. n : i - 1 \in Nat
  BY DEF Records
<1>2. Records(n) \in Seq(Nat) /\ Len(Records(n)) = n
  BY <1>1
<1> QED BY <1>1, <1>2 DEF Holds

\* An empty file has every record in its place.
LEMMA NothingHeld == \A n : Holds(<<>>, n) /\ <<>> \in Seq(Nat) /\ Len(<<>>) = 0
BY DEF Holds

\* A record appended at the end.
LEMMA AppendHolds ==
  ASSUME NEW s \in Seq(Nat), NEW x \in Nat
  PROVE  /\ Append(s, x) \in Seq(Nat) /\ Len(Append(s, x)) = Len(s) + 1
         /\ \A n \in Nat : Holds(s, n) /\ x = n + Len(s) => Holds(Append(s, x), n)
<1>1. /\ Append(s, x) \in Seq(Nat) /\ Len(Append(s, x)) = Len(s) + 1
      /\ \A i \in 1 .. Len(s) : Append(s, x)[i] = s[i]
      /\ Append(s, x)[Len(s) + 1] = x /\ Len(s) \in Nat
  BY AppendProperties
<1>2. ASSUME NEW n \in Nat, Holds(s, n), x = n + Len(s), NEW i \in 1 .. Len(s) + 1
      PROVE  Append(s, x)[i] = n + i - 1
  <2>1. CASE i = Len(s) + 1
    BY <1>1, <1>2, <2>1
  <2>2. CASE i # Len(s) + 1
    BY <1>1, <1>2, <2>2 DEF Holds
  <2> QED BY <2>1, <2>2
<1> QED BY <1>1, <1>2 DEF Holds

\* What continues a file, written behind it.
LEMMA ConcatHolds ==
  ASSUME NEW s \in Seq(Nat), NEW t \in Seq(Nat)
  PROVE  /\ s \o t \in Seq(Nat) /\ Len(s \o t) = Len(s) + Len(t)
         /\ Holds(s, 0) /\ Holds(t, Len(s)) => Holds(s \o t, 0)
<1>1. /\ s \o t \in Seq(Nat) /\ Len(s \o t) = Len(s) + Len(t)
      /\ \A i \in 1 .. Len(s) + Len(t) : (s \o t)[i] = IF i <= Len(s) THEN s[i] ELSE t[i - Len(s)]
      /\ Len(s) \in Nat /\ Len(t) \in Nat
  BY ConcatProperties
<1>2. ASSUME Holds(s, 0), Holds(t, Len(s)), NEW i \in 1 .. Len(s) + Len(t)
      PROVE  (s \o t)[i] = 0 + i - 1
  <2>1. CASE i <= Len(s)
    BY <1>1, <1>2, <2>1 DEF Holds
  <2>2. CASE ~ (i <= Len(s))
    <3>1. i - Len(s) \in 1 .. Len(t)
      BY <1>1, <2>2
    <3> QED BY <1>1, <1>2, <2>2, <3>1 DEF Holds
  <2> QED BY <2>1, <2>2
<1> QED BY <1>1, <1>2 DEF Holds

\* The front of a file.
LEMMA FrontHolds ==
  ASSUME NEW s \in Seq(Nat), NEW n \in Nat, n < Len(s)
  PROVE  SubSeq(s, 1, n) \in Seq(Nat) /\ (Holds(s, 0) => Holds(SubSeq(s, 1, n), 0))
<1>1. /\ SubSeq(s, 1, n) \in Seq(Nat) /\ Len(SubSeq(s, 1, n)) = n
      /\ \A i \in 1 .. n : SubSeq(s, 1, n)[i] = s[i] /\ i \in 1 .. Len(s)
  OBVIOUS
<1> QED BY <1>1 DEF Holds


-----------------------------------------------------------------------------
(* The types.                                                              *)

\* The constants are numbers, and so is what is computed from them.
LEMMA NumbersAre ==
  /\ MaxBlock \in Nat /\ Published \in Nat /\ BlockCnt \in Nat /\ MaxBackfill \in Nat
  /\ UnripeDist \in Nat
  /\ \A m, n \in Nat : MinOf(m, n) \in Nat /\ MaxOf(m, n) \in Nat
  /\ \A m, n \in Nat : m <= n => MaxOf(m, n) = n
  /\ \A k \in Int, n \in Nat : MaxOf(n, MinOf(n, k)) \in Nat
BY TimestampsAssumption DEF MinOf, MaxOf

\* A command that ends, or is killed.
LEMMA ForgetTypes ==
  ASSUME TypeInv, NEW p \in Procs, Forget(p)
  PROVE  /\ DOMAIN pc' = Procs /\ fd' \subseteq Procs
         /\ at' \in [Procs -> Nat] /\ until' \in [Procs -> Nat] /\ batchLast' \in [Procs -> Nat]
         /\ buf' \in [Procs -> Seq(Nat)]
         /\ backup' \in [Procs -> [has : BOOLEAN, recs : Seq(Nat)]]
         /\ pc'[p] = "idle" /\ buf'[p] = <<>>
<1>1. <<>> \in Seq(Nat) /\ NoBackup \in [has : BOOLEAN, recs : Seq(Nat)]
  BY NothingHeld DEF NoBackup
<1> QED BY <1>1 DEF TypeInv, Forget, Goto

\* Every step keeps the types.
LEMMA TypeStep ==
  ASSUME TypeInv, [Next]_<<vars, slipped>>
  PROVE  TypeInv'
<1> USE DEF vars, disk, work, Goto, nTimestamps
<1>0. /\ exists \in BOOLEAN /\ file \in Seq(Nat) /\ height \in Nat /\ head \in Nat
      /\ DOMAIN pc = Procs /\ fd \subseteq Procs
      /\ at \in [Procs -> Nat] /\ until \in [Procs -> Nat] /\ batchLast \in [Procs -> Nat]
      /\ buf \in [Procs -> Seq(Nat)]
      /\ backup \in [Procs -> [has : BOOLEAN, recs : Seq(Nat)]]
      /\ Len(file) \in Nat /\ <<>> \in Seq(Nat) /\ NoBackup \in [has : BOOLEAN, recs : Seq(Nat)]
  BY NothingHeld DEF TypeInv, NoBackup
<1>1. CASE UNCHANGED <<vars, slipped>> \/ NewBlock
  BY <1>0, <1>1 DEF TypeInv, NewBlock
<1>2. ASSUME NEW p \in Procs, Crash(p) \/ Interrupt(p) \/ WriteChunkZeroFails(p) PROVE TypeInv'
  BY <1>0, <1>2, ForgetTypes DEF Crash, Interrupt, WriteChunkZeroFails, TypeInv
<1>3. ASSUME NEW p \in Procs, NEW c \in AllCommands, Begin(p, c) PROVE TypeInv'
  <2>1. file' \in Seq(Nat) /\ exists' \in BOOLEAN
    BY <1>0, <1>3, NumbersAre, RecordsAre DEF Begin, EstablishTimestamps
  <2> QED BY <1>0, <1>3, <2>1 DEF Begin, TypeInv
<1>4. ASSUME NEW p \in Procs, MakeBackup(p) PROVE TypeInv'
  <2>1. [has |-> exists, recs |-> file] \in [has : BOOLEAN, recs : Seq(Nat)]
    BY <1>0
  <2> QED BY <1>0, <1>4, <2>1 DEF MakeBackup, TypeInv
<1>5. ASSUME NEW p \in Procs, BackupFails(p) PROVE TypeInv'
  BY <1>0, <1>5 DEF BackupFails, AfterAppend, TypeInv
<1>6. ASSUME NEW p \in Procs, AppendWrite(p) PROVE TypeInv'
  <2>1. buf[p] \in Seq(Nat)
    BY <1>0
  <2>2. file' \in Seq(Nat)
    BY <1>0, <1>6, <2>1, ConcatHolds DEF AppendWrite
  <2> QED BY <1>0, <1>6, <2>2 DEF AppendWrite, AfterAppend, TypeInv
<1>7. ASSUME NEW p \in Procs, AppendFails(p) PROVE TypeInv'
  <2>1. exists' \in BOOLEAN /\ file' \in Seq(Nat) /\ fd' \subseteq Procs
    BY <1>0, <1>7 DEF AppendFails, Restore
  <2> QED BY <1>0, <1>7, <2>1 DEF AppendFails, AfterAppend, TypeInv
<1>8. ASSUME NEW p \in Procs, Prepare(p) PROVE TypeInv'
  <2>1. <<0>> \in Seq(Nat)
    OBVIOUS
  <2> QED BY <1>0, <1>8, <2>1 DEF Prepare, TypeInv
<1>9. ASSUME NEW p \in Procs, WriteChunkZero(p) \/ WriteRecordFails(p) \/ WriteDone(p) PROVE TypeInv'
  BY <1>0, <1>9 DEF WriteChunkZero, WriteRecordFails, WriteDone, TypeInv
<1>10. ASSUME NEW p \in Procs, WriteTimestamps(p) PROVE TypeInv'
  <2>1. /\ Last \in Nat /\ BackfillTo \in Nat /\ MaxOf(height + 1, nTimestamps) \in Nat
    <3>1. height + BlockCnt \in Nat /\ height + 1 \in Nat /\ nTimestamps + MaxBackfill \in Nat
      BY <1>0, NumbersAre
    <3> QED BY <1>0, <3>1, NumbersAre DEF Last, BackfillTo
  <2>2. /\ \E from \in Nat, to \in Nat :
             at' = [at EXCEPT ![p] = from] /\ until' = [until EXCEPT ![p] = to]
        /\ batchLast' = [batchLast EXCEPT ![p] = Last]
        /\ \E label : pc' = [pc EXCEPT ![p] = label]
        /\ exists' = TRUE /\ fd' = fd \cup {p} /\ UNCHANGED <<file, height, head, buf, backup>>
    <3>1. Last + 1 \in Nat /\ nTimestamps \in Nat /\ 0 \in Nat
      BY <1>0, <2>1
    <3> HIDE DEF Goto
    <3> QED BY <1>10, <2>1, <3>1 DEF WriteTimestamps, StartBatch, Goto
  <2> QED BY <1>0, <2>1, <2>2 DEF TypeInv
<1>11. ASSUME NEW p \in Procs, WriteRecord(p) PROVE TypeInv'
  <2>1. at[p] \in Nat /\ at[p] + 1 \in Nat
    BY <1>0
  <2>2. file' \in Seq(Nat)
    BY <1>0, <1>11, <2>1, AppendHolds DEF WriteRecord
  <2> QED BY <1>0, <1>11, <2>1, <2>2 DEF WriteRecord, TypeInv
<1>12. ASSUME NEW p \in Procs, Consolidate(p) PROVE TypeInv'
  <2>1. height' \in Nat
    <3>1. batchLast[p] \in Nat /\ head - UnripeDist \in Int
      BY <1>0, NumbersAre
    <3> QED BY <1>0, <1>12, <3>1 DEF Consolidate, MaxOf, MinOf
  <2> QED BY <1>0, <1>12, <2>1 DEF Consolidate, TypeInv
<1>13. ASSUME NEW p \in Procs, Update(p) PROVE TypeInv'
  BY <1>0, <1>13 DEF Update, TypeInv
<1>14. ASSUME NEW p \in Procs, Fetch(p) PROVE TypeInv'
  <2>1. at[p] \in Nat /\ at[p] + 1 \in Nat /\ buf[p] \in Seq(Nat)
    BY <1>0
  <2>2. PICK r \in {at[p], 0} : buf' = [buf EXCEPT ![p] = Append(@, r)]
    BY <1>14 DEF Fetch
  <2>3. Append(buf[p], r) \in Seq(Nat)
    BY <2>1, AppendHolds
  <2> QED BY <1>0, <1>14, <2>1, <2>2, <2>3 DEF Fetch, TypeInv
<1>15. ASSUME NEW p \in Procs, Truncate(p) PROVE TypeInv'
  <2>1. PICK b \in 0 .. MaxBlock :
          IF exists /\ b + 1 < nTimestamps
          THEN /\ pc' = [pc EXCEPT ![p] = "remove"]
               /\ buf' = [buf EXCEPT ![p] = SubSeq(file, 1, b + 1)]
               /\ backup' = [backup EXCEPT ![p] = [has |-> TRUE, recs |-> file]]
          ELSE pc' = [pc EXCEPT ![p] = "idle"] /\ UNCHANGED <<buf, backup>>
    BY <1>15 DEF Truncate
  <2>2. b + 1 \in Nat
    BY NumbersAre
  <2>3. b + 1 < nTimestamps => SubSeq(file, 1, b + 1) \in Seq(Nat)
    BY <1>0, <2>2, FrontHolds
  <2>4. [has |-> TRUE, recs |-> file] \in [has : BOOLEAN, recs : Seq(Nat)]
    BY <1>0
  <2>5. buf' \in [Procs -> Seq(Nat)] /\ backup' \in [Procs -> [has : BOOLEAN, recs : Seq(Nat)]]
    BY <1>0, <2>1, <2>3, <2>4
  <2> QED BY <1>0, <1>15, <2>1, <2>5 DEF Truncate, TypeInv
<1>16. ASSUME NEW p \in Procs, RemoveFile(p) PROVE TypeInv'
  BY <1>0, <1>16 DEF RemoveFile, TypeInv
<1>17. ASSUME NEW p \in Procs, Rewrite(p) PROVE TypeInv'
  <2>1. buf[p] \in Seq(Nat) /\ SubSeq(file, Len(buf[p]) + 1, Len(file)) \in Seq(Nat)
    BY <1>0
  <2>2. file' \in Seq(Nat)
    BY <1>17, <2>1, ConcatHolds DEF Rewrite
  <2> QED BY <1>0, <1>17, <2>2, ForgetTypes DEF Rewrite, TypeInv
<1>18. ASSUME NEW p \in Procs, RewriteFails(p) PROVE TypeInv'
  <2>1. exists' \in BOOLEAN /\ file' \in Seq(Nat) /\ fd' \subseteq Procs
    BY <1>0, <1>18 DEF RewriteFails, Restore
  <2> QED BY <1>0, <1>18, <2>1 DEF RewriteFails, TypeInv
<1>19. ASSUME NEW p \in Procs, Repair(p) PROVE TypeInv'
  <2>1. PICK b \in 0 .. MaxBlock, good \in BOOLEAN :
          file' = [i \in DOMAIN file |->
                     IF i = b + 1 \/ (b = 1 /\ i = 1 /\ nTimestamps > 1)
                     THEN (IF good THEN i - 1 ELSE 0) ELSE file[i]]
    BY <1>19 DEF Repair
  <2>2. DOMAIN file = 1 .. Len(file) /\ \A i \in 1 .. Len(file) : file[i] \in Nat /\ i - 1 \in Nat
    BY <1>0
  <2>3. file' \in Seq(Nat)
    BY <1>0, <2>1, <2>2
  <2> QED BY <1>0, <1>19, <2>3 DEF Repair, TypeInv
<1>20. ASSUME NEW p \in Procs, Touch(p) PROVE TypeInv'
  <2>1. \A n \in 0 .. MaxBlock + 1 : Records(n) \in Seq(Nat)
    BY NumbersAre, RecordsAre
  <2>2. file' \in Seq(Nat) /\ exists' \in BOOLEAN
    BY <1>0, <1>20, <2>1 DEF Touch
  <2> QED BY <1>0, <1>20, <2>2 DEF Touch, TypeInv
<1> HIDE DEF vars, disk, work, Goto, nTimestamps
<1> QED BY <1>1, <1>2, <1>3, <1>4, <1>5, <1>6, <1>7, <1>8, <1>9, <1>10, <1>11, <1>12, <1>13, <1>14,
           <1>15, <1>16, <1>17, <1>18, <1>19, <1>20 DEF Next, Step

-----------------------------------------------------------------------------
(* The positions.                                                          *)

\* what a step has to keep for the process that takes it
Kept(p) ==
    /\ StampOf(p)' /\ BufOf(p)'
    /\ Holds(file, 0) /\ PlaceOf(p) /\ ~Accident(p) => Holds(file, 0)' /\ PlaceOf(p)'

\* A step behind which nothing is in memory and no batch is on its way.
LEMMA IdleKept ==
  ASSUME NEW p \in Procs, pc'[p] \notin Collecting, buf'[p] = <<>>,
         pc'[p] \notin {"stamp", "backfill", "stamped"},
         Holds(file, 0) /\ PlaceOf(p) /\ ~Accident(p) => Holds(file, 0)'
  PROVE  Kept(p)
BY DEF Kept, StampOf, BufOf, PlaceOf, Collecting

\* The types that a step of a command needs.
LEMMA TypesOf ==
  ASSUME TypeInv, NEW p \in Procs
  PROVE  /\ file \in Seq(Nat) /\ height \in Nat /\ head \in Nat /\ Len(file) \in Nat
         /\ DOMAIN pc = Procs
         /\ at \in [Procs -> Nat] /\ until \in [Procs -> Nat] /\ batchLast \in [Procs -> Nat]
         /\ buf \in [Procs -> Seq(Nat)]
         /\ backup \in [Procs -> [has : BOOLEAN, recs : Seq(Nat)]]
         /\ buf[p] \in Seq(Nat) /\ at[p] \in Nat
<1>1. /\ file \in Seq(Nat) /\ height \in Nat /\ head \in Nat
      /\ DOMAIN pc = Procs
      /\ at \in [Procs -> Nat] /\ until \in [Procs -> Nat] /\ batchLast \in [Procs -> Nat]
      /\ buf \in [Procs -> Seq(Nat)]
      /\ backup \in [Procs -> [has : BOOLEAN, recs : Seq(Nat)]]
  BY Zenon DEF TypeInv
<1>2. Len(file) \in Nat
  BY <1>1
<1>3. buf[p] \in Seq(Nat) /\ at[p] \in Nat
  BY <1>1
<1> QED BY <1>1, <1>2, <1>3, Zenon

\* A step of one command leaves the records where they belong, or slips.
LEMMA StepKept ==
  ASSUME TypeInv, TypeInv', NEW p \in Procs, StampOf(p), BufOf(p), Step(p) \/ Crash(p)
  PROVE  Kept(p)
<1>0. /\ file \in Seq(Nat) /\ height \in Nat /\ head \in Nat /\ Len(file) \in Nat
      /\ DOMAIN pc = Procs
      /\ at \in [Procs -> Nat] /\ until \in [Procs -> Nat] /\ batchLast \in [Procs -> Nat]
      /\ buf \in [Procs -> Seq(Nat)]
      /\ backup \in [Procs -> [has : BOOLEAN, recs : Seq(Nat)]]
      /\ buf[p] \in Seq(Nat) /\ at[p] \in Nat
  BY TypesOf, Zenon
<1> USE DEF disk, work, Goto, nTimestamps
<1>1. CASE Crash(p) \/ Interrupt(p) \/ WriteChunkZeroFails(p)
  <2>1. Forget(p) /\ file' = file
    BY <1>1 DEF Crash, Interrupt, WriteChunkZeroFails
  <2>2. pc'[p] = "idle" /\ buf'[p] = <<>>
    BY <2>1, ForgetTypes
  <2> QED BY <2>1, <2>2, IdleKept DEF Holds, Collecting
<1>2. ASSUME NEW c \in AllCommands, Begin(p, c) PROVE Kept(p)
  <2>1. /\ pc[p] = "idle" /\ buf' = buf /\ EstablishTimestamps
        /\ pc'[p] = IF c = "scrape" THEN "prepare" ELSE c
    BY <1>0, <1>2 DEF Begin
  <2>2. pc'[p] \notin Collecting /\ pc'[p] \notin {"stamp", "backfill", "stamped"}
    BY <2>1 DEF AllCommands, Collecting
  <2>3. buf'[p] = <<>>
    BY <2>1 DEF BufOf, Collecting
  <2>4. Holds(file, 0) => Holds(file, 0)'
    <3>1. file' = file \/ file' = Records(Published)
      BY <2>1 DEF EstablishTimestamps
    <3>2. Holds(Records(Published), 0)
      BY NumbersAre, RecordsAre
    <3> QED BY <3>1, <3>2
  <2> QED BY <2>2, <2>3, <2>4, IdleKept
<1>3. CASE MakeBackup(p)
  <2>1. /\ pc[p] \in {"append0", "flush"} /\ file' = file /\ buf' = buf /\ at' = at
        /\ pc'[p] = IF pc[p] = "append0" THEN "write0" ELSE "flushing"
    BY <1>0, <1>3 DEF MakeBackup, Appending
  <2> QED BY <2>1 DEF Kept, StampOf, BufOf, PlaceOf, Collecting, Holds
<1>4. CASE BackupFails(p) \/ AppendFails(p)
  <2>1. /\ Accident(p) /\ buf'[p] = <<>> /\ pc'[p] \in {"chunk0", "fetch", "idle"}
    BY <1>0, <1>4 DEF BackupFails, AppendFails, AfterAppend, Accident
  <2> QED BY <2>1 DEF Kept, StampOf, BufOf, Collecting
<1>5. CASE AppendWrite(p)
  <2>1. /\ pc[p] \in {"write0", "flushing"} /\ file' = file \o buf[p] /\ buf'[p] = <<>>
        /\ at' = at
        /\ pc'[p] \in {"chunk0", "fetch", "idle"} /\ (pc[p] = "write0" => pc'[p] = "chunk0")
    <3>1. pc[p] \in {"write0", "flushing"} /\ file' = file \o buf[p] /\ at' = at /\ AfterAppend(p)
      BY <1>5 DEF AppendWrite, AppendWriting
    <3>2. buf'[p] = <<>>
      BY <1>0, <3>1 DEF AfterAppend
    <3>3. pc'[p] = CASE pc[p] \in {"append0", "write0"} -> "chunk0"
                     [] pc[p] \in {"flush", "flushing"} /\ at[p] < until[p] -> "fetch"
                     [] OTHER -> "idle"
      BY <1>0, <3>1 DEF AfterAppend
    <3>4. pc[p] = "write0" => pc'[p] = "chunk0"
      BY <3>3
    <3>5. pc[p] = "flushing" => pc'[p] \in {"fetch", "idle"}
      BY <3>3
    <3> QED BY <3>1, <3>2, <3>4, <3>5
  <2>2. /\ Len(file') = Len(file) + Len(buf[p])
        /\ Holds(file, 0) /\ Holds(buf[p], Len(file)) => Holds(file', 0)
    BY <1>0, <2>1, ConcatHolds
  <2>3. ASSUME Holds(file, 0), PlaceOf(p), ~Accident(p) PROVE Holds(file, 0)' /\ PlaceOf(p)'
    <3>1. CASE pc[p] = "write0"
      <4>1. file = <<>> /\ buf[p] = <<0>>
        BY <1>5, <2>3, <3>1 DEF Accident, BufOf
      <4>2. Holds(<<0>>, 0) /\ Len(<<>>) = 0
        BY DEF Holds
      <4>3. Holds(buf[p], Len(file))
        BY <4>1, <4>2
      <4> QED BY <2>1, <2>2, <2>3, <3>1, <4>3 DEF PlaceOf
    <3>2. CASE pc[p] = "flushing"
      <4>1. Holds(buf[p], Len(file)) /\ at[p] = Len(file) + Len(buf[p])
        BY <2>3, <3>2 DEF PlaceOf
      <4>2. Holds(buf'[p], Len(file')) /\ Len(buf'[p]) = 0 /\ Len(buf[p]) \in Nat
        BY <1>0, <2>1, NothingHeld
      <4> QED BY <1>0, <2>1, <2>2, <2>3, <4>1, <4>2 DEF PlaceOf
    <3> QED BY <2>1, <3>1, <3>2
  <2> QED BY <2>1, <2>3 DEF Kept, StampOf, BufOf, Collecting
<1>6. CASE Prepare(p)
  <2>1. /\ pc[p] = "prepare" /\ file' = file
        /\ \/ pc'[p] = "batch" /\ buf' = buf
           \/ pc'[p] = "append0" /\ buf'[p] = <<0>>
    BY <1>0, <1>6 DEF Prepare
  <2> QED BY <2>1 DEF Kept, StampOf, BufOf, PlaceOf, Collecting, Holds
<1>7. CASE WriteChunkZero(p) \/ WriteRecordFails(p) \/ Consolidate(p)
  <2>1. /\ pc[p] \in {"chunk0", "stamp", "backfill", "stamped", "backfilled"} /\ pc'[p] = "batch"
        /\ file' = file /\ buf' = buf
    BY <1>0, <1>7 DEF WriteChunkZero, WriteRecordFails, Consolidate
  <2> QED BY <2>1 DEF Kept, StampOf, BufOf, PlaceOf, Collecting, Holds
<1>8. CASE WriteTimestamps(p)
  <2>1. Last \in Nat
    <3>1. height + BlockCnt \in Nat
      BY <1>0, NumbersAre
    <3> QED BY <1>0, <3>1, NumbersAre DEF Last
  <2>2. /\ pc[p] = "batch" /\ file' = file /\ buf' = buf /\ fd' = fd \cup {p}
        /\ batchLast'[p] = Last
        /\ \/ Last < Len(file) /\ pc'[p] = "stamped"
           \/ pc'[p] = "backfill" /\ at'[p] = Len(file)
           \/ /\ pc'[p] = "stamp" /\ ~ (height + 1 > Len(file))
              /\ at'[p] = MaxOf(height + 1, Len(file)) /\ until'[p] = Last + 1
    BY <1>0, <1>8, <2>1 DEF WriteTimestamps, StartBatch
  <2>3. ~ (height + 1 > Len(file)) => MaxOf(height + 1, Len(file)) = Len(file)
    BY <1>0 DEF MaxOf
  <2>4. pc'[p] \in {"stamped", "backfill", "stamp"} /\ p \in fd'
    <3>1. pc'[p] \in {"stamped", "backfill", "stamp"}
      BY <2>2, Zenon
    <3> QED BY <2>2, <3>1
  <2>5. StampOf(p)'
    BY <2>2, <2>3, <2>4 DEF StampOf
  <2>6. BufOf(p)'
    BY <2>2, <2>4 DEF BufOf, Collecting
  <2>7. PlaceOf(p)' /\ (Holds(file, 0) => Holds(file, 0)')
    BY <2>2, <2>4 DEF PlaceOf, Collecting, Holds
  <2> QED BY <2>5, <2>6, <2>7 DEF Kept
<1>9. CASE WriteRecord(p)
  <2>1. /\ pc[p] \in {"stamp", "backfill"} /\ p \in fd /\ at[p] = Len(file)
        /\ file' = Append(file, at[p]) /\ at'[p] = at[p] + 1
        /\ UNCHANGED <<pc, fd, until, batchLast, buf>>
    BY <1>0, <1>9 DEF WriteRecord, StampOf
  <2>a. file \in Seq(Nat) /\ at[p] \in Nat /\ at[p] = 0 + Len(file)
    BY <1>0, <2>1
  <2>2. Len(file') = Len(file) + 1 /\ (Holds(file, 0) => Holds(file', 0))
    <3>1. Len(Append(file, at[p])) = Len(file) + 1
      BY <2>a
    <3>2. Holds(file, 0) => Holds(Append(file, at[p]), 0)
      BY <2>a, AppendHolds
    <3> QED BY <2>1, <3>1, <3>2
  <2> QED BY <1>0, <2>1, <2>2 DEF Kept, StampOf, BufOf, PlaceOf, Collecting
<1>10. CASE WriteDone(p)
  <2>1. /\ pc[p] \in {"stamp", "backfill"} /\ at[p] = until[p] /\ at[p] = Len(file)
        /\ pc'[p] = IF pc[p] = "stamp" THEN "stamped" ELSE "backfilled"
        /\ UNCHANGED <<file, batchLast, buf>>
    BY <1>0, <1>10 DEF WriteDone, StampOf
  <2>2. pc[p] = "stamp" => batchLast[p] < Len(file)
    <3>1. batchLast[p] \in Nat
      BY <1>0
    <3> QED BY <1>0, <2>1, <3>1 DEF StampOf
  <2> QED BY <2>1, <2>2 DEF Kept, StampOf, BufOf, PlaceOf, Collecting, Holds
<1>11. CASE Update(p)
  <2>1. /\ pc[p] = "update" /\ UNCHANGED <<file, buf>>
        /\ \/ pc'[p] = "fetch" /\ at'[p] = Len(file)
           \/ pc'[p] = "idle"
    BY <1>0, <1>11 DEF Update
  <2>2. buf[p] = <<>> /\ Len(buf[p]) = 0 /\ Holds(buf[p], Len(file))
    BY <2>1, NothingHeld DEF BufOf, Collecting
  <2> QED BY <1>0, <2>1, <2>2 DEF Kept, StampOf, BufOf, PlaceOf, Collecting
<1>12. CASE Fetch(p)
  <2>1. /\ pc[p] = "fetch" /\ file' = file /\ at'[p] = at[p] + 1 /\ pc'[p] \in {"flush", "fetch"}
    BY <1>0, <1>12 DEF Fetch
  <2>2. ASSUME Holds(file, 0), PlaceOf(p), ~Accident(p) PROVE Holds(file, 0)' /\ PlaceOf(p)'
    <3>1. buf'[p] = Append(buf[p], at[p])
      BY <1>12, <2>2 DEF Accident
    <3>2. Holds(buf[p], Len(file)) /\ at[p] = Len(file) + Len(buf[p])
      BY <2>1, <2>2 DEF PlaceOf
    <3>3. Holds(buf'[p], Len(file)) /\ Len(buf'[p]) = Len(buf[p]) + 1 /\ Len(buf[p]) \in Nat
      <4>1. Len(file) \in Nat /\ Len(buf[p]) \in Nat
        BY <1>0
      <4>2. Len(Append(buf[p], at[p])) = Len(buf[p]) + 1
        BY <1>0, AppendHolds
      <4>3. Holds(Append(buf[p], at[p]), Len(file))
        BY <1>0, <3>2, <4>1, AppendHolds
      <4> QED BY <3>1, <4>1, <4>2, <4>3
    <3> QED BY <1>0, <2>1, <2>2, <3>2, <3>3 DEF PlaceOf
  <2> QED BY <2>1, <2>2 DEF Kept, StampOf, BufOf, Collecting
<1>13. CASE Truncate(p)
  <2>1. PICK b \in 0 .. MaxBlock :
          IF exists /\ b + 1 < nTimestamps
          THEN /\ pc' = [pc EXCEPT ![p] = "remove"]
               /\ buf' = [buf EXCEPT ![p] = SubSeq(file, 1, b + 1)]
               /\ backup' = [backup EXCEPT ![p] = [has |-> TRUE, recs |-> file]]
          ELSE pc' = [pc EXCEPT ![p] = "idle"] /\ UNCHANGED <<buf, backup>>
    BY <1>13 DEF Truncate
  <2>2. pc[p] = "truncate" /\ file' = file /\ b + 1 \in Nat
    BY <1>13, NumbersAre DEF Truncate
  <2>3. CASE exists /\ b + 1 < nTimestamps
    <3>1. pc'[p] = "remove" /\ buf'[p] = SubSeq(file, 1, b + 1) /\ backup'[p].recs = file
      BY <1>0, <2>1, <2>3
    <3>2. Holds(file, 0) => Holds(buf'[p], 0)
      BY <1>0, <2>2, <2>3, <3>1, FrontHolds
    <3> QED BY <2>2, <3>1, <3>2 DEF Kept, StampOf, BufOf, PlaceOf, Collecting
  <2>4. CASE ~ (exists /\ b + 1 < nTimestamps)
    <3>1. pc'[p] = "idle" /\ buf'[p] = <<>>
      BY <1>0, <2>1, <2>2, <2>4 DEF BufOf, Collecting
    <3> QED BY <2>2, <3>1, IdleKept DEF Collecting
  <2> QED BY <2>3, <2>4
<1>14. CASE RemoveFile(p)
  <2>1. /\ pc[p] = "remove" /\ pc'[p] = "rewrite" /\ file' = <<>> /\ UNCHANGED <<buf, backup>>
    BY <1>0, <1>14 DEF RemoveFile
  <2> QED BY <2>1, NothingHeld DEF Kept, StampOf, BufOf, PlaceOf, Collecting
<1>15. CASE Rewrite(p)
  <2>1. pc[p] = "rewrite" /\ Forget(p) /\ file = <<>>
        /\ file' = buf[p] \o SubSeq(file, Len(buf[p]) + 1, Len(file))
    BY <1>15 DEF Rewrite, BufOf
  <2>2. SubSeq(<<>>, Len(buf[p]) + 1, 0) = <<>>
    BY <1>0, SubSeqEmpty
  <2>3. file' = buf[p]
    BY <1>0, <2>1, <2>2, NothingHeld, ConcatEmptySeq
  <2>4. pc'[p] = "idle" /\ buf'[p] = <<>>
    BY <2>1, ForgetTypes
  <2> QED BY <2>1, <2>3, <2>4, IdleKept DEF Collecting, PlaceOf
<1>16. CASE RewriteFails(p)
  <2>1. /\ pc[p] = "rewrite" /\ pc'[p] = "idle" /\ buf'[p] = <<>>
        /\ file' = file \/ file' = backup[p].recs
    BY <1>0, <1>16 DEF RewriteFails, Restore
  <2> QED BY <2>1, IdleKept DEF Collecting, PlaceOf
<1>17. CASE Repair(p)
  <2>1. /\ pc[p] = "repair" /\ pc'[p] = "idle" /\ buf'[p] = buf[p]
        /\ DOMAIN file' = DOMAIN file
    BY <1>0, <1>17 DEF Repair
  <2>2. ASSUME Holds(file, 0), ~Accident(p) PROVE Holds(file', 0)
    <3>1. \A i \in DOMAIN file : file'[i] = file[i] \/ file'[i] = i - 1
      BY <1>17, <2>2 DEF Accident
    <3>2. DOMAIN file = 1 .. Len(file) /\ Len(file') = Len(file)
      BY <1>0, <2>1 DEF TypeInv
    <3> QED BY <2>2, <3>1, <3>2 DEF Holds
  <2> QED BY <2>1, <2>2, IdleKept DEF Collecting, BufOf
<1>18. CASE Touch(p)
  <2>1. /\ pc[p] = "touch" /\ pc'[p] = "idle" /\ buf' = buf
        /\ file' = file \/ \E n \in 0 .. MaxBlock + 1 : file' = Records(n)
    BY <1>0, <1>18 DEF Touch
  <2>2. \A n \in 0 .. MaxBlock + 1 : Holds(Records(n), 0)
    BY NumbersAre, RecordsAre
  <2> QED BY <2>1, <2>2, IdleKept DEF Collecting, BufOf
<1> HIDE DEF disk, work, Goto, nTimestamps
<1> QED BY <1>1, <1>2, <1>3, <1>4, <1>5, <1>6, <1>7, <1>8, <1>9, <1>10, <1>11, <1>12, <1>13, <1>14,
           <1>15, <1>16, <1>17, <1>18 DEF Step

\* Every step keeps the invariant.
LEMMA InvStep ==
  ASSUME OneProcess, FileInv, [Next]_<<vars, slipped>>
  PROVE  FileInv'
<1>1. TypeInv /\ WorkInv /\ PlaceInv /\ TypeInv'
  BY TypeStep DEF FileInv
<1>2. CASE UNCHANGED <<vars, slipped>>
  BY <1>1, <1>2 DEF FileInv, vars, disk, work, WorkInv, PlaceInv, StampOf, BufOf, PlaceOf, Holds,
     nTimestamps
<1>3. CASE NewBlock /\ (slipped => slipped')
  BY <1>1, <1>3 DEF NewBlock, FileInv, disk, work, WorkInv, PlaceInv, StampOf, BufOf, PlaceOf,
     Holds, nTimestamps
<1>4. ASSUME NEW p \in Procs, Step(p) \/ Crash(p), slipped \/ Accident(p) => slipped'
      PROVE  FileInv'
  <2>1. Kept(p)
    BY <1>1, <1>4, StepKept DEF WorkInv
  <2>2. \A q \in Procs : q = p
    BY DEF OneProcess
  <2>3. WorkInv'
    BY <2>1, <2>2 DEF WorkInv, Kept
  <2>4. PlaceInv'
    <3>1. CASE slipped'
      BY <3>1 DEF PlaceInv
    <3>2. CASE ~slipped'
      <4>1. Holds(file, 0) /\ PlaceOf(p) /\ ~Accident(p)
        BY <1>1, <1>4, <3>2 DEF PlaceInv
      <4> QED BY <2>1, <2>2, <4>1 DEF PlaceInv, Kept
    <3> QED BY <3>1, <3>2
  <2> QED BY <1>1, <2>3, <2>4 DEF FileInv
<1> QED BY <1>2, <1>3, <1>4 DEF Next

\* At the start a file is missing or has its records in place.
LEMMA InvInit == Init => FileInv
<1> SUFFICES ASSUME Init PROVE FileInv
  OBVIOUS
<1>1. /\ file \in Seq(Nat) /\ Holds(file, 0)
  <2>1. \A n \in 0 .. MaxBlock + 1 : Records(n) \in Seq(Nat) /\ Holds(Records(n), 0)
    BY NumbersAre, RecordsAre
  <2> QED BY <2>1, NothingHeld DEF Init
<1>2. height \in Nat /\ head \in Nat
  <2>1. height \in Nat
    <3>1. MaxBlock - UnripeDist \in Int /\ 0 \in Int
      BY NumbersAre
    <3>2. MaxOf(0, MaxBlock - UnripeDist) \in Int
      BY <3>1 DEF MaxOf
    <3> QED BY <3>2 DEF Init
  <2> QED BY <2>1, NumbersAre DEF Init
<1>3. TypeInv
  <2>1. NoBackup \in [has : BOOLEAN, recs : Seq(Nat)] /\ <<>> \in Seq(Nat)
    BY NothingHeld DEF NoBackup
  <2> QED BY <1>1, <1>2, <2>1 DEF Init, TypeInv
<1>4. \A p \in Procs : pc[p] = "idle" /\ buf[p] = <<>>
  BY DEF Init
<1> QED BY <1>1, <1>3, <1>4
        DEF FileInv, WorkInv, PlaceInv, StampOf, BufOf, PlaceOf, Collecting

\* The invariant holds throughout, for commands one after another.
LEMMA Positions == ASSUME OneProcess PROVE Spec => []FileInv
<1>1. FileInv /\ [Next]_<<vars, slipped>> => FileInv'
  BY InvStep
<1> QED BY <1>1, InvInit, PTL DEF Spec

\* Record n is the record of block n, for one process and any commands, kills,
\* interrupts, truncations and failed writes, until one of the four accidents.
THEOREM PlacedOrExplained == ASSUME OneProcess PROVE Spec => []MisplacedIsExplained
<1>1. FileInv => MisplacedIsExplained
  <2> SUFFICES ASSUME FileInv, ~slipped PROVE RecordsInPlace
    BY DEF MisplacedIsExplained
  <2>1. Holds(file, 0) /\ file \in Seq(Nat)
    BY DEF FileInv, PlaceInv, TypeInv
  <2>2. DOMAIN file = 1 .. Len(file)
    BY <2>1
  <2> QED BY <2>1, <2>2 DEF Holds, RecordsInPlace
<1> QED BY <1>1, Positions, PTL

\* When WriteTimestamps has appended a batch, accident or not, every block of it
\* has a record.
THEOREM StampedToTheEnd == ASSUME OneProcess PROVE Spec => []BatchIsStamped
<1>1. FileInv => BatchIsStamped
  BY DEF FileInv, WorkInv, StampOf, BatchIsStamped
<1> QED BY <1>1, Positions, PTL
=============================================================================
