--------------------------- MODULE DownloadProofs ---------------------------
(***************************************************************************)
(* Proofs about chifra init: for any manifests, discs, options, pools and  *)
(* retries, and whatever fails, is interrupted or killed, an init that     *)
(* returns leaves the index that the manifest describes, and no file cut   *)
(* short that it did not find.                                             *)
(***************************************************************************)
EXTENDS Download, Integers, WellFoundedInduction, TLAPS

Places == {"none", "todo", "fetch", "fetched", "channel", "held", "write", "writing", "done"}

TypeInv ==
    /\ disc \in [Chunks -> [Pieces -> Files]]
    /\ jobs \in [Pieces -> [Chunks -> Places]]
    /\ failed \in [Pieces -> SUBSET Chunks]
    /\ deleteMap \subseteq Chunks

Starting == {"local", "saveLocal", "remote", "saveRemote", "update", "saveUpdate", "walk"}
Walked == {"remove", "download", "ok"}

\* how far HandleInit has come: the disc is as it was until the walk, the local
\* manifest has been merged from then on, and only DownloadChunks has jobs
PlaceInv ==
    /\ pc \in Starting \cup Walked \cup {"idle", "error"}
    /\ pc # "idle" => ~temp
    /\ pc \in Starting => disc = before
    /\ pc = "saveLocal" => remote \in Remotes
    /\ pc \in {"saveRemote", "update", "saveUpdate", "walk"} \cup Walked => remote \in Remotes
    /\ pc \in {"walk"} \cup Walked => manifest = Whole(Updated)
    /\ pc # "download" => \A t \in Pieces, c \in Chunks : jobs[t][c] \in {"none", "done"}
    /\ pc \notin {"download", "ok"} => \A t \in Pieces : failed[t] = {}

\* a chunk that is not in the manifest: later ones stay, the others go
StrayOf(c) ==
    IF Later(c) THEN disc[c] = before[c] /\ c \notin deleteMap
    ELSE disc[c]["bloom"] = "none" \/ c \in deleteMap

\* the two ways in which a file stays cut short
Explained(c, t) ==
    before[c][t] = "short" /\ (Later(c) \/ (t = "index" /\ before[c]["bloom"] = "none"))

WalkInv == pc \in Walked =>
    /\ \A c \in Chunks \ remote : StrayOf(c)
    /\ pc # "remove" => deleteMap = {}
    /\ \A c \in Chunks, t \in Pieces : disc[c][t] = "short" =>
         \/ Explained(c, t) \/ jobs[t][c] = "writing"
         \/ c \in deleteMap /\ before[c][t] = "short"

\* a chunk of the manifest is good, or its job is not done, or it has failed
Pending == Places \ {"none", "done"}
JobInv == pc \in {"download", "ok"} => \A t \in Pieces, c \in Chunks :
    /\ jobs[t][c] # "none" \/ c \in failed[t] => c \in remote
    /\ c \in remote /\ c >= opts.first =>
         Okay(c, t) \/ jobs[t][c] \in Pending \/ c \in failed[t] \/ t \in canceled

InitInv == TypeInv /\ PlaceInv /\ WalkInv /\ JobInv

-----------------------------------------------------------------------------
(* The last chunk of a manifest.                                           *)

\* Chunks are numbered from 0, and every manifest names some of them.
LEMMA ChunksAre ==
  /\ NChunks - 1 \in Nat /\ Chunks = 0 .. NChunks - 1 /\ 0 \in Chunks
  /\ \A m \in Remotes : m \subseteq Chunks /\ m # {}
  /\ \A c \in Chunks : c \in Nat
<1>1. NChunks - 1 \in Nat /\ NChunks \in Nat
  BY DownloadAssumption
<1>2. Remotes \subseteq SUBSET Chunks /\ {} \notin Remotes
  BY DownloadAssumption
<1>3. Chunks = 0 .. NChunks - 1
  BY DEF Chunks
<1>4. 0 \in Chunks /\ \A c \in Chunks : c \in Nat
  BY <1>1, <1>3
<1> QED BY <1>1, <1>2, <1>3, <1>4

\* A set of bounded numbers that is not empty has a greatest one.
LEMMA HasGreatest ==
  ASSUME NEW N \in Nat, NEW S \in SUBSET (0 .. N), S # {}
  PROVE  \E x \in S : \A y \in S : x >= y
<1> DEFINE T == {N - x : x \in S}
           R == OpToRel(<, Nat)
<1>0. S \subseteq 0 .. N
  OBVIOUS
<1>1. T \subseteq Nat /\ T # {}
  <2>1. \A x \in S : N - x \in Nat
    BY <1>0
  <2> QED BY <2>1
<1>2. PICK t \in T : \A u \in T : ~ (<<u, t>> \in R)
  <2> HIDE DEF T, R
  <2> QED BY <1>1, NatLessThanWellFounded, WFMin DEF R
<1>3. \A u \in T : ~ (u < t)
  BY <1>1, <1>2 DEF OpToRel
<1>4. PICK x \in S : t = N - x
  OBVIOUS
<1>5. \A y \in S : x >= y
  <2> SUFFICES ASSUME NEW y \in S PROVE x >= y
    OBVIOUS
  <2>1. x \in 0 .. N /\ y \in 0 .. N
    BY <1>0
  <2>2. N - y \in T
    OBVIOUS
  <2>3. ~ (N - y < N - x)
    BY <1>3, <1>4, <2>2
  <2> QED BY <2>1, <2>3
<1> QED BY <1>5

\* The last chunk of a manifest is one of its chunks, and no other is later.
LEMMA LastIs ==
  ASSUME NEW m \in Remotes
  PROVE  Last(m) \in m /\ Last(m) \in Nat /\ \A c \in m : c <= Last(m) /\ c \in Nat
<1>1. NChunks - 1 \in Nat /\ m \in SUBSET (0 .. NChunks - 1) /\ m # {}
  BY ChunksAre
<1>2. PICK x \in m : \A y \in m : x >= y
  BY <1>1, HasGreatest
<1>3. Max(m) \in m /\ \A y \in m : y <= Max(m)
  BY <1>2 DEF Max
<1>4. \A y \in m : y \in Nat
  BY <1>1
<1> QED BY <1>3, <1>4 DEF Last

-----------------------------------------------------------------------------
(* A job advances.                                                         *)

\* What the steps of DownloadChunks have in common: a job that is not done goes on,
\* it is done only when the file is good, or it has failed, or the user interrupts,
\* and a file is cut short only while it is being written.
Advance(t, c) ==
    /\ jobs[t][c] \in Pending
    /\ \E at \in Pending \cup {"done"} :
        /\ jobs' = [jobs EXCEPT ![t][c] = at]
        /\ \/ disc' = disc /\ jobs[t][c] # "writing"
           \/ at = "writing" /\ disc' = [disc EXCEPT ![c][t] = "short"]
           \/ at = "done" /\ \E f \in {"good", "none"} : disc' = [disc EXCEPT ![c][t] = f]
        /\ failed' = failed \/ failed' = [failed EXCEPT ![t] = @ \cup {c}]
        /\ at = "done" =>
             \/ disc' = [disc EXCEPT ![c][t] = "good"]
             \/ failed' = [failed EXCEPT ![t] = @ \cup {c}]
             \/ t \in canceled
    /\ UNCHANGED <<manifest, temp, pc, memory, signalled, canceled, before>>

\* Whatever a pool does with a job moves that job, and no other.
LEMMA DownloadAdvances ==
  ASSUME NEW t \in Pieces, NEW c \in Chunks,
         \/ Fetch(t, c) \/ Fetched(t, c) \/ SendResult(t, c)
         \/ TakeResult(t, c) \/ InvokeWriter(t, c) \/ OpenFile(t, c) \/ WriteBytes(t, c)
  PROVE  Advance(t, c)
<1> USE DEF DownloadOnly, Move, Fail
<1>0. "done" \in Pending \cup {"done"} /\ \A at \in Pending : at \in Pending \cup {"done"}
  OBVIOUS
<1>p. Pending = {"todo", "fetch", "fetched", "channel", "held", "write", "writing"}
  BY DEF Pending, Places
<1> DEFINE Unless(at) ==  \* a worker that is canceled returns
      /\ jobs[t][c] \in Pending /\ jobs[t][c] # "writing"
      /\ disc' = disc /\ failed' = failed
      /\ jobs' = [jobs EXCEPT ![t][c] = IF t \in canceled THEN "done" ELSE at]
      /\ UNCHANGED <<manifest, temp, pc, memory, signalled, canceled, before>>
<1>u. ASSUME NEW at \in Pending, Unless(at) PROVE Advance(t, c)
  <2>1. CASE t \in canceled
    <3>1. jobs' = [jobs EXCEPT ![t][c] = "done"]
      BY <1>u, <2>1
    <3> QED BY <1>u, <2>1, <3>1, <1>0 DEF Advance
  <2>2. CASE t \notin canceled
    <3>1. jobs' = [jobs EXCEPT ![t][c] = at] /\ at # "done"
      BY <1>u, <1>p, <2>2
    <3> QED BY <1>u, <2>2, <3>1, <1>0 DEF Advance
  <2> QED BY <2>1, <2>2
<1>m. ASSUME NEW at \in Pending, jobs[t][c] \in Pending, jobs[t][c] # "writing",
             disc' = disc, failed' = failed, jobs' = [jobs EXCEPT ![t][c] = at],
             UNCHANGED <<manifest, temp, pc, memory, signalled, canceled, before>>
      PROVE  Advance(t, c)
  BY <1>m, <1>0, <1>p DEF Advance
<1>f. ASSUME jobs[t][c] \in Pending, jobs[t][c] # "writing", disc' = disc,
             failed' = [failed EXCEPT ![t] = @ \cup {c}] \/ (failed' = failed /\ t \in canceled),
             jobs' = [jobs EXCEPT ![t][c] = "done"],
             UNCHANGED <<manifest, temp, pc, memory, signalled, canceled, before>>
      PROVE  Advance(t, c)
  BY <1>f, <1>0, <1>p DEF Advance
<1>1. CASE Fetch(t, c)
  <2>1. jobs[t][c] = "todo" /\ Move(t, c, IF t \in canceled THEN "done" ELSE "fetch")
        /\ UNCHANGED <<disc, failed, troubles>> /\ DownloadOnly
    BY <1>1 DEF Fetch
  <2> QED BY <2>1, <1>u, <1>p
<1>2. CASE Fetched(t, c)
  <2>1. jobs[t][c] = "fetch" /\ disc' = disc /\ DownloadOnly
    BY <1>2 DEF Fetched
  <2>2. \/ jobs' = [jobs EXCEPT ![t][c] = "fetched"] /\ failed' = failed
        \/ /\ jobs' = [jobs EXCEPT ![t][c] = "done"]
           /\ (failed' = [failed EXCEPT ![t] = @ \cup {c}] \/ (failed' = failed /\ t \in canceled))
    BY <1>2 DEF Fetched
  <2>3. CASE jobs' = [jobs EXCEPT ![t][c] = "fetched"] /\ failed' = failed
    BY <2>1, <2>3, <1>m, <1>p
  <2>4. CASE jobs' = [jobs EXCEPT ![t][c] = "done"]
             /\ (failed' = [failed EXCEPT ![t] = @ \cup {c}] \/ (failed' = failed /\ t \in canceled))
    BY <2>1, <2>4, <1>f, <1>p
  <2> QED BY <2>2, <2>3, <2>4
<1>3. CASE SendResult(t, c)
  BY <1>3, <1>m, <1>p DEF SendResult
<1>4. CASE TakeResult(t, c)
  BY <1>4, <1>u, <1>p DEF TakeResult
<1>5. CASE InvokeWriter(t, c)
  BY <1>5, <1>m, <1>p DEF InvokeWriter
<1>6. CASE OpenFile(t, c)
  <2>1. jobs[t][c] = "write" /\ DownloadOnly
    BY <1>6 DEF OpenFile
  <2>2. \/ /\ jobs' = [jobs EXCEPT ![t][c] = "writing"] /\ failed' = failed
           /\ disc' = [disc EXCEPT ![c][t] = "short"]
        \/ /\ jobs' = [jobs EXCEPT ![t][c] = "done"] /\ disc' = disc
           /\ (failed' = [failed EXCEPT ![t] = @ \cup {c}] \/ (failed' = failed /\ t \in canceled))
    BY <1>6 DEF OpenFile
  <2>3. CASE jobs' = [jobs EXCEPT ![t][c] = "writing"] /\ failed' = failed
             /\ disc' = [disc EXCEPT ![c][t] = "short"]
    BY <2>1, <2>3, <1>p, <1>0 DEF Advance
  <2>4. CASE jobs' = [jobs EXCEPT ![t][c] = "done"] /\ disc' = disc
             /\ (failed' = [failed EXCEPT ![t] = @ \cup {c}] \/ (failed' = failed /\ t \in canceled))
    BY <2>1, <2>4, <1>f, <1>p
  <2> QED BY <2>2, <2>3, <2>4
<1>7. CASE WriteBytes(t, c)
  BY <1>7, <1>p, <1>0 DEF WriteBytes, Advance
<1> QED BY <1>1, <1>2, <1>3, <1>4, <1>5, <1>6, <1>7

-----------------------------------------------------------------------------
(* Types and places.                                                       *)

\* Before the first chifra init.
LEMMA InvInit == Init => InitInv
<1> SUFFICES ASSUME Init PROVE InitInv
  OBVIOUS
<1>1. disc \in [Chunks -> [Pieces -> Files]]
  BY DownloadAssumption DEF Init
<1>2. jobs \in [Pieces -> [Chunks -> Places]] /\ \A t \in Pieces, c \in Chunks : jobs[t][c] = "none"
  BY DEF Init, NoJobs, Places
<1>3. failed \in [Pieces -> SUBSET Chunks] /\ \A t \in Pieces : failed[t] = {}
  BY DEF Init
<1>4. TypeInv
  BY <1>1, <1>2, <1>3 DEF Init, TypeInv
<1>5. PlaceInv
  BY <1>2, <1>3 DEF Init, PlaceInv, Starting, Walked
<1>6. WalkInv /\ JobInv
  BY DEF Init, WalkInv, JobInv, Walked
<1> QED BY <1>4, <1>5, <1>6 DEF InitInv

\* The steps up to the walk.
Load == LoadLocal \/ SaveLocal \/ LoadRemote \/ SaveRemote \/ updateLocalManifest \/ SaveUpdate

\* A run that ends takes its jobs and its lists with it.
LEMMA ForgetIs ==
  ASSUME Forget
  PROVE  /\ jobs' \in [Pieces -> [Chunks -> Places]]
         /\ \A t \in Pieces, c \in Chunks : jobs'[t][c] = "none"
         /\ failed' \in [Pieces -> SUBSET Chunks] /\ \A t \in Pieces : failed'[t] = {}
         /\ deleteMap' = {}
<1>1. jobs' = NoJobs /\ failed' = [t \in Pieces |-> {}] /\ deleteMap' = {}
  BY DEF Forget
<1>2. NoJobs \in [Pieces -> [Chunks -> Places]] /\ \A t \in Pieces, c \in Chunks : NoJobs[t][c] = "none"
  BY DEF NoJobs, Places
<1> QED BY <1>1, <1>2

\* The jobs of a new pool are those of its list.
LEMMA TodoIs ==
  ASSUME NEW t \in Pieces, NEW list
  PROVE  /\ Todo(t, list) \in [Chunks -> Places]
         /\ \A c \in Chunks : Todo(t, list)[c] = IF c \in list THEN "todo" ELSE "none"
BY DEF Todo, Places

\* Every step keeps the types.
LEMMA TypeStep ==
  ASSUME TypeInv, [Next]_vars
  PROVE  TypeInv'
<1> USE DEF TypeInv
<1>s. ASSUME UNCHANGED <<disc, jobs, failed, deleteMap>> PROVE TypeInv'
  BY <1>s
<1>1. CASE Begin
  BY <1>1, ForgetIs DEF Begin
<1>2. CASE Load
  BY <1>2, <1>s DEF Load, LoadLocal, SaveLocal, LoadRemote, SaveRemote, updateLocalManifest,
     SaveUpdate, Save, Step, getters
<1>3. CASE cleanIndex
  BY <1>3 DEF cleanIndex, files, getters
<1>4. CASE \E c \in Chunks : RemoveInvalid(c)
  <2>1. PICK c \in Chunks : RemoveInvalid(c)
    BY <1>4
  <2>2. \A p \in Pieces : [disc EXCEPT ![c][p] = "none"] \in [Chunks -> [Pieces -> Files]]
    BY DEF Files
  <2>3. disc' \in [Chunks -> [Pieces -> Files]] /\ deleteMap' \subseteq Chunks
    BY <2>1, <2>2 DEF RemoveInvalid, Pieces
  <2> QED BY <2>1, <2>3 DEF RemoveInvalid, getters
<1>5. CASE StartDownload
  <2>1. [t \in Pieces |-> Todo(t, ToDownload(t))] \in [Pieces -> [Chunks -> Places]]
    BY TodoIs
  <2> QED BY <1>5, <2>1 DEF StartDownload, memory
<1>6. CASE \E t \in Pieces : DownloadChunks(t)
  <2>1. PICK t \in Pieces, c \in Chunks : Advance(t, c)
    BY <1>6, DownloadAdvances DEF DownloadChunks
  <2>2. jobs' \in [Pieces -> [Chunks -> Places]]
    BY <2>1 DEF Advance, Pending, Places
  <2>3. disc' \in [Chunks -> [Pieces -> Files]]
    <3>1. \A f \in Files : [disc EXCEPT ![c][t] = f] \in [Chunks -> [Pieces -> Files]]
      OBVIOUS
    <3>2. \/ disc' = disc
          \/ disc' = [disc EXCEPT ![c][t] = "short"]
          \/ \E f \in {"good", "none"} : disc' = [disc EXCEPT ![c][t] = f]
      BY <2>1 DEF Advance
    <3>3. {"short", "good", "none"} \subseteq Files
      BY DEF Files
    <3>4. CASE disc' = disc
      BY <3>4
    <3>5. CASE disc' # disc
      <4>1. PICK f \in {"short", "good", "none"} : disc' = [disc EXCEPT ![c][t] = f]
        BY <3>2, <3>5
      <4>2. f \in Files
        BY <3>3
      <4> QED BY <3>1, <4>1, <4>2
    <3> QED BY <3>4, <3>5
  <2>4. failed' \in [Pieces -> SUBSET Chunks]
    <3>1. [failed EXCEPT ![t] = @ \cup {c}] \in [Pieces -> SUBSET Chunks]
      OBVIOUS
    <3> QED BY <2>1, <3>1 DEF Advance
  <2> QED BY <2>1, <2>2, <2>3, <2>4 DEF Advance, memory
<1>7. CASE \E t \in Pieces : Retry(t)
  <2>1. PICK t \in Pieces : Retry(t)
    BY <1>7
  <2>2. jobs' \in [Pieces -> [Chunks -> Places]] /\ failed' \in [Pieces -> SUBSET Chunks]
    BY <2>1, TodoIs DEF Retry
  <2> QED BY <2>1, <2>2 DEF Retry, files, memory
<1>8. CASE Return
  BY <1>8, <1>s DEF Return, files, memory, getters
<1>9. CASE Kill \/ Sigint \/ \E t \in Pieces : Trap(t)
  <2>1. CASE Die
    BY <2>1, ForgetIs DEF Die, files
  <2>2. CASE ~Die
    BY <1>9, <2>2, <1>s DEF Kill, Sigint, Trap, files, memory
  <2> QED BY <2>1, <2>2
<1>10. CASE UNCHANGED vars
  BY <1>10, <1>s DEF vars, files, memory, getters
<1> QED BY <1>1, <1>2, <1>3, <1>4, <1>5, <1>6, <1>7, <1>8, <1>9, <1>10 DEF Next, HandleInit, Load

\* What is said of the place where an ended or failed init is.
LEMMA PlaceStep ==
  ASSUME TypeInv, PlaceInv, [Next]_vars
  PROVE  PlaceInv'
<1> USE DEF Starting, Walked
<1>s. ASSUME UNCHANGED <<disc, manifest, temp, pc, existing, remote, jobs, failed, before>>
      PROVE PlaceInv'
  <2>1. (manifest = Whole(Updated))' = (manifest = Whole(Updated))
    BY <1>s DEF Whole, Updated
  <2> QED BY <1>s, <2>1 DEF PlaceInv
<1>1. CASE Begin
  <2>1. pc' = "local" /\ temp' = FALSE /\ disc' = before' /\ Forget
    BY <1>1 DEF Begin
  <2> QED BY <2>1, ForgetIs DEF PlaceInv
<1>2. CASE Load
  <2>1. pc \in {"local", "saveLocal", "remote", "saveRemote", "update", "saveUpdate"}
        /\ UNCHANGED <<disc, temp, before, jobs, failed>>
    BY <1>2 DEF Load, LoadLocal, SaveLocal, LoadRemote, SaveRemote, updateLocalManifest,
       SaveUpdate, Save, Step, getters
  <2>2. \/ pc' \in {"remote", "error"}
        \/ pc' \in {"saveLocal", "saveRemote"} /\ remote' \in Remotes
        \/ pc = "saveRemote" /\ pc' = "update" /\ remote' = remote
        \/ pc = "update" /\ pc' = "saveUpdate" /\ remote' = remote
        \/ pc = "saveUpdate" /\ pc' = "walk" /\ UNCHANGED <<remote, existing>>
             /\ manifest' = Whole(Updated)
    BY <1>2 DEF Load, LoadLocal, SaveLocal, LoadRemote, SaveRemote, updateLocalManifest,
       SaveUpdate, Save, Step
  <2>3. pc' = "walk" => manifest' = (Whole(Updated))'
    BY <2>2 DEF Whole, Updated
  <2> QED BY <2>1, <2>2, <2>3 DEF PlaceInv
<1>d. ASSUME UNCHANGED <<manifest, temp, existing, remote, before>>, pc \in {"walk"} \cup Walked,
             pc' \in Walked \cup {"error"},
             pc' # "download" => \A t \in Pieces, c \in Chunks : jobs'[t][c] \in {"none", "done"},
             pc' \notin {"download", "ok"} => \A t \in Pieces : failed'[t] = {}
      PROVE  PlaceInv'
  <2>1. (manifest = Whole(Updated))' = (manifest = Whole(Updated))
    BY <1>d DEF Whole, Updated
  <2> QED BY <1>d, <2>1 DEF PlaceInv
<1>3. CASE cleanIndex
  BY <1>3, <1>d DEF cleanIndex, files, getters, PlaceInv
<1>4. CASE \E c \in Chunks : RemoveInvalid(c)
  BY <1>4, <1>d DEF RemoveInvalid, getters, PlaceInv
<1>5. CASE StartDownload
  BY <1>5, <1>d DEF StartDownload, memory, PlaceInv
<1>6. CASE \E t \in Pieces : DownloadChunks(t)
  <2>1. PICK t \in Pieces, c \in Chunks : Advance(t, c)
    BY <1>6, DownloadAdvances DEF DownloadChunks
  <2>2. pc = "download"
    BY <2>1 DEF Advance, PlaceInv, Pending
  <2> QED BY <2>1, <2>2, <1>d DEF Advance, memory
<1>7. CASE \E t \in Pieces : Retry(t)
  BY <1>7, <1>d DEF Retry, files, memory
<1>8. CASE Return
  <2>1. \A t \in Pieces, c \in Chunks : jobs[t][c] \in {"none", "done"}
    BY <1>8 DEF Return, Ended, Over, At
  <2> QED BY <1>8, <2>1, <1>d DEF Return, files, memory, getters
<1>9. CASE Kill \/ Sigint \/ \E t \in Pieces : Trap(t)
  <2>1. CASE Die
    BY <2>1, ForgetIs DEF Die, PlaceInv
  <2>2. CASE ~Die
    BY <1>9, <2>2, <1>s DEF Kill, Sigint, Trap, files, memory
  <2> QED BY <2>1, <2>2
<1>10. CASE UNCHANGED vars
  BY <1>10, <1>s DEF vars, files, memory, getters
<1> QED BY <1>1, <1>2, <1>3, <1>4, <1>5, <1>6, <1>7, <1>8, <1>9, <1>10 DEF Next, HandleInit, Load

-----------------------------------------------------------------------------
(* What the walk removes, and what the downloads put in its place.         *)

\* What is not in the manifest and not later is earlier than its last chunk.
LEMMA Earlier ==
  ASSUME remote \in Remotes, NEW c \in Chunks \ remote
  PROVE  Later(c) <=> ~ (c < Last(remote))
<1>1. Last(remote) \in remote /\ Last(remote) \in Nat /\ c \in Nat
  BY LastIs, ChunksAre
<1>2. c # Last(remote)
  BY <1>1
<1> QED BY <1>1, <1>2 DEF Later

\* The walk that lists what is to be removed (cleanIndex) keeps the invariant.
LEMMA CleanStep ==
  ASSUME InitInv, cleanIndex
  PROVE  WalkInv' /\ JobInv'
<1> DEFINE seen == {c \in Chunks : disc[c]["bloom"] # "none"}
           gone == {c \in seen : IF c \in remote THEN ~Okay(c, "bloom") \/ ~Okay(c, "index")
                                 ELSE c < Last(remote)}
<1>1. pc = "walk" /\ disc = before /\ UNCHANGED <<disc, before, remote, jobs>>
      /\ remote \in Remotes
  BY DEF cleanIndex, files, getters, InitInv, PlaceInv, Starting
<1>2. CASE pc' = "error"
  BY <1>2 DEF WalkInv, JobInv, Walked
<1>3. CASE pc' = "remove" /\ deleteMap' = gone
  <2>1. ASSUME NEW c \in Chunks \ remote PROVE StrayOf(c)'
    <3>1. c \in gone <=> c \in seen /\ ~Later(c)
      BY <1>1, <2>1, Earlier
    <3>2. Later(c)' = Later(c)
      BY <1>1 DEF Later
    <3> QED BY <1>1, <1>3, <2>1, <3>1, <3>2 DEF StrayOf
  <2>2. ASSUME NEW c \in Chunks, NEW t \in Pieces, disc[c][t] = "short"
        PROVE  Explained(c, t)' \/ c \in gone
    <3>1. Explained(c, t)' = Explained(c, t)
      BY <1>1 DEF Explained, Later
    <3>2. CASE c \in remote
      <4>1. ~Okay(c, t)
        BY <2>2 DEF Okay
      <4>2. c \in seen => c \in gone
        BY <3>2, <4>1 DEF Pieces
      <4> QED BY <1>1, <2>2, <3>1, <4>2 DEF Explained, Pieces
    <3>3. CASE c \notin remote
      <4>1. c \in gone <=> c \in seen /\ ~Later(c)
        BY <1>1, <3>3, Earlier
      <4> QED BY <1>1, <2>2, <3>1, <4>1 DEF Explained, Pieces
    <3> QED BY <3>2, <3>3
  <2>3. WalkInv'
    BY <1>1, <1>3, <2>1, <2>2 DEF WalkInv
  <2> QED BY <2>3, <1>3 DEF JobInv
<1> QED BY <1>2, <1>3 DEF cleanIndex

\* So does the removal of a chunk on that list.
LEMMA RemoveStep ==
  ASSUME InitInv, NEW c \in Chunks, RemoveInvalid(c)
  PROVE  WalkInv' /\ JobInv'
<1>1. pc = "remove" /\ pc' = "remove" /\ c \in deleteMap /\ WalkInv
      /\ UNCHANGED <<remote, before, jobs>>
  BY DEF RemoveInvalid, InitInv, getters
<1>t. disc \in [Chunks -> [Pieces -> Files]] /\ "bloom" \in Pieces /\ "index" \in Pieces
  BY DEF InitInv, TypeInv, Pieces
<1>2. \A d \in Chunks \ {c} : disc'[d] = disc[d] /\ (d \in deleteMap' <=> d \in deleteMap)
  BY <1>t DEF RemoveInvalid
<1>3. \/ disc'[c]["index"] = "none" /\ disc'[c]["bloom"] = disc[c]["bloom"] /\ deleteMap' = deleteMap
      \/ disc'[c]["index"] = disc[c]["index"] /\ disc[c]["index"] = "none"
         /\ disc'[c]["bloom"] = "none" /\ deleteMap' = deleteMap \ {c}
  BY <1>t DEF RemoveInvalid
<1>4. ASSUME NEW d \in Chunks \ remote PROVE StrayOf(d)'
  <2>1. StrayOf(d) /\ Later(d)' = Later(d)
    BY <1>1 DEF WalkInv, Walked, Later
  <2>2. CASE d = c
    BY <1>1, <1>3, <2>1, <2>2 DEF StrayOf
  <2>3. CASE d # c
    BY <1>1, <1>2, <2>1, <2>3 DEF StrayOf
  <2> QED BY <2>2, <2>3
<1>5. ASSUME NEW d \in Chunks, NEW t \in Pieces, disc'[d][t] = "short"
      PROVE  Explained(d, t)' \/ jobs'[t][d] = "writing"
             \/ (d \in deleteMap' /\ before'[d][t] = "short")
  <2>1. Explained(d, t)' = Explained(d, t)
    BY <1>1 DEF Explained, Later
  <2>2. disc[d][t] = "short" /\ (d \in deleteMap => d \in deleteMap')
    BY <1>2, <1>3, <1>5 DEF Pieces
  <2> QED BY <1>1, <2>1, <2>2 DEF WalkInv, Walked
<1> QED BY <1>1, <1>4, <1>5 DEF WalkInv, JobInv

\* Okay and the others read these only.
LEMMA Frame ==
  ASSUME UNCHANGED <<opts, remote, before>>, NEW c \in Chunks
  PROVE  /\ Later(c)' = Later(c)
         /\ \A t \in Pieces : Explained(c, t)' = Explained(c, t)
         /\ \A t \in Pieces : disc'[c][t] = disc[c][t] => Okay(c, t)' = Okay(c, t)
         /\ disc'[c] = disc[c] /\ deleteMap' = deleteMap => StrayOf(c)' = StrayOf(c)
BY DEF Later, Explained, Okay, Required, StrayOf

\* The list of what to download is made and both pools start.
LEMMA StartStep ==
  ASSUME InitInv, StartDownload
  PROVE  WalkInv' /\ JobInv'
<1>1. pc = "remove" /\ deleteMap = {} /\ WalkInv
      /\ UNCHANGED <<disc, opts, remote, deleteMap, before, failed>>
      /\ \A t \in Pieces : failed[t] = {}
  BY DEF StartDownload, InitInv, PlaceInv, memory
<1>2. CASE pc' = "error"
  BY <1>2 DEF WalkInv, JobInv, Walked
<1>3. CASE pc' = "download" /\ jobs' = [t \in Pieces |-> Todo(t, ToDownload(t))]
  <2>1. \A t \in Pieces, c \in Chunks :
          jobs'[t][c] = IF c \in ToDownload(t) THEN "todo" ELSE "none"
    BY <1>3, TodoIs
  <2>2. \A t \in Pieces, c \in Chunks : jobs[t][c] # "writing"
    BY <1>1 DEF InitInv, PlaceInv
  <2>3. WalkInv'
    <3>1. \A c \in Chunks \ remote : StrayOf(c)'
      BY <1>1, Frame DEF WalkInv, Walked
    <3>2. \A c \in Chunks, t \in Pieces : disc'[c][t] = "short" => Explained(c, t)'
      BY <1>1, <2>2, Frame DEF WalkInv, Walked
    <3> QED BY <1>1, <3>1, <3>2 DEF WalkInv
  <2>4. ASSUME NEW t \in Pieces, NEW c \in Chunks
        PROVE  /\ jobs'[t][c] # "none" \/ c \in failed'[t] => c \in remote
               /\ c \in remote /\ c >= opts.first => Okay(c, t)' \/ jobs'[t][c] = "todo"
    <3>1. Okay(c, t)' = Okay(c, t)
      BY <1>1, Frame
    <3> QED BY <1>1, <2>1, <3>1 DEF ToDownload
  <2>5. "todo" \in Pending
    BY DEF Pending, Places
  <2> QED BY <1>1, <2>3, <2>4, <2>5 DEF JobInv
<1> QED BY <1>2, <1>3 DEF StartDownload

\* A job changes its own file, of a chunk of the manifest, and says how it went.
LEMMA AdvanceStep ==
  ASSUME InitInv, NEW t \in Pieces, NEW c \in Chunks, Advance(t, c)
  PROVE  WalkInv' /\ JobInv'
<1>t. /\ disc \in [Chunks -> [Pieces -> Files]] /\ jobs \in [Pieces -> [Chunks -> Places]]
      /\ failed \in [Pieces -> SUBSET Chunks]
  BY DEF InitInv, TypeInv
<1>1. /\ pc = "download" /\ pc' = "download" /\ WalkInv /\ JobInv /\ deleteMap = {}
      /\ UNCHANGED <<opts, remote, deleteMap, before, canceled>>
      /\ jobs[t][c] \in Pending /\ jobs[t][c] # "none"
  BY DEF Advance, InitInv, PlaceInv, WalkInv, Walked, Pending, memory
<1>2. c \in remote
  BY <1>1 DEF JobInv
<1>3. PICK at \in Pending \cup {"done"} :
        /\ jobs' = [jobs EXCEPT ![t][c] = at]
        /\ \/ disc' = disc /\ jobs[t][c] # "writing"
           \/ at = "writing" /\ disc' = [disc EXCEPT ![c][t] = "short"]
           \/ at = "done" /\ \E f \in {"good", "none"} : disc' = [disc EXCEPT ![c][t] = f]
        /\ failed' = failed \/ failed' = [failed EXCEPT ![t] = @ \cup {c}]
        /\ at = "done" =>
             \/ disc' = [disc EXCEPT ![c][t] = "good"]
             \/ failed' = [failed EXCEPT ![t] = @ \cup {c}]
             \/ t \in canceled
  BY DEF Advance
<1>4. jobs'[t][c] = at /\ \A s \in Pieces, d \in Chunks : s # t \/ d # c => jobs'[s][d] = jobs[s][d]
  BY <1>3, <1>t
<1>5. \A d \in Chunks : d # c => disc'[d] = disc[d]
  <2>1. \A f : \A d \in Chunks : d # c => [disc EXCEPT ![c][t] = f][d] = disc[d]
    BY <1>t
  <2> QED BY <1>3, <2>1
<1>6. \A s \in Pieces : s # t => disc'[c][s] = disc[c][s]
  <2>1. disc' = disc \/ \E f : disc' = [disc EXCEPT ![c][t] = f]
    BY <1>3
  <2>2. CASE disc' # disc
    <3>1. PICK f : disc' = [disc EXCEPT ![c][t] = f]
      BY <2>1, <2>2
    <3> QED BY <3>1, <1>t
  <2> QED BY <2>2
<1>7. \A s \in Pieces, d \in Chunks :
        failed[s] \subseteq failed'[s] /\ (d \in failed'[s] => d \in failed[s] \/ (s = t /\ d = c))
  BY <1>3, <1>t
<1>8. at = "done" => disc'[c][t] = "good" \/ c \in failed'[t] \/ t \in canceled
  BY <1>3, <1>t
<1>9. disc'[c][t] = "short" => at = "writing" \/ (disc[c][t] = "short" /\ jobs[t][c] # "writing")
  <2>1. \A f : [disc EXCEPT ![c][t] = f][c][t] = f
    BY <1>t
  <2> QED BY <1>3, <2>1
<1>10. WalkInv'
  <2>1. \A d \in Chunks \ remote : StrayOf(d)'
    BY <1>1, <1>2, <1>5, Frame DEF WalkInv, Walked
  <2>2. ASSUME NEW d \in Chunks, NEW s \in Pieces, disc'[d][s] = "short"
        PROVE  Explained(d, s)' \/ jobs'[s][d] = "writing"
    <3>1. Explained(d, s)' = Explained(d, s)
      BY <1>1, Frame
    <3>2. CASE s = t /\ d = c
      BY <1>1, <1>4, <1>9, <2>2, <3>1, <3>2 DEF WalkInv, Walked
    <3>3. CASE ~ (s = t /\ d = c)
      <4>1. disc[d][s] = "short" /\ jobs'[s][d] = jobs[s][d]
        BY <1>4, <1>5, <1>6, <2>2, <3>3
      <4> QED BY <1>1, <3>1, <4>1 DEF WalkInv, Walked
    <3> QED BY <3>2, <3>3
  <2> QED BY <1>1, <2>1, <2>2 DEF WalkInv
<1>11. JobInv'
  <2> SUFFICES ASSUME NEW s \in Pieces, NEW d \in Chunks
        PROVE  /\ jobs'[s][d] # "none" \/ d \in failed'[s] => d \in remote'
               /\ d \in remote' /\ d >= opts'.first =>
                    Okay(d, s)' \/ jobs'[s][d] \in Pending \/ d \in failed'[s] \/ s \in canceled'
    BY DEF JobInv
  <2>1. CASE s = t /\ d = c
    <3>1. disc'[c][t] = "good" => Okay(c, t)'
      BY DEF Okay
    <3> QED BY <1>1, <1>2, <1>4, <1>8, <2>1, <3>1
  <2>2. CASE ~ (s = t /\ d = c)
    <3>1. disc'[d][s] = disc[d][s] /\ jobs'[s][d] = jobs[s][d]
      BY <1>4, <1>5, <1>6, <2>2
    <3>2. Okay(d, s)' = Okay(d, s)
      BY <1>1, <3>1, Frame
    <3>3. d \in failed'[s] <=> d \in failed[s]
      BY <1>7, <2>2
    <3> QED BY <1>1, <3>1, <3>2, <3>3 DEF JobInv
  <2> QED BY <2>1, <2>2
<1> QED BY <1>10, <1>11

\* A second round gets the jobs that failed in the first one.
LEMMA RetryStep ==
  ASSUME InitInv, NEW t \in Pieces, Retry(t)
  PROVE  WalkInv' /\ JobInv'
<1>t. jobs \in [Pieces -> [Chunks -> Places]] /\ failed \in [Pieces -> SUBSET Chunks]
  BY DEF InitInv, TypeInv
<1>1. /\ pc = "download" /\ pc' = "download" /\ WalkInv /\ JobInv
      /\ UNCHANGED <<disc, opts, remote, deleteMap, before, canceled>>
      /\ t \notin canceled
  BY DEF Retry, InitInv, files, memory
<1>2. \A c \in Chunks : jobs[t][c] \in {"none", "done"}
  BY DEF Retry, Over, At
<1>3. /\ \A c \in Chunks : jobs'[t][c] = IF c \in failed[t] THEN "todo" ELSE "none"
      /\ \A s \in Pieces : s # t => jobs'[s] = jobs[s] /\ failed'[s] = failed[s]
      /\ failed'[t] = {}
  <2>1. jobs'[t] = Todo(t, failed[t])
    BY <1>t DEF Retry
  <2> QED BY <1>t, <2>1, TodoIs DEF Retry
<1>4. WalkInv'
  <2>1. \A d \in Chunks \ remote : StrayOf(d)'
    BY <1>1, Frame DEF WalkInv, Walked
  <2>2. ASSUME NEW d \in Chunks, NEW s \in Pieces, disc[d][s] = "short"
        PROVE  Explained(d, s)' \/ jobs'[s][d] = "writing"
               \/ (d \in deleteMap /\ before[d][s] = "short")
    <3>1. Explained(d, s)' = Explained(d, s)
      BY <1>1, Frame
    <3>2. jobs[s][d] = "writing" => jobs'[s][d] = "writing"
      BY <1>2, <1>3
    <3> QED BY <1>1, <2>2, <3>1, <3>2 DEF WalkInv, Walked
  <2> QED BY <1>1, <2>1, <2>2 DEF WalkInv, Walked
<1>5. JobInv'
  <2> SUFFICES ASSUME NEW s \in Pieces, NEW d \in Chunks
        PROVE  /\ jobs'[s][d] # "none" \/ d \in failed'[s] => d \in remote'
               /\ d \in remote' /\ d >= opts'.first =>
                    Okay(d, s)' \/ jobs'[s][d] \in Pending \/ d \in failed'[s] \/ s \in canceled'
    BY DEF JobInv
  <2>1. Okay(d, s)' = Okay(d, s)
    BY <1>1, Frame
  <2>2. "todo" \in Pending /\ "none" \notin Pending /\ "done" \notin Pending
    BY DEF Pending, Places
  <2>3. CASE s = t
    BY <1>1, <1>2, <1>3, <2>1, <2>2, <2>3 DEF JobInv
  <2>4. CASE s # t
    BY <1>1, <1>3, <2>1, <2>4 DEF JobInv
  <2> QED BY <2>3, <2>4
<1> QED BY <1>4, <1>5

\* Every step keeps the parts about the walk and about the jobs.
LEMMA WalkJobStep ==
  ASSUME InitInv, [Next]_vars
  PROVE  WalkInv' /\ JobInv'
<1>a. ASSUME pc' \notin Walked PROVE WalkInv' /\ JobInv'
  BY <1>a DEF WalkInv, JobInv, Walked
<1>s. ASSUME UNCHANGED <<disc, opts, remote, deleteMap, jobs, failed, before>>,
             canceled \subseteq canceled',
             pc' = pc \/ (pc' \in Walked \ {"remove"} /\ pc \in {"download", "ok"})
      PROVE  WalkInv' /\ JobInv'
  <2>1. WalkInv /\ JobInv
    BY DEF InitInv
  <2>2. \A d \in Chunks : (Later(d)' = Later(d)) /\ (StrayOf(d)' = StrayOf(d))
    BY <1>s, Frame
  <2>3. \A d \in Chunks, t \in Pieces : Explained(d, t)' = Explained(d, t)
    BY <1>s, Frame
  <2>4. \A d \in Chunks, t \in Pieces : Okay(d, t)' = Okay(d, t)
    BY <1>s, Frame
  <2>5. WalkInv'
    BY <1>s, <2>1, <2>2, <2>3 DEF WalkInv, Walked
  <2>6. JobInv'
    BY <1>s, <2>1, <2>4 DEF JobInv, Walked
  <2> QED BY <2>5, <2>6
<1>1. CASE Begin
  BY <1>1, <1>a DEF Begin, Walked
<1>2. CASE Load
  BY <1>2, <1>a DEF Load, LoadLocal, SaveLocal, LoadRemote, SaveRemote, updateLocalManifest,
     SaveUpdate, Save, Step, Walked
<1>3. CASE cleanIndex
  BY <1>3, CleanStep
<1>4. CASE \E c \in Chunks : RemoveInvalid(c)
  BY <1>4, RemoveStep
<1>5. CASE StartDownload
  BY <1>5, StartStep
<1>6. CASE \E t \in Pieces : DownloadChunks(t)
  BY <1>6, DownloadAdvances, AdvanceStep DEF DownloadChunks
<1>7. CASE \E t \in Pieces : Retry(t)
  BY <1>7, RetryStep
<1>8. CASE Return
  BY <1>8, <1>s DEF Return, files, memory, getters, Walked
<1>9. CASE Kill \/ Sigint \/ \E t \in Pieces : Trap(t)
  <2>1. CASE Die
    BY <2>1, <1>a DEF Die, Walked
  <2>2. CASE ~Die
    BY <1>9, <2>2, <1>s DEF Kill, Sigint, Trap, files, memory
  <2> QED BY <2>1, <2>2
<1>10. CASE UNCHANGED vars
  BY <1>10, <1>s DEF vars, files, memory, getters
<1> QED BY <1>1, <1>2, <1>3, <1>4, <1>5, <1>6, <1>7, <1>8, <1>9, <1>10 DEF Next, HandleInit, Load

-----------------------------------------------------------------------------
(* What an init that returns has done.                                     *)

\* At every step of chifra init (HandleInit), killed and started again any number of
\* times, the disc, the jobs of the two pools, the manifest in memory and the list
\* of the walk agree.
THEOREM InitConsistent == Spec => []InitInv
<1>1. Init => InitInv
  BY InvInit
<1>2. InitInv /\ [Next]_vars => InitInv'
  <2> SUFFICES ASSUME InitInv, [Next]_vars PROVE InitInv'
    OBVIOUS
  <2> QED BY TypeStep, PlaceStep, WalkJobStep DEF InitInv
<1> QED BY <1>1, <1>2, PTL DEF Spec

\* An init that returns uninterrupted, with no chunk that failed in every round, has
\* made the index on disc and the local manifest what the remote manifest says
\* (HandleInit, prepareDownloadList, retry).
THEOREM IndexMatches == Spec => []IndexMatchesManifest
<1>1. InitInv => IndexMatchesManifest
  <2> SUFFICES ASSUME InitInv, pc = "ok", canceled = {}, \A t \in Pieces : failed[t] = {}
        PROVE  /\ ~temp /\ manifest.state = "whole"
               /\ remote \subseteq manifest.chunks /\ manifest.chunks \subseteq remote \cup existing
               /\ \A c \in remote : c >= opts.first => Okay(c, "bloom") /\ Okay(c, "index")
               /\ \A c \in Chunks \ remote :
                    IF Later(c) THEN disc[c] = before[c] ELSE disc[c]["bloom"] = "none"
    BY DEF IndexMatchesManifest
  <2>1. /\ ~temp /\ manifest = Whole(Updated) /\ remote \in Remotes
        /\ \A t \in Pieces, c \in Chunks : jobs[t][c] \in {"none", "done"}
    BY DEF InitInv, PlaceInv, Walked
  <2>2. manifest.state = "whole" /\ manifest.chunks = Updated
    BY <2>1 DEF Whole
  <2>3. remote \subseteq Updated /\ Updated \subseteq remote \cup existing
    BY DEF Updated
  <2>4. ASSUME NEW c \in remote, c >= opts.first PROVE Okay(c, "bloom") /\ Okay(c, "index")
    <3>1. c \in Chunks /\ "bloom" \in Pieces /\ "index" \in Pieces
      BY <2>1, ChunksAre DEF Pieces
    <3>2. \A t \in Pieces : jobs[t][c] \notin Pending
      BY <2>1, <3>1 DEF Pending
    <3> QED BY <2>4, <3>1, <3>2 DEF InitInv, JobInv
  <2>5. \A c \in Chunks \ remote :
          IF Later(c) THEN disc[c] = before[c] ELSE disc[c]["bloom"] = "none"
    BY DEF InitInv, WalkInv, Walked, StrayOf
  <2> QED BY <2>1, <2>2, <2>3, <2>4, <2>5
<1> QED BY <1>1, InitConsistent, PTL

\* However init ends by itself, it leaves no file cut short that it did not find, and of
\* those it keeps only what the walk does not look at (writeBytesToDisc).
THEOREM HalfWritten == Spec => []HalfWrittenIsExplained
<1>1. InitInv => HalfWrittenIsExplained
  BY DEF InitInv, PlaceInv, WalkInv, Walked, Explained, HalfWrittenIsExplained
<1> QED BY <1>1, InitConsistent, PTL
=============================================================================
