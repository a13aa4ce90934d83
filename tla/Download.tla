------------------------------ MODULE Download ------------------------------
(***************************************************************************)
(* chifra init (HandleInit): bring the index on disc in line with the      *)
(* manifest that the publisher has put on chain.  The local manifest is    *)
(* replaced, chunks that do not agree with it are removed, and two         *)
(* goroutines, one for the bloom filters and one for the index portions,   *)
(* download what is missing: each round of DownloadChunks has a pool of    *)
(* downloaders, a buffered channel, a goroutine that empties it and a pool *)
(* of writers.  The user may hit control-C, which is trapped while a file  *)
(* is written and kills the process at any other time; a download or a     *)
(* write may fail; the process may be killed anywhere and init be run      *)
(* again.                                                                  *)
(*                                                                         *)
(* A chunk is its place in the order of the block ranges; chunk 0 is the   *)
(* chunk 000000000-000000000.  Progress messages are delivered before the  *)
(* message that ends a round (they share a channel), so a failure is added *)
(* to the round's failed chunks as it is sent.                             *)
(***************************************************************************)
EXTENDS Naturals, FiniteSets, FiniteSetsExt

CONSTANTS
    NChunks,    \* chunks on disc or in a manifest are 0 .. NChunks - 1
    Remotes,    \* the manifests that may be on chain, sets of chunks
    Discs,      \* the discs to begin with
    Options,    \* the options, --all and the chunk of --first_block, it is run with
    PoolSize,   \* of each pool (twice the number of CPUs in the code)
    Retries,    \* how often failed chunks are tried again (3 in the code)
    MaxTroubles,\* bound: downloads and writes that fail, kills and control-Cs
    MaxInits    \* bound: how often init is run

Chunks == 0 .. NChunks - 1
Pieces == {"bloom", "index"}

\* none; cut short; of another version; one that cannot be opened; good
Files == {"none", "short", "wrong", "locked", "good"}

ASSUME DownloadAssumption ==
    /\ NChunks \in Nat \ {0} /\ PoolSize \in Nat \ {0} /\ Retries \in Nat
    /\ Remotes \subseteq SUBSET Chunks /\ {} \notin Remotes
    /\ Discs \subseteq [Chunks -> [Pieces -> Files]]
    /\ Options \subseteq [all : BOOLEAN, first : Chunks]

VARIABLES
    disc,       \* the files of each chunk
    manifest,   \* manifest.json: none, empty (truncated, not yet written) or whole
    temp,       \* the scraper's temporary folders have something in them
    history,    \* tmp/history.txt says that init --all was run
    pc,         \* where HandleInit is, or how it ended
    opts,       \* the options of this run: --all and --first_block
    existing, remote,  \* the manifests in memory
    deleteMap,  \* chunks still to be removed
    round,      \* how many rounds each goroutine has begun
    jobs,       \* what has become of each chunk in the current round
    failed,     \* the chunks that failed in it
    signalled, canceled,  \* control-C has reached the trap, or the context
    troubles, inits,
    before      \* history variable: the disc when the run began

memory == <<opts, existing, remote, deleteMap>>
getters == <<round, jobs, failed, signalled, canceled>>
files == <<disc, manifest, temp, history>>
bounds == <<troubles, inits>>
vars == <<files, pc, memory, getters, bounds, before>>

NoOpts == [all |-> FALSE, first |-> 0]
NoJobs == [t \in Pieces |-> [c \in Chunks |-> "none"]]
Whole(chunks) == [state |-> "whole", chunks |-> chunks]
Last(chunks) == Max(chunks)

Init ==
    /\ disc \in Discs /\ before = disc
    /\ manifest \in {[state |-> "none", chunks |-> {}], Whole(Chunks)}
    /\ temp = TRUE /\ history = FALSE
    /\ pc = "idle"
    /\ opts = NoOpts
    /\ existing = {} /\ remote = {} /\ deleteMap = {}
    /\ round = [t \in Pieces |-> 0] /\ jobs = NoJobs /\ failed = [t \in Pieces |-> {}]
    /\ signalled = {} /\ canceled = {}
    /\ troubles = 0 /\ inits = 0

Forget ==
    /\ existing' = {} /\ remote' = {} /\ deleteMap' = {}
    /\ round' = [t \in Pieces |-> 0] /\ jobs' = NoJobs /\ failed' = [t \in Pieces |-> {}]
    /\ signalled' = {} /\ canceled' = {}

-----------------------------------------------------------------------------
(* HandleInit, up to the download *)

\* --all is insisted on once it was used
validateInit(o) == history => o.all

\* the temporary folders are cleaned, whoever uses them
Begin ==
    /\ pc \in {"idle", "ok", "error"} /\ inits < MaxInits
    /\ inits' = inits + 1
    /\ opts' \in Options /\ validateInit(opts')
    /\ temp' = FALSE /\ before' = disc
    /\ Forget
    /\ pc' = "local"
    /\ UNCHANGED <<disc, manifest, history, troubles>>

Step(at) == pc' = at /\ UNCHANGED <<disc, temp, history, opts, deleteMap, getters, bounds, before>>

\* LoadManifest, LocalCache: without a local manifest the remote one is fetched
\* and saved; an empty file is an error, and so is a gateway that does not answer
LoadLocal ==
    /\ pc = "local"
    /\ \/ manifest.state # "whole" /\ Step("error") /\ UNCHANGED <<manifest, existing, remote>>
       \/ manifest.state = "whole" /\ existing' = manifest.chunks
            /\ Step("remote") /\ UNCHANGED <<manifest, remote>>
       \/ manifest.state = "none" /\ remote' \in Remotes /\ existing' = remote'
            /\ manifest' = [state |-> "empty", chunks |-> {}] /\ Step("saveLocal")

\* SaveManifest truncates the file, then writes it
Save(at, chunks, then) ==
    /\ pc = at
    /\ manifest' = Whole(chunks)
    /\ Step(then) /\ UNCHANGED <<existing, remote>>

SaveLocal == Save("saveLocal", remote, "remote")

\* LoadManifest, FromContract: the contract or the gateway may not answer
LoadRemote ==
    /\ pc = "remote"
    /\ \/ Step("error") /\ UNCHANGED <<manifest, existing, remote>>
       \/ remote' \in Remotes /\ manifest' = [state |-> "empty", chunks |-> {}]
            /\ Step("saveRemote") /\ UNCHANGED existing

SaveRemote == Save("saveRemote", remote, "update")

\* updateLocalManifest: the loop over the existing chunks is entered when the last
\* of them is not later than the last remote one, and adds those that are later
Updated ==
    remote \cup (IF Last(existing) > Last(remote) THEN {}
                 ELSE {c \in existing : c > Last(remote)})
updateLocalManifest ==
    /\ pc = "update"
    /\ manifest' = [state |-> "empty", chunks |-> {}]
    /\ Step("saveUpdate") /\ UNCHANGED <<existing, remote>>
SaveUpdate == Save("saveUpdate", Updated, "walk")

-----------------------------------------------------------------------------
(* prepareDownloadList *)

Required(c) == opts.all \/ c = 0

\* isValidChunk: is this piece as the manifest wants it, and the error it returns:
\* what reading the index' header says replaces what the bloom's said
Okay(c, t) ==
    \/ disc[c][t] = "good"
    \/ t = "index" /\ disc[c][t] = "none" /\ ~Required(c)
Err(c) == IF disc[c]["index"] \in {"wrong", "locked", "good"} THEN disc[c]["index"] = "locked"
          ELSE disc[c]["bloom"] = "locked"

\* the walk over the bloom filters: what is in the manifest and not valid, and what
\* is neither in it nor later, is to be removed
cleanIndex ==
    LET seen == {c \in Chunks : disc[c]["bloom"] # "none"} IN
    /\ pc = "walk"
    /\ IF \E c \in seen \cap remote : Err(c)
       THEN pc' = "error" /\ UNCHANGED deleteMap
       ELSE /\ deleteMap' = {c \in seen : IF c \in remote THEN ~Okay(c, "bloom") \/ ~Okay(c, "index")
                                          ELSE c < Last(remote)}
            /\ pc' = "remove"
    /\ UNCHANGED <<files, opts, existing, remote, getters, bounds, before>>

\* both files of a chunk go, the index first; the chunks in any order
RemoveInvalid(c) ==
    /\ pc = "remove" /\ c \in deleteMap
    /\ IF disc[c]["index"] # "none" THEN disc' = [disc EXCEPT ![c]["index"] = "none"] /\ UNCHANGED deleteMap
       ELSE disc' = [disc EXCEPT ![c]["bloom"] = "none"] /\ deleteMap' = deleteMap \ {c}
    /\ UNCHANGED <<manifest, temp, history, pc, opts, existing, remote, getters, bounds, before>>

Todo(t, list) == [c \in Chunks |-> IF c \in list THEN "todo" ELSE "none"]

\* [mutant] a chunk with one good piece is taken for a good one
ToDownload_Bug(t) == {c \in remote : c >= opts.first /\ ~Okay(c, "bloom") /\ ~Okay(c, "index")}

\* the chunks of the manifest that are not older than --first_block, with the
\* hashes of those pieces that are not valid
ToDownload(t) == {c \in remote : c >= opts.first /\ ~Okay(c, t)}

\* the list is made, the history is written, and the two goroutines start
StartDownload ==
    /\ pc = "remove" /\ deleteMap = {}
    /\ IF \E c \in remote : c >= opts.first /\ (~Okay(c, "bloom") \/ ~Okay(c, "index")) /\ Err(c)
       THEN pc' = "error" /\ UNCHANGED <<jobs, round, history>>
       ELSE /\ pc' = "download"
            /\ history' = (history \/ opts.all)
            /\ jobs' = [t \in Pieces |-> Todo(t, ToDownload(t))]
            /\ round' = [t \in Pieces |-> 1]
    /\ UNCHANGED <<disc, manifest, temp, memory, failed, signalled, canceled, bounds, before>>

-----------------------------------------------------------------------------
(* DownloadChunks, for one of the two pieces *)

At(t, places) == {c \in Chunks : jobs[t][c] \in places}
Busy(t, places) == Cardinality(At(t, places)) >= PoolSize
Move(t, c, at) == jobs' = [jobs EXCEPT ![t][c] = at]
Trouble == troubles < MaxTroubles /\ troubles' = troubles + 1
Fail(t, c) == failed' = [failed EXCEPT ![t] = @ \cup {c}]
DownloadOnly == UNCHANGED <<manifest, temp, history, pc, memory, round, signalled, canceled,
                            inits, before>>

\* downloadPool.Invoke, the latest chunk first, and in a retry in the order in which
\* they failed; canceled workers return at once
Fetch(t, c) ==
    /\ jobs[t][c] = "todo" /\ (round[t] > 1 \/ \A d \in At(t, {"todo"}) : d <= c)
    /\ ~Busy(t, {"fetch", "fetched"})
    /\ Move(t, c, IF t \in canceled THEN "done" ELSE "fetch")
    /\ UNCHANGED <<disc, failed, troubles>> /\ DownloadOnly

\* the gateway answers, or does not; a canceled worker sends nothing
Fetched(t, c) ==
    /\ jobs[t][c] = "fetch"
    /\ \/ t \in canceled /\ Move(t, c, "done") /\ UNCHANGED <<failed, troubles>>
       \/ t \notin canceled /\ Move(t, c, "fetched") /\ UNCHANGED <<failed, troubles>>
       \/ t \notin canceled /\ Trouble
            /\ Move(t, c, "done") /\ Fail(t, c)
    /\ UNCHANGED disc /\ DownloadOnly

\* writeChannel <- result, a channel of PoolSize results
SendResult(t, c) ==
    /\ jobs[t][c] = "fetched" /\ ~Busy(t, {"channel"})
    /\ Move(t, c, "channel")
    /\ UNCHANGED <<disc, failed, troubles>> /\ DownloadOnly

\* [mutant] what is dropped after control-C was already counted by writeWg
TakeResult_Bug(t, c) ==
    /\ jobs[t][c] = "channel" /\ At(t, {"held"}) = {}
    /\ Move(t, c, IF t \in canceled THEN "counted" ELSE "held")
    /\ UNCHANGED <<disc, failed, troubles>> /\ DownloadOnly

\* for result := range writeChannel: dropped when canceled, else held until the
\* pool of writers takes it
TakeResult(t, c) ==
    /\ jobs[t][c] = "channel" /\ At(t, {"held"}) = {}
    /\ Move(t, c, IF t \in canceled THEN "done" ELSE "held")
    /\ UNCHANGED <<disc, failed, troubles>> /\ DownloadOnly
InvokeWriter(t, c) ==
    /\ jobs[t][c] = "held" /\ ~Busy(t, {"write", "writing"})
    /\ Move(t, c, "write")
    /\ UNCHANGED <<disc, failed, troubles>> /\ DownloadOnly

\* the writer looks at the context, sets the trap and truncates the file, or cannot
OpenFile(t, c) ==
    /\ jobs[t][c] = "write"
    /\ \/ t \in canceled /\ Move(t, c, "done") /\ UNCHANGED <<disc, failed, troubles>>
       \/ t \notin canceled /\ Move(t, c, "writing") /\ disc' = [disc EXCEPT ![c][t] = "short"]
            /\ UNCHANGED <<failed, troubles>>
       \/ t \notin canceled /\ Trouble /\ Move(t, c, "done") /\ Fail(t, c) /\ UNCHANGED disc
    /\ DownloadOnly

\* [mutant] what was written so far stays
WriteBytes_Bug(t, c) ==
    /\ jobs[t][c] = "writing"
    /\ \/ disc' = [disc EXCEPT ![c][t] = "good"] /\ UNCHANGED <<failed, troubles>>
       \/ /\ UNCHANGED disc
          /\ \/ t \in canceled /\ UNCHANGED <<failed, troubles>>
             \/ t \notin canceled /\ Trouble /\ Fail(t, c)
    /\ Move(t, c, "done") /\ DownloadOnly

\* the rest of writeBytesToDisc: the copy succeeds, or fails and the file is removed.
\* It may always fail once the request's context is canceled, and is not reported then.
WriteBytes(t, c) ==
    /\ jobs[t][c] = "writing"
    /\ \/ disc' = [disc EXCEPT ![c][t] = "good"] /\ UNCHANGED <<failed, troubles>>
       \/ /\ disc' = [disc EXCEPT ![c][t] = "none"]
          /\ \/ t \in canceled /\ UNCHANGED <<failed, troubles>>
             \/ t \notin canceled /\ Trouble /\ Fail(t, c)
    /\ Move(t, c, "done") /\ DownloadOnly

Over(t) == At(t, {"none", "done"}) = Chunks

\* both wait groups are through: AllDone or Cancelled.  retry begins another round
\* with what has failed.
Retry(t) ==
    /\ pc = "download" /\ Over(t) /\ t \notin canceled
    /\ failed[t] # {} /\ round[t] <= Retries
    /\ round' = [round EXCEPT ![t] = @ + 1]
    /\ jobs' = [jobs EXCEPT ![t] = Todo(t, failed[t])] /\ failed' = [failed EXCEPT ![t] = {}]
    /\ signalled' = signalled \ {t}
    /\ UNCHANGED <<files, pc, memory, canceled, bounds, before>>

Ended(t) == Over(t) /\ (t \in canceled \/ failed[t] = {} \/ round[t] > Retries)

\* <-indexDoneChannel, <-bloomsDoneChannel, and HandleInit returns nil
Return ==
    /\ pc = "download" /\ \A t \in Pieces : Ended(t)
    /\ pc' = "ok"
    /\ UNCHANGED <<files, memory, getters, bounds, before>>

-----------------------------------------------------------------------------
(* what happens to the process *)

Die == pc' = "idle" /\ Forget /\ opts' = NoOpts /\ UNCHANGED <<files, inits, before>>
Running == pc \notin {"idle", "ok", "error"}
Writing(t) == At(t, {"writing"}) # {}

Kill == Running /\ Trouble /\ Die

\* control-C reaches every trap that is set, or ends the process
Sigint ==
    /\ Running /\ Trouble
    /\ IF \E t \in Pieces : Writing(t)
       THEN /\ signalled' = signalled \cup {t \in Pieces : Writing(t)}
            /\ UNCHANGED <<files, pc, memory, round, jobs, failed, canceled, inits, before>>
       ELSE Die

\* the trap's goroutine cancels the context of its round
Trap(t) ==
    /\ t \in signalled
    /\ signalled' = signalled \ {t} /\ canceled' = canceled \cup {t}
    /\ UNCHANGED <<files, pc, memory, round, jobs, failed, bounds, before>>

DownloadChunks(t) ==
    \E c \in Chunks :
        \/ Fetch(t, c) \/ Fetched(t, c) \/ SendResult(t, c)
        \/ TakeResult(t, c) \/ InvokeWriter(t, c) \/ OpenFile(t, c) \/ WriteBytes(t, c)

HandleInit ==
    \/ LoadLocal \/ SaveLocal \/ LoadRemote \/ SaveRemote \/ updateLocalManifest \/ SaveUpdate
    \/ cleanIndex \/ StartDownload \/ Return
    \/ \E c \in Chunks : RemoveInvalid(c)
    \/ \E t \in Pieces : Retry(t)

Next == Begin \/ HandleInit \/ Kill \/ Sigint \/ \E t \in Pieces : DownloadChunks(t) \/ Trap(t)

\* goroutines run, and the gateway answers or refuses in the end
Fairness == WF_vars(HandleInit) /\ \A t \in Pieces : WF_vars(DownloadChunks(t))

Spec == Init /\ [][ Next ]_vars /\ Fairness

-----------------------------------------------------------------------------
(* properties *)

\* The variables keep their types, and nothing is downloaded twice in a round.
TypeOK ==
    /\ disc \in [Chunks -> [Pieces -> Files]]
    /\ manifest.state \in {"none", "empty", "whole"} /\ manifest.chunks \subseteq Chunks
    /\ jobs \in [Pieces -> [Chunks -> {"none", "todo", "fetch", "fetched", "channel", "held",
                                       "write", "writing", "done"}]]
    /\ round \in [Pieces -> 0 .. Retries + 1]

Later(c) == c > Last(remote)

\* When init returns without having been interrupted and without a chunk that failed
\* in every round, the local manifest has every chunk of the remote one and the index
\* on disc is what that says: every bloom that is wanted is there and good, so is every
\* index that is required, no index is bad, what is not in the manifest has no bloom,
\* and chunks later than the manifest, which the user has scraped, are as they were
\* (HandleInit, prepareDownloadList, retry).
IndexMatchesManifest ==
    (pc = "ok" /\ canceled = {} /\ \A t \in Pieces : failed[t] = {}) =>
       /\ ~temp /\ manifest.state = "whole"
       /\ remote \subseteq manifest.chunks /\ manifest.chunks \subseteq remote \cup existing
       /\ \A c \in remote : c >= opts.first => Okay(c, "bloom") /\ Okay(c, "index")
       /\ \A c \in Chunks \ remote :
            IF Later(c) THEN disc[c] = before[c] ELSE disc[c]["bloom"] = "none"

\* However init ends, by itself or after control-C, it leaves no file cut short that
\* it did not find: writeBytesToDisc removes what it could not finish.  One that a killed
\* init has left survives only as an index without a bloom, which the walk over the
\* blooms does not see, when it is not downloaded anew.
HalfWrittenIsExplained ==
    pc = "ok" => \A c \in Chunks, t \in Pieces :
       disc[c][t] = "short" =>
          before[c][t] = "short" /\ (Later(c) \/ (t = "index" /\ before[c]["bloom"] = "none"))

\* Every init returns or is killed: the pools, the channel between them and the wait
\* groups never wait for each other, whatever fails and whenever control-C comes.
InitReturns == Running ~> ~Running
=============================================================================
