------------------------------ MODULE Freshen ------------------------------
(***************************************************************************)
(* FreshenMonitors (pkg/monitor): bring the monitor files of some          *)
(* addresses up to date with the index.  Each updater is one request, as   *)
(* served by the API; the requests share the monitor files, their staging  *)
(* copies and the map of mutexes, one per address.                         *)
(*                                                                         *)
(* A monitor is the set of the blocks in which its address appears, plus   *)
(* a mark that something was written twice: readers sort the records, and  *)
(* RemoveDups removes the duplicates before a monitor goes to production.  *)
(* The index is what the scraper leaves: immutable chunks, and a stage     *)
(* that grows behind them.                                                 *)
(***************************************************************************)
EXTENDS Integers, Sequences, FiniteSets, FiniteSetsExt

CONSTANTS
    Updaters,   \* the requests that may be served at the same time
    Addrs,
    Request,    \* the addresses that each updater asks for, in its order
    Ends,       \* the last blocks of the chunks that the scraper makes
    MaxBlock,   \* bound: the last block of any index
    Appears,    \* the blocks in which each address appears
    MaxTasks,   \* updater.MaxTasks
    Settings    \* the circumstances to look at: the updaters that send requests,
                \* the addresses that this process has freshened before, the
                \* hazards that may happen, and the last block of the index

Hazards == {"crash", "sigint", "chunk", "write", "skip"}
Blocks == 0 .. MaxBlock

ASSUME FreshenAssumption ==
    /\ MaxBlock \in Nat /\ MaxTasks \in Nat \ {0}
    /\ Ends \subseteq Blocks /\ 0 \in Ends
    /\ Appears \in [Addrs -> SUBSET Blocks]
    /\ Request \in [Updaters -> Seq(Addrs)]
    /\ Settings \subseteq [active : SUBSET Updaters, known : SUBSET Addrs,
                             events : SUBSET Hazards, upto : Blocks]

VARIABLES
    setting,    \* one of Settings, chosen at the start
    final,      \* the last block of the last chunk
    stage,      \* the last block of the stage; final when there is none
    prod, staged,         \* the monitor files of each address
    mutexesPerAddress,    \* the map: a mutex for each address, or NoMutex
    locked,     \* the mutexes that are locked
    \* of each updater:
    pc,
    idx,        \* how far a loop over Request has come
    mutex,      \* the mutex that lockForAddress found in the map
    mem,        \* LastScanned of the monitors in memory
    todo,       \* chunks still to be visited
    tasks,      \* chunks being visited by a goroutine
    results,    \* what the goroutines have sent
    update,     \* the result that updateMonitors is working on
    unmoved,    \* monitors still to be moved to production
    canceled

index   == <<setting, final, stage>>
files   == <<prod, staged>>
mutexes == <<mutexesPerAddress, locked>>
loop    == <<idx, mutex>>
visits  == <<todo, tasks, results>>
scan    == <<mem, visits, update, unmoved, canceled>>
vars    == <<index, files, mutexes, pc, loop, scan>>

NoMutex == <<>>
NoFile == [last |-> 0, apps |-> {}, dup |-> FALSE, exists |-> FALSE]
File(last, apps, dup) == [last |-> last, apps |-> apps, dup |-> dup, exists |-> TRUE]
NoUpdate == [last |-> 0, apps |-> [a \in Addrs |-> {}], left |-> {}, header |-> {}]

FirstOf(end) == IF end = 0 THEN 0 ELSE 1 + Max({e \in Ends : e < end})
Chunks == {[first |-> FirstOf(e), last |-> e] : e \in {e \in Ends : e <= final}}
In(a, range) == Appears[a] \cap (range.first .. range.last)
MonitorMap(u) == {Request[u][i] : i \in DOMAIN Request[u]}

Init ==
    /\ setting \in Settings
    /\ final = 0 /\ stage = 0
    /\ prod = [a \in Addrs |-> NoFile] /\ staged = [a \in Addrs |-> NoFile]
    /\ mutexesPerAddress = [a \in Addrs |-> IF a \in setting.known THEN <<a>> ELSE NoMutex]
    /\ locked = {}
    /\ pc = [u \in Updaters |-> "idle"]
    /\ idx = [u \in Updaters |-> 1] /\ mutex = [u \in Updaters |-> NoMutex]
    /\ mem = [u \in Updaters |-> [a \in Addrs |-> 0]]
    /\ todo = [u \in Updaters |-> {}] /\ tasks = [u \in Updaters |-> {}]
    /\ results = [u \in Updaters |-> {}]
    /\ update = [u \in Updaters |-> NoUpdate] /\ unmoved = [u \in Updaters |-> {}]
    /\ canceled = [u \in Updaters |-> FALSE]

Goto(u, label) == pc' = [pc EXCEPT ![u] = label]

-----------------------------------------------------------------------------
(* The scraper.                                                            *)

\* a chunk always ends after the last block of the stage it was made from
GrowStage ==
    /\ stage < setting.upto /\ stage + 1 \notin Ends
    /\ stage' = stage + 1
    /\ UNCHANGED <<setting, final, files, mutexes, pc, loop, scan>>

Finalize ==
    /\ stage < setting.upto /\ stage + 1 \in Ends
    /\ final' = stage + 1 /\ stage' = stage + 1
    /\ UNCHANGED <<setting, files, mutexes, pc, loop, scan>>

-----------------------------------------------------------------------------
(* lockForAddress and unlockForAddress.                                    *)

Asked(u) == idx[u] \in DOMAIN Request[u]
Addr(u) == Request[u][idx[u]]

BeginRequest(u) ==
    /\ u \in setting.active /\ pc[u] = "idle"
    /\ Goto(u, "lookup")
    /\ UNCHANGED <<index, files, mutexes, loop, scan>>

\* the map is read without its lock
Lookup(u) ==
    /\ pc[u] = "lookup" /\ Asked(u)
    /\ mutex' = [mutex EXCEPT ![u] = mutexesPerAddress[Addr(u)]]
    /\ Goto(u, "lock")
    /\ UNCHANGED <<index, files, mutexes, idx, scan>>

\* [mutant] the mutex is found but not locked
LockFound_NotLocked(u) ==
    /\ pc[u] = "lock" /\ mutex[u] # NoMutex
    /\ idx' = [idx EXCEPT ![u] = @ + 1] /\ Goto(u, "lookup")
    /\ UNCHANGED <<index, files, mutexes, mutex, scan>>

LockFound(u) ==
    /\ pc[u] = "lock" /\ mutex[u] # NoMutex /\ mutex[u] \notin locked
    /\ locked' = locked \cup {mutex[u]}
    /\ idx' = [idx EXCEPT ![u] = @ + 1] /\ Goto(u, "lookup")
    /\ UNCHANGED <<index, files, mutexesPerAddress, mutex, scan>>

\* a new mutex, stored under the lock of the map and locked at once
LockNew(u) ==
    /\ pc[u] = "lock" /\ mutex[u] = NoMutex
    /\ mutexesPerAddress' = [mutexesPerAddress EXCEPT ![Addr(u)] = <<u, Addr(u)>>]
    /\ locked' = locked \cup {<<u, Addr(u)>>}
    /\ idx' = [idx EXCEPT ![u] = @ + 1] /\ Goto(u, "lookup")
    /\ UNCHANGED <<index, files, mutex, scan>>

LockedAll(u) ==
    /\ pc[u] = "lookup" /\ ~Asked(u)
    /\ idx' = [idx EXCEPT ![u] = 1] /\ Goto(u, "copy")
    /\ UNCHANGED <<index, files, mutexes, mutex, scan>>

Forget(u) ==
    /\ idx' = [idx EXCEPT ![u] = 1] /\ mutex' = [mutex EXCEPT ![u] = NoMutex]
    /\ mem' = [mem EXCEPT ![u] = [a \in Addrs |-> 0]]
    /\ unmoved' = [unmoved EXCEPT ![u] = {}] /\ canceled' = [canceled EXCEPT ![u] = FALSE]

\* the process ends, with its mutexes and its requests
Die ==
    /\ mutexesPerAddress' = [a \in Addrs |-> NoMutex] /\ locked' = {}
    /\ pc' = [u \in Updaters |-> "idle"]
    /\ idx' = [u \in Updaters |-> 1] /\ mutex' = [u \in Updaters |-> NoMutex]
    /\ mem' = [u \in Updaters |-> [a \in Addrs |-> 0]]
    /\ todo' = [u \in Updaters |-> {}] /\ tasks' = [u \in Updaters |-> {}]
    /\ results' = [u \in Updaters |-> {}]
    /\ update' = [u \in Updaters |-> NoUpdate] /\ unmoved' = [u \in Updaters |-> {}]
    /\ canceled' = [u \in Updaters |-> FALSE]

\* Go ends a process that unlocks a mutex twice.
UnlockMutexes(u, addrs) ==
    LET mine == {mutexesPerAddress[a] : a \in addrs} IN
    /\ pc[u] = "unlock"
    /\ IF mine \subseteq locked
       THEN /\ locked' = locked \ mine
            /\ Goto(u, "idle") /\ Forget(u)
            /\ UNCHANGED <<mutexesPerAddress, visits, update>>
       ELSE Die
    /\ UNCHANGED <<index, files>>

\* [mutant] the first mutex stays locked
Unlock_LeavesOne(u) == UnlockMutexes(u, MonitorMap(u) \ {Request[u][1]})

\* the deferred unlocks, each of the mutex that is in the map by now
Unlock(u) == UnlockMutexes(u, MonitorMap(u))

-----------------------------------------------------------------------------
(* FreshenMonitors: staging the monitors and visiting the chunks.          *)

\* A staged copy with LastScanned last.  Neither the copy nor the header that is
\* written without a monitor in production truncates the file: of one that a
\* killed request left (its RemoveDups may have been interrupted), any part stays.
Stage(u, last) ==
    LET a == Addr(u) IN
    /\ pc[u] = "copy" /\ Asked(u)
    /\ \E tail \in SUBSET staged[a].apps :
        staged' = [staged EXCEPT ![a] =
          File(last, prod[a].apps \cup tail, @.dup \/ prod[a].apps \cap tail # {})]
    /\ mem' = [mem EXCEPT ![u][a] = last]
    /\ idx' = [idx EXCEPT ![u] = @ + 1]
    /\ UNCHANGED <<index, prod, mutexes, pc, mutex, visits, update, unmoved, canceled>>

\* [mutant] the header that an earlier request left is kept
NewMonitorStaged_Reuses(u) == Stage(u, Max({prod[Addr(u)].last, staged[Addr(u)].last}))

\* NewMonitorStaged and ReadMonitorHeader: work on a copy
NewMonitorStaged(u) == Stage(u, prod[Addr(u)].last)

SkipFreshen(u) ==
    /\ pc[u] = "copy" /\ ~Asked(u) /\ "skip" \in setting.events
    /\ Goto(u, "unlock")
    /\ UNCHANGED <<index, files, mutexes, loop, scan>>

ReadBlooms(u, firstBlock) ==
    /\ pc[u] = "copy" /\ ~Asked(u)
    /\ todo' = [todo EXCEPT ![u] = {c \in Chunks : c.last >= firstBlock}]
    /\ Goto(u, "visit")
    /\ UNCHANGED <<index, files, mutexes, loop, mem, tasks, results, update, unmoved,
                   canceled>>

\* [mutant] the chunk that ends with the first block is taken for an earlier one
ReadDir_OffByOne(u) == ReadBlooms(u, Min({mem[u][a] : a \in MonitorMap(u)}) + 1)

\* os.ReadDir of the blooms, without the chunks that are EarlierThanB the first
\* block that any of the monitors needs
ReadDir(u) == ReadBlooms(u, Min({mem[u][a] : a \in MonitorMap(u)}))

\* the user hits control-C: no more tasks, but the current ones are finished
Cancel(u) ==
    /\ "sigint" \in setting.events /\ pc[u] = "visit" /\ ~canceled[u]
    /\ canceled' = [canceled EXCEPT ![u] = TRUE]
    /\ UNCHANGED <<index, files, mutexes, pc, loop, mem, visits, update, unmoved>>

Throttled(u) == Cardinality(tasks[u]) + Cardinality(results[u]) >= MaxTasks
Updating(u) == update[u] # NoUpdate

\* go visitChunkToFreshenFinal, in the order of the file names
StartTask(u) ==
    /\ pc[u] = "visit" /\ todo[u] # {} /\ ~canceled[u] /\ ~Throttled(u) /\ ~Updating(u)
    /\ LET c == CHOOSE c \in todo[u] : \A d \in todo[u] : c.last <= d.last
       IN /\ todo' = [todo EXCEPT ![u] = @ \ {c}]
          /\ tasks' = [tasks EXCEPT ![u] = @ \cup {c}]
    /\ UNCHANGED <<index, files, mutexes, pc, loop, mem, results, update, unmoved, canceled>>

SkipRest(u) ==
    /\ pc[u] = "visit" /\ todo[u] # {} /\ canceled[u] /\ ~Updating(u)
    /\ todo' = [todo EXCEPT ![u] = {}]
    /\ UNCHANGED <<index, files, mutexes, pc, loop, mem, tasks, results, update, unmoved,
                   canceled>>

\* The goroutine sends what it has found; the bloom, the index file or its
\* download may fail.
VisitChunk(u, c) ==
    /\ c \in tasks[u]
    /\ tasks' = [tasks EXCEPT ![u] = @ \ {c}]
    /\ \E err \in {FALSE} \cup (IF "chunk" \in setting.events THEN {TRUE} ELSE {}) :
        results' = [results EXCEPT ![u] = @ \cup {[chunk |-> c, err |-> err]}]
    /\ UNCHANGED <<index, files, mutexes, pc, loop, mem, todo, update, unmoved, canceled>>

\* receive a result: to make room for a task, or after wg.Wait().  A result
\* with an error is reported and dropped.
TakeResult(u) ==
    /\ pc[u] = "visit" /\ ~Updating(u)
    /\ \/ todo[u] # {} /\ ~canceled[u] /\ Throttled(u)
       \/ todo[u] = {} /\ tasks[u] = {}
    /\ \E r \in results[u] :
        /\ results' = [results EXCEPT ![u] = @ \ {r}]
        /\ update' = [update EXCEPT ![u] =
             IF r.err THEN NoUpdate
             ELSE [last |-> r.chunk.last + 1,
                   apps |-> [a \in Addrs |-> In(a, r.chunk)],
                   left |-> MonitorMap(u), header |-> {}]]
    /\ UNCHANGED <<index, files, mutexes, pc, loop, mem, todo, tasks, unmoved, canceled>>

-----------------------------------------------------------------------------
(* updateMonitors, for each monitor: the header, then the appearances.     *)

WriteHeader(u, a, last) ==
    /\ a \in update[u].left /\ update[u].header = {}
    /\ mem' = [mem EXCEPT ![u][a] = last]
    /\ staged' = [staged EXCEPT ![a] = File(last, @.apps, @.dup)]
    /\ update' = [update EXCEPT ![u].left = @ \ {a}, ![u].header = {a}]
    /\ UNCHANGED <<index, prod, mutexes, pc, loop, visits, unmoved, canceled>>

\* LastScanned only goes forward; the file is created if it is missing
WriteMonHeader(u, a) == WriteHeader(u, a, Max({mem[u][a], update[u].last}))

\* appended to a file that must exist; an error is only logged
WriteAppearances(u, a) ==
    /\ a \in update[u].header
    /\ LET apps == update[u].apps[a] IN
       \E ok \in {staged[a].exists} \cup
                 (IF "write" \in setting.events /\ apps # {} THEN {FALSE} ELSE {}) :
         staged' = IF ok
           THEN [staged EXCEPT ![a] =
                   File(@.last, @.apps \cup apps, @.dup \/ @.apps \cap apps # {})]
           ELSE staged
    /\ update' = [update EXCEPT ![u] =
         IF update[u].left = {} THEN NoUpdate ELSE [update[u] EXCEPT !.header = {}]]
    /\ UNCHANGED <<index, prod, mutexes, pc, loop, mem, visits, unmoved, canceled>>

-----------------------------------------------------------------------------
(* The stage, and the way to production.                                   *)

UpdateFromStage(u, apps, hits) ==
    /\ pc[u] = "visit" /\ ~Updating(u)
    /\ todo[u] = {} /\ tasks[u] = {} /\ results[u] = {}
    /\ update' = [update EXCEPT ![u] =
         IF hits = {} THEN NoUpdate
         ELSE [last |-> stage + 1, apps |-> apps, left |-> hits, header |-> {}]]
    /\ unmoved' = [unmoved EXCEPT ![u] = MonitorMap(u)]
    /\ Goto(u, "move")
    /\ UNCHANGED <<index, files, mutexes, loop, mem, visits, canceled>>

InStage(u) ==
    [a \in Addrs |-> {b \in In(a, [first |-> final + 1, last |-> stage]) : b > mem[u][a]}]

\* getAppearances: of the monitors that have seen everything before the stage,
\* the ones that appear in it after LastScanned are updated
ReadStage(u) ==
    UpdateFromStage(u, InStage(u),
        {a \in MonitorMap(u) : final + 1 <= mem[u][a] /\ InStage(u)[a] # {}})

\* without the staged file the monitors that are left stay where they are
Move(u, a, f) ==
    /\ pc[u] = "move" /\ ~Updating(u) /\ a \in unmoved[u]
    /\ IF staged[a].exists
       THEN /\ prod' = [prod EXCEPT ![a] = f]
            /\ staged' = [staged EXCEPT ![a] = NoFile]
            /\ unmoved' = [unmoved EXCEPT ![u] = @ \ {a}]
            /\ UNCHANGED pc
       ELSE Goto(u, "unlock") /\ UNCHANGED <<files, unmoved>>
    /\ UNCHANGED <<index, mutexes, loop, mem, visits, update, canceled>>

\* [mutant] duplicates are not removed
MoveToProduction_KeepDups(u, a) == Move(u, a, staged[a])

\* MoveToProduction: RemoveDups, then a rename
MoveToProduction(u, a) == Move(u, a, [staged[a] EXCEPT !.dup = FALSE])

MovedAll(u) ==
    /\ pc[u] = "move" /\ ~Updating(u) /\ unmoved[u] = {}
    /\ Goto(u, "unlock")
    /\ UNCHANGED <<index, files, mutexes, loop, scan>>

\* the files stay, staged ones too
Crash ==
    /\ "crash" \in setting.events /\ \E u \in Updaters : pc[u] # "idle"
    /\ Die
    /\ UNCHANGED <<index, files>>

LockForAddress(u) == Lookup(u) \/ LockFound(u) \/ LockNew(u) \/ LockedAll(u)

UpdateMonitors(u) == \E a \in Addrs : WriteMonHeader(u, a) \/ WriteAppearances(u, a)

FreshenMonitors(u) ==
    \/ NewMonitorStaged(u) \/ SkipFreshen(u) \/ ReadDir(u)
    \/ StartTask(u) \/ SkipRest(u) \/ TakeResult(u) \/ UpdateMonitors(u) \/ ReadStage(u)
    \/ \E a \in Addrs : MoveToProduction(u, a)
    \/ MovedAll(u) \/ Unlock(u)

VisitChunks(u) == \E c \in tasks[u] : VisitChunk(u, c)

Next ==
    \/ GrowStage \/ Finalize \/ Crash
    \/ \E u \in Updaters :
        \/ BeginRequest(u) \/ LockForAddress(u) \/ FreshenMonitors(u) \/ VisitChunks(u)
        \/ Cancel(u)

Spec == Init /\ [][Next]_vars

\* Goroutines run, and a Go mutex is granted to a waiter in the end.  Requests
\* keep arriving; the scraper need not go on.
Fairness == \A u \in Updaters :
    /\ WF_vars(BeginRequest(u)) /\ SF_vars(LockFound(u))
    /\ WF_vars(LockForAddress(u)) /\ WF_vars(FreshenMonitors(u)) /\ WF_vars(VisitChunks(u))

FairSpec == Spec /\ Fairness

-----------------------------------------------------------------------------
(* Properties.                                                             *)

Monitors == [last : 0 .. stage + 1, apps : SUBSET Blocks, dup : BOOLEAN, exists : BOOLEAN]
Mutexes == {NoMutex} \cup {<<a>> : a \in Addrs} \cup (Updaters \X Addrs)

\* Files, mutexes and the variables of the requests; no LastScanned is beyond the
\* index.
TypeOK ==
    /\ setting \in Settings
    /\ final \in Ends /\ stage \in final .. MaxBlock
    /\ {prod, staged} \subseteq [Addrs -> Monitors]
    /\ mutexesPerAddress \in [Addrs -> Mutexes] /\ locked \subseteq Mutexes
    /\ pc \in [Updaters -> {"idle", "lookup", "lock", "copy", "visit", "move", "unlock"}]
    /\ mutex \in [Updaters -> Mutexes]
    /\ mem \in [Updaters -> [Addrs -> 0 .. stage + 1]]
    /\ \A u \in Updaters :
        /\ idx[u] \in 1 .. Len(Request[u]) + 1
        /\ todo[u] \cup tasks[u] \cup {r.chunk : r \in results[u]} \subseteq Chunks
        /\ update[u].last \in 0 .. stage + 1
        /\ update[u].left \cup update[u].header \cup unmoved[u] \subseteq MonitorMap(u)
    /\ canceled \in [Updaters -> BOOLEAN]

\* A chunk that the next request will skip (its range is EarlierThanB the
\* LastScanned of the monitor) has nothing in it that the monitor lacks.  An
\* appearance that is missing there is missing for ever.
SkippedChunksAreRead ==
    \A a \in Addrs, c \in Chunks :
        prod[a].exists /\ c.last < prod[a].last => In(a, c) \subseteq prod[a].apps

\* LastScanned is the next block to scan (`we update for the start of the next
\* chunk (plus 1 to current range)'): the monitor has every appearance below it.
NothingMissing ==
    \A a \in Addrs : prod[a].exists =>
        {b \in Appears[a] : b < prod[a].last} \subseteq prod[a].apps

\* No appearance is in a monitor twice, although a chunk is read for all
\* monitors when one of them needs it.
NoDuplicates == \A a \in Addrs : ~prod[a].dup

Holding(u) == pc[u] \in {"copy", "visit", "move"}

\* Two requests for the same address do not work on its files at the same time.
MutualExclusion ==
    \A u, v \in Updaters : u # v /\ Holding(u) /\ Holding(v) =>
        MonitorMap(u) \cap MonitorMap(v) = {}

\* Every request is answered.
FreshenReturns == \A u \in Updaters : pc[u] = "lookup" ~> pc[u] = "idle"

\* In the end every appearance in the chunks is in the monitors of the addresses
\* that are asked for, if the interrupting, the killing and the skipping end.
MonitorsCatchUp ==
    <>[][ ~Crash /\ \A u \in Updaters : ~Cancel(u) /\ ~SkipFreshen(u) ]_vars =>
        <>[](\A u \in setting.active, a \in Addrs, c \in Chunks :
                a \in MonitorMap(u) => In(a, c) \subseteq prod[a].apps)
=============================================================================
