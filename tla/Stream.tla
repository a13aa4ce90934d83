------------------------------- MODULE Stream -------------------------------
(***************************************************************************)
(* How a chifra command turns a query into output.  Every Handle* function *)
(* builds a function fetchData(modelChan, errorChan) and gives it to       *)
(* output.StreamMany, which runs it in a goroutine (the fetcher here) and  *)
(* renders what arrives on the two unbuffered channels (the renderer).     *)
(* Most handlers fetch in parallel: the items of the query are split into  *)
(* maps of at most AppMapSize, and for each map utils.IterateOverMap hands *)
(* payloads of the map's items to a pool of goroutines (the distributor    *)
(* and the workers).  Handlers that look at the index walk its files: one  *)
(* goroutine sends the file names (the walker), the visitor receives them. *)
(*                                                                         *)
(* A handler is a record (see Handlers.tla): the arms the code has for     *)
(* each kind of failure, written as the statements of that arm ("err":     *)
(* errorChan <- err, "cancel": rCtx.Cancel(), "return", "item":            *)
(* modelChan <- item, "warn": a log line only), and how it iterates.       *)
(*                                                                         *)
(* The items are 1 .. NItems in the order in which they are to be shown.   *)
(* What the node or a file answers for each is chosen at the start, with   *)
(* at most MaxFaults answers that are not "ok".                            *)
(***************************************************************************)
EXTENDS Naturals, FiniteSets, Sequences, SequencesExt

CONSTANTS
    NItems,      \* how many items the query names
    AppMapSize,  \* how many of them are fetched together (20 in the code)
    NRoutines,   \* the size of the pool (GOMAXPROCS in the code)
    MaxFaults,   \* the bound on answers that are not "ok"
    WriterFails, \* may writing a record fail
    FirstRecord, \* --first_record and --max_records
    MaxRecords,
    Handlers     \* the handlers that may run

ASSUME StreamAssumption ==
    /\ NItems \in Nat \ {0} /\ AppMapSize \in Nat \ {0} /\ NRoutines \in Nat \ {0}
    /\ MaxFaults \in Nat /\ WriterFails \in BOOLEAN
    /\ FirstRecord \in Nat /\ MaxRecords \in Nat \ {0}

\* What the arms of a handler may say (Handlers.tla): a blank record is only sent
\* behind the error that it stands for, and by an arm for an item; a worker that
\* reports what is missing does not append to the shared slice
ArmOps == {"err", "cancel", "warn", "return", "never"}
ASSUME HandlersAssumption ==
    \A h \in Handlers :
        /\ {h.onResolve, h.onNotFound, h.onNone, h.onEmpty, h.onGarbled, h.atEnd} \subseteq Seq(ArmOps)
        /\ \A arm \in {h.onItem, h.onMissing} :
              /\ arm \in Seq(ArmOps \cup {"item"})
              /\ \A k \in DOMAIN arm : arm[k] = "item" => \E j \in 1 .. k - 1 : arm[j] = "err"
        /\ h.how.missingIsSent => h.how.collect # "append"

\* The iterations that report every error and take what failed out of the map
Deletes(w) == w.drain = "all" /\ w.failed # "keep"

\* Their workers do not report what is missing (but under --max_records for each map),
\* and nothing is reconciled after them.  A batched handler says so when it cannot find
\* the items of a group, and one of these cancels the query then.
Never == <<"never">>
Says(arm, op) == \E k \in DOMAIN arm : arm[k] = op /\ \A j \in 1 .. k - 1 : arm[j] # "return"
ASSUME BatchedAssumption ==
    \A h \in Handlers :
        /\ Deletes(h.how) => /\ h.how.articulate # "recon"
                             /\ h.how.missingIsSent => h.how.limit = "map"
        /\ h.shape = "batched" =>
             \A arm \in {h.onResolve, h.onNotFound, h.onNone} \ {Never} :
                 Says(arm, "err") /\ (Deletes(h.how) => Says(arm, "cancel"))

VARIABLES
    todo,       \* the statements the fetcher has still to execute
    answer,     \* what the node answers for each item
    how,        \* how this handler iterates over a map
    thisMap,    \* the map being fetched: item |-> what is stored there
    items,      \* the slice that workers of an "append" handler share
    counter,    \* the counting part of the query's filter
    dist,       \* the goroutine of IterateOverMap
    workers,    \* the goroutines of its pool
    walker,     \* the names that the walking goroutine has still to send
    canceled,   \* rCtx.Cancel() was called
    closed,     \* how many of modelChan, errorChan the fetcher has closed
    renderer,   \* "select", or how StreamMany returned
    shown,      \* the records it has rendered: <<item, what was stored>>
    reported,   \* how many errors it received
    crashed     \* the process has panicked

vars == <<todo, answer, how, thisMap, items, counter, dist, workers, walker, canceled,
          closed, renderer, shown, reported, crashed>>

Items == 1 .. NItems
Slots == 1 .. NRoutines

\* ok; nothing there; not found; any other error; fetched, but not articulated
Answers == {"ok", "empty", "notFound", "fail", "garbled"}
-----------------------------------------------------------------------------
\* What the handlers execute: statements are records with a field op
Stmt(op) == [op |-> op]
Arm(ops) == [k \in DOMAIN ops |-> Stmt(ops[k])]
Send(i, v) == [op |-> "item", rec |-> <<i, v>>]

\* [mutant] the last map, not full, is forgotten
AsSliceOfMaps_Bug(is) ==
    [k \in 1 .. Len(is) \div AppMapSize |->
       {is[j] : j \in {j \in DOMAIN is : (j - 1) \div AppMapSize = k - 1}}]

\* types.AsSliceOfMaps: the items in order, AppMapSize to a map
AsSliceOfMaps(is) ==
    LET n == (Len(is) + AppMapSize - 1) \div AppMapSize
        Piece(k) == {is[j] : j \in {j \in DOMAIN is :
                               (j - 1) \div AppMapSize = k - 1}}
    IN  [k \in 1 .. n |-> Piece(k)]

\* The body of the loop over the maps: stop if canceled, iterate, drain the
\* errors, collect what was fetched and send it
Batches(is) ==
    LET maps == AsSliceOfMaps(is)
    IN  FlattenSeq([k \in DOMAIN maps |->
          << Stmt("check"), [op |-> "iterate", keys |-> maps[k]],
             Stmt("drain"), Stmt("collect") >>])

\* The statements for one item of a handler that fetches one after the other
OneItem(h, i, ans) ==
    CASE ans[i] = "ok"       -> << Send(i, "fetched") >>
      [] ans[i] = "garbled"  -> Arm(h.onGarbled) \o << Send(i, "fetched") >>
      [] ans[i] = "empty"    -> Arm(h.onEmpty)
      [] ans[i] = "notFound" -> [k \in DOMAIN h.onMissing |->
                                   IF h.onMissing[k] = "item" THEN Send(i, "blank")
                                   ELSE Stmt(h.onMissing[k])]
      [] OTHER               -> [k \in DOMAIN h.onItem |->
                                   IF h.onItem[k] = "item" THEN Send(i, "blank")
                                   ELSE Stmt(h.onItem[k])]

\* [mutant] the visitor leaves without having received the last mark
WalkFiles_Bug(h, is, ans) ==
    << [op |-> "walk", files |-> Len(is)] >>
    \o FlattenSeq([k \in DOMAIN is |->
         << Stmt("visit") >> \o OneItem(h, is[k], ans)])

\* A walk over the files of the index: every file is received from the walker
\* before it is visited; a visitor that fails ends the walk
WalkFiles(h, is, ans) ==
    << [op |-> "walk", files |-> Len(is)] >>
    \o FlattenSeq([k \in DOMAIN is |->
         << Stmt("visit") >> \o OneItem(h, is[k], ans)])
    \o << Stmt("visit") >>

\* The statements for one group of items: all the ids of the query, or one
\* id, address or monitor of it; res is how resolving the group went
OneGroup(h, is, res, ans) ==
    LET work == CASE h.shape = "batched" -> Batches(is)
                  [] h.shape = "walk"    -> WalkFiles(h, is, ans)
                  [] OTHER -> FlattenSeq([k \in DOMAIN is |-> OneItem(h, is[k], ans)])
    IN  CASE res = "fail"     -> Arm(h.onResolve)
          [] res = "notFound" -> Arm(h.onNotFound)
          [] res = "empty"    -> Arm(h.onNone)
          [] OTHER            -> << Stmt("group") >> \o work

\* fetchData of a handler; when the queries are resolved in groups, the
\* first group holds all the items but the last
FetchData(h, res, ans) ==
    LET all == [k \in Items |-> k]
        grouped == IF h.groups = "each" /\ NItems > 1
                   THEN << SubSeq(all, 1, NItems - 1), << NItems >> >>
                   ELSE << all >>
        body == FlattenSeq([g \in DOMAIN grouped |-> OneGroup(h, grouped[g], res[g], ans)])
        sends == {k \in DOMAIN body : body[k].op \in {"item", "iterate"}}
    IN  IF sends = {} THEN body \o Arm(h.atEnd) ELSE body
-----------------------------------------------------------------------------
Idle == [pc |-> "idle", args |-> <<>>, snap |-> {}]
NoIteration == [pc |-> "idle", left |-> {}, payload |-> <<>>, per |-> 1]

\* The answers this handler can meet.  In a batched handler the failures of
\* the items happen in the workers, and its arms for items are not used.
Possible(h, res, ans) ==
    /\ \A g \in DOMAIN res :
         /\ res[g] = "fail" => h.onResolve # Never
         /\ res[g] = "notFound" => h.onNotFound # Never
         /\ res[g] = "empty" => h.onNone # Never
         /\ g = 2 /\ h.groups = "all" => res[g] = "ok"
    /\ \A i \in Items :
         /\ ans[i] = "fail" => h.onItem # Never
         /\ ans[i] = "notFound" => h.onMissing # Never
         /\ ans[i] = "empty" => h.onEmpty # Never
         /\ ans[i] = "garbled" => h.onGarbled # Never

\* The outcomes of resolving the two groups and of fetching the items
Faults(res, ans) ==
    Cardinality({g \in DOMAIN res : res[g] # "ok"})
      + Cardinality({i \in Items : ans[i] # "ok"})

\* A handler that has to read something before it streams may return an error
\* instead: StreamMany never runs
Start(h, res, ans, ready) ==
    /\ todo = IF ready THEN FetchData(h, res, ans) ELSE <<>>
    /\ renderer = IF ready THEN "select" ELSE "refused"
    /\ closed = IF ready THEN 0 ELSE 2
    /\ reported = IF ready THEN 0 ELSE 1

Init ==
    /\ \E h \in Handlers,
          res \in [1 .. 2 -> {"ok", "notFound", "fail", "empty"}],
          ans \in [Items -> Answers] :
          /\ Faults(res, ans) <= MaxFaults /\ Possible(h, res, ans)
          /\ \E ready \in IF h.mayRefuse THEN BOOLEAN ELSE {TRUE} :
                Start(h, res, ans, ready)
          /\ answer = ans
          /\ how = h.how
    /\ thisMap = [i \in {} |-> "blank"] /\ items = {}
    /\ counter = [seen |-> 0, exported |-> 0, finished |-> FALSE]
    /\ dist = NoIteration /\ workers = [s \in Slots |-> Idle] /\ walker = 0
    /\ canceled = FALSE /\ shown = <<>> /\ crashed = FALSE
-----------------------------------------------------------------------------
(* The renderer: the select loop of StreamMany.  It meets the fetcher, or a *)
(* worker, on the unbuffered channels.                                      *)

\* case model := <-modelChan: the record is rendered; an error of the writer
\* or of the template ends the loop
Receive(rec, ok) ==
    /\ renderer = "select"
    /\ shown' = Append(shown, rec)
    /\ renderer' = IF ok THEN "select" ELSE "failed"
    /\ UNCHANGED reported

\* case err := <-errorChan: kept for the end of the output
ReceiveError ==
    /\ renderer = "select"
    /\ reported' = reported + 1
    /\ UNCHANGED <<renderer, shown>>

\* case <-rCtx.Ctx.Done()
RenderCanceled ==
    /\ ~crashed /\ renderer = "select" /\ canceled
    /\ renderer' = "canceled"
    /\ UNCHANGED <<todo, answer, how, thisMap, items, counter, dist, workers, walker,
                   canceled, closed, shown, reported, crashed>>

\* modelChan is closed
RenderDone ==
    /\ ~crashed /\ renderer = "select" /\ closed >= 1
    /\ renderer' = "done"
    /\ UNCHANGED <<todo, answer, how, thisMap, items, counter, dist, workers, walker,
                   canceled, closed, shown, reported, crashed>>
-----------------------------------------------------------------------------
(* The fetcher *)

Is(op) == ~crashed /\ todo # <<>> /\ Head(todo).op = op

FetcherOnly == UNCHANGED <<answer, how, thisMap, items, dist, workers, walker,
                           closed, crashed>>

\* errorChan <- err
SendError ==
    /\ Is("err")
    /\ ReceiveError
    /\ todo' = Tail(todo)
    /\ UNCHANGED <<canceled, counter>> /\ FetcherOnly

\* modelChan <- item
SendItem ==
    /\ Is("item")
    /\ \E ok \in {TRUE, ~WriterFails} : Receive(Head(todo).rec, ok)
    /\ todo' = Tail(todo)
    /\ UNCHANGED <<canceled, counter>> /\ FetcherOnly

\* rCtx.Cancel(), logger.Warn, return
Local ==
    /\ \/ Is("cancel") /\ canceled' = TRUE /\ todo' = Tail(todo)
       \/ Is("warn") /\ todo' = Tail(todo) /\ UNCHANGED canceled
       \/ Is("return") /\ todo' = <<>> /\ UNCHANGED canceled
    /\ UNCHANGED <<counter, renderer, shown, reported>> /\ FetcherOnly

\* A new group: finished := false.  Before each map the handler asks
\* rCtx.WasCanceled() and skips the map once it has finished.
Loop ==
    /\ \/ Is("group") /\ todo' = Tail(todo) /\ counter' = [counter EXCEPT !.finished = FALSE]
       \/ Is("check") /\ UNCHANGED counter
            /\ todo' = (IF canceled THEN <<>>
                        ELSE IF counter.finished THEN SubSeq(todo, 5, Len(todo))
                        ELSE Tail(todo))
    /\ UNCHANGED <<canceled, renderer, shown, reported>> /\ FetcherOnly

\* A new map of blank items, and IterateOverMap started on it
Iterate ==
    /\ Is("iterate")
    /\ LET keys == Head(todo).keys IN
          /\ thisMap' = [i \in keys |-> "blank"]
          /\ dist' = [pc |-> "range", left |-> keys, payload |-> <<>>,
                      per |-> IF Cardinality(keys) \div NRoutines = 0 THEN 1
                              ELSE Cardinality(keys) \div NRoutines]
    /\ items' = {}
    /\ todo' = Tail(todo)
    /\ UNCHANGED <<answer, how, counter, workers, walker, canceled, closed, renderer,
                   shown, reported, crashed>>

\* [mutant] the errors are received and dropped
Drain_Bug ==
    /\ Is("drain")
    /\ \/ /\ dist.pc = "done"
          /\ todo' = Tail(todo)
          /\ UNCHANGED workers
       \/ \E s \in Slots :
            /\ workers[s].pc = "failed"
            /\ workers' = [workers EXCEPT ![s] = Idle]
            /\ UNCHANGED todo
    /\ UNCHANGED <<answer, how, thisMap, items, counter, dist, walker, canceled, closed,
                   renderer, shown, reported, crashed>>

\* [mutant] the first error ends the query without being sent
DrainFirst_Bug ==
    /\ Is("drain")
    /\ \/ /\ dist.pc = "done"
          /\ todo' = Tail(todo)
          /\ UNCHANGED workers
       \/ \E s \in Slots :
            /\ workers[s].pc = "failed"
            /\ workers' = [workers EXCEPT ![s] = Idle]
            /\ todo' = IF how.drain = "first" THEN <<>> ELSE Arm(<<"err">>) \o todo
    /\ UNCHANGED <<answer, how, thisMap, items, counter, dist, walker, canceled, closed,
                   renderer, shown, reported, crashed>>

\* for err := range iterErrorChan { errorChan <- err }, or, in the handlers
\* that look at the first error only, if err := <-errChan { ...; return }
Drain ==
    /\ Is("drain")
    /\ \/ /\ dist.pc = "done"
          /\ todo' = Tail(todo)
          /\ UNCHANGED workers
       \/ \E s \in Slots :
            /\ workers[s].pc = "failed"
            /\ workers' = [workers EXCEPT ![s] = Idle]
            /\ todo' = IF how.drain = "first" THEN Arm(<<"err", "return">>)
                       ELSE Arm(<<"err">>) \o todo
    /\ UNCHANGED <<answer, how, thisMap, items, counter, dist, walker, canceled, closed,
                   renderer, shown, reported, crashed>>

\* Some of the items, sorted
InOrder(is) == FlattenSeq([i \in Items |-> IF i \in is THEN <<i>> ELSE <<>>])

\* The records of the map, sorted: a blank is a record nobody has filled in,
\* with block number zero.
\* Handlers that flatten, or test the pointer, show nothing for a blank.
Collected ==
    LET keep == CASE how.collect = "append" -> items
                  [] how.collect = "values" -> {i \in DOMAIN thisMap : answer[i] # "empty"}
                  [] OTHER -> {i \in DOMAIN thisMap :
                                 thisMap[i] = "fetched" /\ answer[i] # "empty"}
        blank == {i \in keep : how.collect # "append" /\ thisMap[i] = "blank"}
    IN  InOrder(blank) \o InOrder(keep \ blank)

\* PassesCountFilter, asked for each record in turn: records before the first
\* one wanted are skipped; the first one after the last one wanted finishes
\* the group.  traces --filter counts anew for each map.
Counted(recs) ==
    LET seen == IF how.limit = "map" THEN 0 ELSE counter.seen
        exported == IF how.limit = "map" THEN 0 ELSE counter.exported
        before == {k \in DOMAIN recs : seen + k < FirstRecord}
        room == MaxRecords - exported
        wanted == SubSeq(recs, Cardinality(before) + 1, Len(recs))
        pass == IF Len(wanted) > room THEN SubSeq(wanted, 1, room) ELSE wanted
    IN  IF how.limit = "none" THEN [pass |-> recs, counter |-> counter]
        ELSE [pass |-> pass,
              counter |-> [seen |-> seen + (IF Len(wanted) > room
                                             THEN Cardinality(before) + room + 1
                                             ELSE Len(recs)),
                           exported |-> exported + Len(pass),
                           finished |-> how.limit = "query" /\ Len(wanted) > room]]

\* The records are sent, with an error before one the fetcher itself fails to
\* articulate
Sends(recs) ==
    FlattenSeq([k \in DOMAIN recs |->
      (IF how.articulate = "fetcher" /\ answer[recs[k]] = "garbled"
       THEN Arm(<<"err">>) ELSE <<>>)
      \o << Send(recs[k], IF how.collect = "append" THEN "fetched"
                          ELSE thisMap[recs[k]]) >>])

\* One handler dereferences the receipt of every item of the map; two give
\* all the transactions of the map to the reconciler, which may fail
Panics == how.collect = "deref" /\ \E i \in DOMAIN thisMap : thisMap[i] = "blank"
Unreconciled == how.articulate = "recon" /\ \E i \in DOMAIN thisMap : answer[i] = "garbled"

Collect ==
    /\ Is("collect")
    /\ \/ /\ Panics
          /\ crashed' = TRUE /\ UNCHANGED <<todo, counter>>
       \/ /\ ~Panics /\ Unreconciled
          /\ todo' = Arm(<<"err", "return">>) /\ UNCHANGED <<counter, crashed>>
       \/ /\ ~Panics /\ ~Unreconciled
          /\ LET c == Counted(Collected) IN
               todo' = Sends(c.pass) \o Tail(todo) /\ counter' = c.counter
          /\ UNCHANGED crashed
    /\ UNCHANGED <<answer, how, thisMap, items, dist, workers, walker, canceled,
                   closed, renderer, shown, reported>>

\* The walk starts: go WalkCacheFolder(...), which sends a name per file and
\* then the mark that there are no more
StartWalk ==
    /\ Is("walk")
    /\ walker' = Head(todo).files + 1
    /\ todo' = Tail(todo)
    /\ UNCHANGED <<answer, how, thisMap, items, counter, dist, workers, canceled, closed,
                   renderer, shown, reported, crashed>>

\* for result := range filenameChan
Visit ==
    /\ Is("visit") /\ walker > 0
    /\ walker' = walker - 1
    /\ todo' = Tail(todo)
    /\ UNCHANGED <<answer, how, thisMap, items, counter, dist, workers, canceled, closed,
                   renderer, shown, reported, crashed>>

\* [mutant] modelChan is never closed
Close_Bug == FALSE /\ UNCHANGED vars

\* fetchData has returned: close(modelChan), then close(errorChan)
Close ==
    /\ ~crashed /\ todo = <<>> /\ closed < 2
    /\ closed' = closed + 1
    /\ UNCHANGED <<todo, answer, how, thisMap, items, counter, dist, workers, walker,
                   canceled, renderer, shown, reported, crashed>>

Fetcher == SendError \/ SendItem \/ Local \/ Loop \/ Iterate \/ Drain \/ Collect
             \/ StartWalk \/ Visit \/ Close
-----------------------------------------------------------------------------
(* IterateOverMap: the distributor *)

\* pool.Invoke(payload): waits for a free goroutine of the pool
Invoke(payload) ==
    \E s \in Slots :
        /\ workers[s].pc = "idle"
        /\ \A t \in 1 .. s - 1 : workers[t].pc # "idle"
        /\ workers' = [workers EXCEPT ![s] = [Idle EXCEPT !.pc = "start", !.args = payload]]

\* for key, value := range target: in any order, a payload of itemsPerPool
RangeOverMap ==
    /\ ~crashed /\ dist.pc = "range" /\ dist.left # {}
    /\ \E i \in dist.left :
         LET payload == Append(dist.payload, i) IN
           IF Len(payload) = dist.per
           THEN /\ Invoke(payload)
                /\ dist' = [dist EXCEPT !.left = @ \ {i}, !.payload = <<>>]
           ELSE /\ dist' = [dist EXCEPT !.left = @ \ {i}, !.payload = payload]
                /\ UNCHANGED workers
    /\ UNCHANGED <<todo, answer, how, thisMap, items, counter, walker, canceled, closed,
                   renderer, shown, reported, crashed>>

\* The remainder
RangeEnds ==
    /\ ~crashed /\ dist.pc = "range" /\ dist.left = {}
    /\ IF dist.payload = <<>> THEN UNCHANGED workers ELSE Invoke(dist.payload)
    /\ dist' = [dist EXCEPT !.pc = "wait", !.payload = <<>>]
    /\ UNCHANGED <<todo, answer, how, thisMap, items, counter, walker, canceled, closed,
                   renderer, shown, reported, crashed>>

\* [mutant] the channel is closed without waiting for the workers
WaitGroup_Bug ==
    /\ ~crashed /\ dist.pc = "wait"
    /\ dist' = [dist EXCEPT !.pc = "done"]
    /\ UNCHANGED <<todo, answer, how, thisMap, items, counter, workers, walker,
                   canceled, closed, renderer, shown, reported, crashed>>

\* wg.Wait(), and the deferred close(errorChan)
WaitGroup ==
    /\ ~crashed /\ dist.pc = "wait"
    /\ \A s \in Slots : workers[s].pc = "idle"
    /\ dist' = [dist EXCEPT !.pc = "done"]
    /\ UNCHANGED <<todo, answer, how, thisMap, items, counter, workers, walker, canceled,
                   closed, renderer, shown, reported, crashed>>

Distributor == RangeOverMap \/ RangeEnds \/ WaitGroup
-----------------------------------------------------------------------------
(* The workers: the function of the pool, and the iterFunc of the handler *)

WorkerOnly == UNCHANGED <<todo, answer, how, counter, dist, walker, canceled, closed>>

\* The payload is dropped when the fetcher has returned (defer iterCancel())
Begin(s) ==
    /\ ~crashed /\ workers[s].pc = "start"
    /\ workers' = IF closed > 0 THEN [workers EXCEPT ![s] = Idle]
                  ELSE [workers EXCEPT ![s].pc = "step"]
    /\ WorkerOnly
    /\ UNCHANGED <<thisMap, items, renderer, shown, reported, crashed>>

Failing(i) ==
    \/ answer[i] = "fail"
    \/ answer[i] = "notFound" /\ ~how.missingIsSent
    \/ answer[i] = "empty" /\ how.emptyFails

\* The worker itself reports what it could not find, or not articulate
Reports(i) == \/ how.articulate = "worker" /\ answer[i] = "garbled"
              \/ answer[i] = "notFound"

\* The next item of the payload is asked for.  An error ends the payload; a
\* record is stored in the item's own place, or appended to the shared slice.
Step(s) ==
    /\ ~crashed /\ workers[s].pc = "step"
    /\ IF workers[s].args = <<>>
       THEN workers' = [workers EXCEPT ![s] = Idle] /\ UNCHANGED thisMap
       ELSE LET i == Head(workers[s].args) IN
            IF Failing(i)
            THEN /\ workers' = [workers EXCEPT ![s].pc =
                       IF how.failed = "keep" THEN "failed" ELSE "delete"]
                 /\ UNCHANGED thisMap
            ELSE /\ thisMap' = IF answer[i] = "notFound" THEN thisMap
                               ELSE [thisMap EXCEPT ![i] = "fetched"]
                 /\ workers' = IF how.collect = "append" /\ answer[i] # "empty"
                               THEN [workers EXCEPT ![s].pc = "append", ![s].snap = items]
                               ELSE IF Reports(i) THEN [workers EXCEPT ![s].pc = "send"]
                               ELSE [workers EXCEPT ![s].args = Tail(@)]
    /\ WorkerOnly
    /\ UNCHANGED <<items, renderer, shown, reported, crashed>>

\* items = append(items, item), on the slice that was read a step before
AppendItem(s) ==
    /\ ~crashed /\ workers[s].pc = "append"
    /\ items' = workers[s].snap \cup {Head(workers[s].args)}
    /\ workers' = [workers EXCEPT ![s] =
                     [Idle EXCEPT !.pc = "step", !.args = Tail(workers[s].args)]]
    /\ WorkerOnly
    /\ UNCHANGED <<thisMap, renderer, shown, reported, crashed>>

\* delete(thisMap, app), while the distributor may still range over the map
\* or another worker delete from it: the runtime may detect that and stop
Races(s) ==
    \/ dist.pc = "range"
    \/ how.failed = "delete" /\ \E t \in Slots \ {s} : workers[t].pc = "delete"

Delete(s) ==
    /\ ~crashed /\ workers[s].pc = "delete"
    /\ thisMap' = [i \in DOMAIN thisMap \ {Head(workers[s].args)} |-> thisMap[i]]
    /\ workers' = [workers EXCEPT ![s].pc = "failed"]
    /\ crashed' \in {FALSE, Races(s)}
    /\ WorkerOnly
    /\ UNCHANGED <<items, renderer, shown, reported>>

\* errorChan <- ... from the worker itself, after an item it could not
\* articulate: a panic when the fetcher has closed the channel
SendDirect(s) ==
    /\ ~crashed /\ workers[s].pc = "send"
    /\ \/ closed = 2 /\ crashed' = TRUE
            /\ UNCHANGED <<workers, renderer, shown, reported>>
       \/ closed < 2 /\ ReceiveError /\ UNCHANGED crashed
            /\ workers' = [workers EXCEPT ![s] =
                 [Idle EXCEPT !.pc = "step", !.args = Tail(workers[s].args)]]
    /\ WorkerOnly
    /\ UNCHANGED <<thisMap, items>>

Worker(s) == Begin(s) \/ Step(s) \/ AppendItem(s) \/ Delete(s) \/ SendDirect(s)
-----------------------------------------------------------------------------
Renderer == RenderCanceled \/ RenderDone

Next == Fetcher \/ Renderer \/ Distributor \/ \E s \in Slots : Worker(s)

\* The Go scheduler runs every goroutine that can run
Fairness ==
    /\ WF_vars(Fetcher) /\ WF_vars(Renderer) /\ WF_vars(Distributor)
    /\ \A s \in Slots : WF_vars(Worker(s))

Spec == Init /\ [][ Next ]_vars /\ Fairness
-----------------------------------------------------------------------------
(* Properties *)

\* The variables keep their types: the fetcher executes known statements, the
\* workers hold items of the map, at most both channels are closed.
TypeOK ==
    /\ \A k \in DOMAIN todo : todo[k].op \in
         {"err", "item", "cancel", "warn", "return", "group", "check", "iterate",
          "drain", "collect", "walk", "visit"}
    /\ answer \in [Items -> Answers]
    /\ DOMAIN thisMap \subseteq Items /\ items \subseteq Items
    /\ dist.pc \in {"idle", "range", "wait", "done"}
    /\ \A s \in Slots :
         /\ workers[s].pc \in {"idle", "start", "step", "append", "delete", "failed", "send"}
         /\ \A k \in DOMAIN workers[s].args : workers[s].args[k] \in Items
    /\ walker \in 0 .. NItems + 1 /\ canceled \in BOOLEAN /\ closed \in 0 .. 2
    /\ renderer \in {"select", "done", "canceled", "failed", "refused"}
    /\ \A k \in DOMAIN shown : shown[k] \in Items \X {"fetched", "blank"}
    /\ reported \in Nat /\ crashed \in BOOLEAN

\* What a fetch failed for, in this run
Failed == {i \in Items : answer[i] \in {"fail", "notFound"} \/ Failing(i)}

\* The process is only brought down by the code that runs after a failure:
\* with healthy answers no worker sends on a closed channel, no map is written
\* while it is ranged over, nothing blank is dereferenced (stream.go closes
\* the channels after fetchData, iteration.go after wg.Wait).
HealthyNeverCrashes == crashed => Failed # {}

\* A record that was never fetched is only shown after an error was reported:
\* the errors of a map are drained before its values are sent.
BlankIsExplained ==
    (\E k \in DOMAIN shown : shown[k][2] = "blank") => reported > 0

\* No failure is silent: when StreamMany returns at the end of the data and a
\* map was iterated over to its end with an item that failed, an error was
\* reported.
FailuresAreReported ==
    (renderer = "done" /\ dist.pc # "idle" /\ reported = 0) =>
       \A i \in DOMAIN thisMap : ~Failing(i)

\* At the end of the data every item that answered is shown once, in its
\* order, from the first to the last record that was asked for, when nothing
\* was reported; and in the handlers that delete what failed and drain all the
\* errors even then, when every payload has one item: a failed item takes no
\* other with it.  The handlers that append to a shared slice are left out.
Wanted ==
    LET good == InOrder({i \in Items : answer[i] \in {"ok", "garbled"}})
        from == IF FirstRecord = 0 THEN 1 ELSE FirstRecord
        upto == IF from + MaxRecords - 1 < Len(good) THEN from + MaxRecords - 1 ELSE Len(good)
    IN  IF how.limit = "none" THEN good ELSE SubSeq(good, from, upto)

ShownItems == [k \in DOMAIN shown |-> shown[k][1]]

NothingLost ==
    (/\ renderer = "done" /\ ~canceled /\ dist.pc # "idle"
     /\ how.collect # "append" /\ how.limit # "map"
     /\ reported = 0 \/ (Deletes(how) /\ AppMapSize < 2 * NRoutines))
    => ShownItems = Wanted

\* "IterateOverMap distributes batches of `target` items to a pool of
\* goroutines which execute `step` for every `target` item" (iteration.go:14):
\* a record that is shown was fetched.
ShownWasFetched == \A k \in DOMAIN shown : shown[k][2] = "fetched"

\* Every query returns, whatever the node answers, or takes the process down.
StreamReturns == <>(renderer # "select" \/ crashed)

\* When nothing fails and the output can be written, a query leaves no
\* goroutine behind: fetcher, distributor, workers and walker all end.
Healthy == \A i \in Items : answer[i] \in {"ok", "empty", "garbled"} /\ ~Failing(i)
Ended == closed = 2 /\ dist.pc \in {"idle", "done"} /\ walker = 0
           /\ \A s \in Slots : workers[s].pc = "idle"
HealthyEnds == [](renderer = "done" /\ Healthy /\ ~canceled /\ reported = 0 => <>Ended)
=============================================================================
