------------------------------ MODULE Handlers ------------------------------
(***************************************************************************)
(* The handlers of the chifra commands, one definition per Handle*         *)
(* function, as the records that Stream.tla runs.  The fields are:         *)
(*                                                                         *)
(*   shape       "batched": fetched in parallel, map by map; "loop": one   *)
(*               after the other; "walk": a walk over the index's files    *)
(*   groups      "all": the query is resolved once; "each": each of its    *)
(*               ids, addresses or monitors is resolved in turn            *)
(*   mayRefuse   the handler may return an error before it streams         *)
(*   onResolve, onNotFound, onNone                                         *)
(*               the statements of the arms for a group that cannot be     *)
(*               resolved, is not found, or has no items                   *)
(*   onItem, onMissing, onEmpty, onGarbled                                 *)
(*               the same for one item; for a batched handler only whether *)
(*               they can happen                                           *)
(*   atEnd       what follows when nothing was sent                        *)
(*   how         how a batched handler iterates:                           *)
(*     failed        a failed item is deleted from the map ("delete"),     *)
(*                   deleted under a mutex ("locked") or kept ("keep")     *)
(*     drain         all errors of the iteration are reported, or "first"  *)
(*     collect       all "values" of the map are shown; only the "filled"  *)
(*                   ones; those in a slice all workers "append" to; or    *)
(*                   "deref": the values' receipts are dereferenced        *)
(*     emptyFails    an item without records is an error                   *)
(*     missingIsSent an item that is not found is reported by the worker   *)
(*     articulate    who reports that decoding failed                      *)
(*     limit         what --max_records counts over                        *)
(***************************************************************************)
EXTENDS Naturals, Sequences

No == <<"never">>
Iterating == [failed |-> "keep", drain |-> "all", collect |-> "filled",
              emptyFails |-> FALSE, missingIsSent |-> FALSE,
              articulate |-> "none", limit |-> "none"]

\* A handler that sends what it has, and in which nothing can fail
Plain == [shape |-> "loop", groups |-> "all", mayRefuse |-> FALSE,
          onResolve |-> No, onNotFound |-> No, onNone |-> No,
          onItem |-> No, onMissing |-> No, onEmpty |-> No, onGarbled |-> No,
          atEnd |-> <<>>, how |-> Iterating]

\* The frame of the batched handlers over a list of ids: when the ids cannot
\* be resolved the error is sent and the context canceled, but fetchData goes
\* on and finds no items; that is sent, and canceled, again
OverIds == [Plain EXCEPT !.shape = "batched",
              !.onResolve = <<"err", "cancel", "err", "cancel">>,
              !.onNone = <<"err", "cancel">>,
              !.onItem = <<>>]

\* The frame of the export handlers, for each monitor of the query: a monitor
\* that cannot be read cancels but does not return, one without appearances
\* is reported
OverMonitors == [Plain EXCEPT !.shape = "batched", !.groups = "each",
                   !.onResolve = <<"err", "cancel">>, !.onNone = <<"err">>,
                   !.onItem = <<>>,
                   !.how = [@ EXCEPT !.drain = "first", !.limit = "query"]]

\* The arms of handlers that resolve block ids one by one
ById == [Plain EXCEPT !.groups = "each", !.onResolve = <<"err", "cancel", "return">>,
           !.onNotFound = <<"err">>]
-----------------------------------------------------------------------------
(* chifra blocks *)
BlocksShow == [OverIds EXCEPT !.how.failed = "locked", !.how.collect = "values"]
BlocksHashes == BlocksShow
BlocksLogs == [OverIds EXCEPT !.onEmpty = <<>>, !.onGarbled = <<>>,
                 !.how = [@ EXCEPT !.failed = "locked", !.emptyFails = TRUE,
                                   !.articulate = "worker"]]
BlocksTraces == BlocksLogs
BlocksUncles == [OverIds EXCEPT !.onEmpty = <<>>, !.how.failed = "delete",
                                !.how.collect = "append"]
BlocksUniq == BlocksUncles
BlocksWithdrawals == [OverIds EXCEPT !.onEmpty = <<>>, !.how.failed = "delete"]
BlocksCount == [ById EXCEPT !.onItem = <<"err", "cancel", "return">>,
                            !.onMissing = <<"err">>]
BlocksDecache == [Plain EXCEPT !.mayRefuse = TRUE, !.onItem = <<"err">>]

(* chifra transactions, receipts, logs, traces *)
TransactionsShow == [OverIds EXCEPT !.onEmpty = <<>>, !.onGarbled = <<>>,
                       !.how = [@ EXCEPT !.failed = "delete", !.collect = "values",
                                  !.emptyFails = TRUE, !.articulate = "worker"]]
TransactionsLogs == [TransactionsShow EXCEPT !.how.collect = "deref"]
TransactionsUniq == [Plain EXCEPT !.groups = "each", !.onResolve = <<"err", "cancel">>,
                       !.onNotFound = <<>>, !.onItem = <<"err">>]
TransactionsDecache == BlocksDecache
ReceiptsShow == [TransactionsShow EXCEPT !.how.collect = "filled"]
ReceiptsDecache == BlocksDecache
LogsShow == [ReceiptsShow EXCEPT !.how.failed = "locked"]
LogsDecache == BlocksDecache
TracesShow == ReceiptsShow
TracesCount == [TransactionsShow EXCEPT !.onGarbled = No, !.how.articulate = "none"]
TracesFilter == [TracesShow EXCEPT !.onMissing = <<>>, !.how.missingIsSent = TRUE,
                                   !.how.limit = "map"]
TracesDecache == BlocksDecache

(* chifra state, tokens, slurp *)
StateCall == [OverIds EXCEPT !.how.failed = "delete"]
StateShow == [ById EXCEPT !.onItem = <<"err">>, !.onMissing = <<"err">>,
                          !.atEnd = <<"err">>]
StateSend == Plain
StateDecache == BlocksDecache
TokensShow == [ById EXCEPT !.onItem = <<"err">>]
TokensParts == TokensShow
TokensApprovals == [OverMonitors EXCEPT !.mayRefuse = TRUE]
TokensDecache == [Plain EXCEPT !.mayRefuse = TRUE, !.onResolve = <<"err", "return">>,
                               !.onItem = <<"err">>]
SlurpShow == [Plain EXCEPT !.mayRefuse = TRUE, !.onItem = <<"err">>, !.onGarbled = <<"err">>]
SlurpAppearances == [Plain EXCEPT !.mayRefuse = TRUE, !.onItem = <<"err">>]
SlurpCount == SlurpAppearances

(* chifra export, list *)
ExportShow == [OverMonitors EXCEPT !.onGarbled = <<>>, !.how.articulate = "fetcher"]
ExportReceipts == ExportShow
ExportLogs == [OverMonitors EXCEPT !.onEmpty = <<>>, !.onGarbled = <<>>,
                                   !.how.articulate = "worker"]
ExportTraces == ExportLogs
ExportAssets == [OverMonitors EXCEPT !.onGarbled = <<>>, !.how.collect = "values",
                                     !.how.articulate = "recon"]
ExportTransfers == ExportAssets
ExportStatements == [ExportShow EXCEPT !.how.collect = "values"]
ExportBalances == [OverMonitors EXCEPT !.how.drain = "all", !.how.collect = "values"]
ExportWithdrawals == [OverMonitors EXCEPT !.onEmpty = <<>>, !.how.drain = "all"]
ExportNeighbors == [OverMonitors EXCEPT !.how.drain = "all", !.how.collect = "append"]
ExportAppearances == [Plain EXCEPT !.groups = "each", !.onResolve = <<"err", "return">>,
                                   !.onNone = <<"err">>]
ExportCount == ExportAppearances
ExportDecache == [Plain EXCEPT !.onItem = <<"err">>, !.onEmpty = <<>>]
ListShow == [ExportAppearances EXCEPT !.onResolve = <<"err">>]
ListBounds == ExportAppearances
ListCount == ExportAppearances

(* chifra when *)
WhenShow == [BlocksCount EXCEPT !.onEmpty = <<"err">>]
WhenDiff == [BlocksCount EXCEPT !.onNone = <<"err">>]
WhenList == [Plain EXCEPT !.onResolve = <<"err", "cancel", "return">>,
               !.onNotFound = <<"err", "return">>, !.onEmpty = <<>>]
WhenTimestampsShow == [Plain EXCEPT !.mayRefuse = TRUE, !.onItem = <<"err", "item">>]
WhenTimestampsCount == [Plain EXCEPT !.onResolve = <<"err", "return">>]
WhenTimestampsCheck == [Plain EXCEPT !.mayRefuse = TRUE]
WhenDecache == BlocksDecache

(* chifra abis: an address that is not a contract is reported; after any     *)
(* other error the context is canceled and the loop goes on                  *)
AbisShow == [Plain EXCEPT !.onNotFound = <<"err">>, !.onResolve = <<"err", "cancel">>]
AbisDetails == [AbisShow EXCEPT !.groups = "each"]
AbisMany == [Plain EXCEPT !.onMissing = <<"err", "item">>,
                          !.onItem = <<"err", "cancel", "item">>]
AbisEncode == [Plain EXCEPT !.onNone = <<"err", "return">>]
AbisCount == Plain
AbisList == Plain
AbisFind == [Plain EXCEPT !.onResolve = <<"err", "cancel", "return">>, !.onEmpty = <<>>]

(* chifra names, monitors, config, status, explore *)
NamesShow == [Plain EXCEPT !.mayRefuse = TRUE, !.onNone = <<"warn", "return">>]
NamesTags == [Plain EXCEPT !.mayRefuse = TRUE, !.onEmpty = <<>>]
NamesCount == [Plain EXCEPT !.onResolve = <<"err", "return">>]
NamesAutoname == [Plain EXCEPT !.mayRefuse = TRUE]
MonitorsClean == [Plain EXCEPT !.onItem = <<"err", "return">>, !.onEmpty = <<>>]
MonitorsCount == [Plain EXCEPT !.shape = "walk", !.onEmpty = <<>>]
MonitorsList == MonitorsCount
MonitorsDecache == [ExportDecache EXCEPT !.mayRefuse = TRUE]
ConfigDump == Plain
ConfigPaths == Plain
StatusShow == [Plain EXCEPT !.onResolve = <<"err", "return">>, !.onNone = <<"return">>]
StatusChainsAndCaches == [Plain EXCEPT !.onResolve = <<"err", "return">>]
StatusDiagnose == StatusChainsAndCaches
StatusModes == [Plain EXCEPT !.onResolve = <<"err", "return">>, !.onNone = <<"err", "return">>]
ExploreShow == Plain

(* chifra chunks: a visitor's error ends the walk; then the error is sent    *)
(* and the context canceled                                                  *)
ChunksWalk == [Plain EXCEPT !.shape = "walk", !.onItem = <<"err", "cancel", "return">>]
ChunksStats == ChunksWalk
ChunksAddresses == [ChunksWalk EXCEPT !.onMissing = <<"err">>]
ChunksAppearances == [ChunksWalk EXCEPT !.onEmpty = <<>>]
ChunksBlooms == ChunksWalk
ChunksIndex == ChunksAppearances
ChunksIndexBelongs == ChunksAppearances
ChunksCounts == Plain
ChunksManifest == [Plain EXCEPT !.mayRefuse = TRUE]
ChunksList == [Plain EXCEPT !.onItem = <<"err">>]
ChunksCheck == [Plain EXCEPT !.mayRefuse = TRUE, !.onEmpty = <<>>]
-----------------------------------------------------------------------------
AllHandlers ==
    { BlocksShow, BlocksHashes, BlocksLogs, BlocksTraces, BlocksUncles, BlocksUniq,
      BlocksWithdrawals, BlocksCount, BlocksDecache,
      TransactionsShow, TransactionsLogs, TransactionsUniq, TransactionsDecache,
      ReceiptsShow, ReceiptsDecache, LogsShow, LogsDecache,
      TracesShow, TracesCount, TracesFilter, TracesDecache,
      StateCall, StateShow, StateSend, StateDecache,
      TokensShow, TokensParts, TokensApprovals, TokensDecache,
      SlurpShow, SlurpAppearances, SlurpCount,
      ExportShow, ExportReceipts, ExportLogs, ExportTraces, ExportAssets,
      ExportTransfers, ExportStatements, ExportBalances, ExportWithdrawals,
      ExportNeighbors, ExportAppearances, ExportCount, ExportDecache,
      ListShow, ListBounds, ListCount,
      WhenShow, WhenDiff, WhenList, WhenTimestampsShow, WhenTimestampsCount,
      WhenTimestampsCheck, WhenDecache,
      AbisShow, AbisDetails, AbisMany, AbisEncode, AbisCount, AbisList, AbisFind,
      NamesShow, NamesTags, NamesCount, NamesAutoname,
      MonitorsClean, MonitorsCount, MonitorsList, MonitorsDecache,
      ConfigDump, ConfigPaths, StatusShow, StatusChainsAndCaches, StatusDiagnose,
      StatusModes, ExploreShow,
      ChunksStats, ChunksAddresses, ChunksAppearances, ChunksBlooms, ChunksIndex,
      ChunksIndexBelongs, ChunksCounts, ChunksManifest, ChunksList, ChunksCheck }
=============================================================================
