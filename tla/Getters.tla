------------------------------ MODULE Getters ------------------------------
(***************************************************************************)
(* The getters of pkg/rpc, pkg/call and pkg/ledger that use the binary     *)
(* cache, and the lists of locations chifra removes with --decache, as     *)
(* programs for the threads of Store.  A block has one transaction; what   *)
(* the queries of one getter ask for beyond its item is one query.         *)
(***************************************************************************)
EXTENDS Store

\* A call of a getter: a hit goes on after the call, an error is passed on.
Inline(prog) ==
  [i \in 1..Len(prog) |-> [prog[i] EXCEPT !.ok = IF @ = Return THEN Len(prog) - i ELSE @]]

\* A call whose error does not end the caller: it goes on `after` statements behind the call.
Attempt(prog, after) ==
  [i \in 1..Len(prog) |-> [Inline(prog)[i] EXCEPT !.no = IF @ = Return THEN Len(prog) - i + after ELSE @]]

GetBlockHeaderByNumber == <<Look("LightBlock", Return, 0), Ask("LightBlock"), Save("LightBlock")>>
GetBlockHashByNumber == GetBlockHeaderByNumber
GetBlockHashByHash == <<Ask("LightBlock"), Save("LightBlock")>>
GetBlockNumberByHash == <<Ask("LightBlock"), Save("LightBlock")>>

getReceiptFromRpc == <<Ask("Transaction"), Ask("Receipt")>>
GetReceiptNoTimestamp == <<Look("Transaction", Return, 0)>> \o getReceiptFromRpc
GetReceipt == Inline(GetReceiptNoTimestamp) \o GetBlockTimestamp

\* The timestamp is a parameter: its callers have it from GetBlockTimestamp
GetReceiptsByNumber == <<Look("ReceiptGroup", Return, 0), Ask("ReceiptGroup"), Save("ReceiptGroup")>>
StampedReceipts == GetBlockTimestamp \o GetReceiptsByNumber

GetTransactionByNumberAndId ==
  <<Look("Transaction", Return, 0), Ask("Transaction")>> \o GetBlockTimestamp
  \o Inline(GetReceiptNoTimestamp) \o <<Save("Transaction")>>

\* GetBlockBodyByNumber: the transactions of a cached block come from the cache
\* too; when one cannot be had, or the block is not cached, all is asked again.
FromCachedBlock ==
  LET txs == GetTransactionByNumberAndId IN
  <<Look("LightBlock", 0, Len(txs) + 1)>> \o Attempt(txs, 1) \o <<ReturnBlock>>
GetBlockBodyByNumber ==
  FromCachedBlock \o <<Ask("Block")>>
  \o Attempt(GetReceiptsByNumber, 0)
  \o <<SaveElse("Transaction", 0), Save("Block")>>

GetTracesByBlockNumber ==
  <<Look("TraceGroup", Return, 0)>> \o GetBlockTimestamp \o <<Ask("TraceGroup"), Save("TraceGroup")>>
GetTracesByTransactionHash == <<Look("TraceGroup", Return, 0), Ask("TraceGroup"), Save("TraceGroup")>>
GetTracesByTransactionId ==
  <<Look("TraceGroup", Return, 0)>> \o Inline(GetTransactionByNumberAndId) \o GetTracesByTransactionHash

\* GetTransactionByAppearance, for an ordinary transaction and for a reward,
\* whose transaction is made from the body of the block.
GetTransactionByAppearance ==
  <<Look("Transaction", Return, 0)>> \o GetBlockTimestamp
  \o Inline(GetReceiptNoTimestamp) \o <<Ask("Transaction"), Save("Transaction")>>
RewardByAppearance ==
  <<Look("Transaction", Return, 0)>> \o GetBlockTimestamp \o <<Ask("Block"), Save("Transaction")>>

\* The logs of a block, each of which is given the time of its block
GetLogsByNumber ==
  GetBlockTimestamp \o <<Look("LogGroup", Return, 0), Ask("LogGroup")>> \o GetBlockTimestamp \o <<Save("LogGroup")>>

GetWithdrawalsByNumber ==
  <<Look("WithdrawalGroup", Return, 0)>> \o Inline(GetBlockHeaderByNumber) \o <<Save("WithdrawalGroup")>>
GetMinerAndWithdrawals == Inline(GetBlockHeaderByNumber) \o GetWithdrawalsByNumber

GetState == <<LookParts("State")>> \o GetBlockTimestamp \o <<Ask("State"), Save("State")>>
getBalanceAt == <<Look("State", Return, 0), Ask("State")>> \o GetBlockTimestamp \o <<SaveElse("State", 0)>>
GetBalanceAtToken == <<Look("Token", Return, 0), Ask("Token")>> \o GetBlockTimestamp \o <<SaveElse("Token", 0)>>
GetAllowanceAtToken == <<Look("Approval", Return, 0), Ask("Approval")>> \o GetBlockTimestamp \o <<SaveElse("Approval", 0)>>
Call == <<Look("Result", Return, 0)>> \o GetBlockTimestamp \o <<Ask("Result"), Save("Result")>>

\* Reconciler: statementsFromCache, the reconciliation, statementsToCache
Statements == GetBlockTimestamp \o <<Look("StatementGroup", Return, 0), Ask("StatementGroup"), Save("StatementGroup")>>

\* ReadFromCache and WriteToCache of a connection, for the cached types no getter uses
ThroughCache(t) == GetBlockTimestamp \o <<Look(t, Return, 0), Ask(t), Save(t)>>

-----------------------------------------------------------------------------
LocationsFromBlocks ==
  Inline(GetBlockHeaderByNumber)
  \o <<Forget("LightBlock"), Forget("ReceiptGroup"), Forget("Transaction"), Forget("TraceGroup")>>
LocationsFromTransactions == <<Forget("Transaction"), Forget("TraceGroup")>>
LocationsFromTraces == <<Forget("TraceGroup")>>
LocationsFromLogs == <<Forget("LogGroup")>>
LocationsFromState == <<Forget("State")>>
LocationsFromTokens == <<Forget("Token"), Forget("Approval")>>
LocationsFromAddressAndEncodings == <<Forget("Result")>>
LocationsFromAddressAndAppearances == <<Forget("Transaction"), Forget("LightBlock")>>
=============================================================================
