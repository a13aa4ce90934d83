------------------------------ MODULE MCStore ------------------------------
(* Requests of one and of two threads over the getters that share a file,   *)
(* with the formats of Codec for what the files hold.                       *)
EXTENDS Getters, Codec

Asking(prog, parts) == [prog |-> prog, parts |-> parts, filter |-> TRUE, enabled |-> TRUE]
Get(prog) == Asking(prog, {"balance"})
Together(r, s) == [x \in {"t1", "t2"} |-> IF x = "t1" THEN r ELSE s]
Alone(prog) == Together(Get(prog), Get(<<>>))
Both(p, q) == Together(Get(p), Get(q))

MCMixes ==
  {Alone(GetTransactionByNumberAndId), Alone(GetTransactionByAppearance), Alone(RewardByAppearance),
   Alone(GetBlockBodyByNumber), Alone(GetReceipt), Alone(StampedReceipts), Alone(GetTracesByTransactionId),
   Alone(GetLogsByNumber), Alone(GetMinerAndWithdrawals), Alone(Statements), Alone(LocationsFromBlocks),
   Alone(ThroughCache("Abi")), Alone(ThroughCache("SlurpGroup")), Alone(ThroughCache("Monitor")),
   Alone(GetAllowanceAtToken), Alone(Call), Alone(LocationsFromAddressAndAppearances),
   Alone(LocationsFromTransactions), Alone(LocationsFromLogs), Alone(LocationsFromTokens),
   Alone(LocationsFromAddressAndEncodings), Alone(GetBlockHashByNumber), Alone(GetBlockNumberByHash),
   Both(GetBlockHeaderByNumber, GetBlockHeaderByNumber), Both(GetBlockHashByHash, GetBlockHeaderByNumber),
   Both(GetBlockHashByHash, LocationsFromBlocks), Both(GetTracesByBlockNumber, LocationsFromTraces),
   Alone(GetWithdrawalsByNumber), Alone(GetBalanceAtToken),
   Both(getBalanceAt, LocationsFromState),
   Together(Asking(GetState, {"nonce"}), Asking(GetState, {"balance"}))}

MCShapes == {[len |-> 0, opt |-> FALSE], [len |-> 2, opt |-> TRUE]}
TornShapes == {[len |-> 1, opt |-> TRUE]}
MCVersions == {Uint64(2, 5, 8), Uint64(2, 5, 9), Uint64(2, 5, 10), Uint64(3, 1, 2), CurrentVersion}

MCOld == Types \ {"Function", "Parameter", "TraceAction", "TraceResult", "TokenType"}

\* The reads the getters make, with the outcomes a file should not have
ReadAs == {<<t, t>> : t \in MCOld \ {"Block"}} \cup {<<"LightBlock", "Block">>}
Wrong(as, t, v, st, outcomes, right) ==
  {[as |-> as, t |-> t, v |-> v, st |-> st, got |-> o] : o \in outcomes \ {right}}
MCMisreads ==
  UNION {Wrong(p[1], p[2], v, "whole", DecodeWhole(p[1], p[2], MCShapes, v), "whole") : p \in ReadAs, v \in MCVersions}
  \cup UNION {Wrong(p[1], p[2], CurrentVersion, "torn", DecodeTorn(p[1], p[2], TornShapes, CurrentVersion), "failed") : p \in ReadAs}

MCParts == {"balance", "nonce"}
MCThreads == {"t1", "t2"}
=============================================================================
