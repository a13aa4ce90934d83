------------------------------ MODULE MCRender ------------------------------
(***************************************************************************)
(* Every type of pkg/types, with the facts about its records that change   *)
(* what it shows (taken one at a time, all but one, all and none) and the  *)
(* options its commands pass.  The rows are compared in runs of one        *)
(* command with two rows; the writer, which does not look at the type, in  *)
(* command files of three lines of one type, to every kind of output.      *)
(***************************************************************************)
EXTENDS Render

AllKinds ==
  {"Abi", "Appearance", "AppearanceTable", "Approval", "Block", "BlockCount", "Bounds",
   "CacheItem", "Chain", "ChunkAddress", "ChunkBloom", "ChunkIndex", "ChunkPin",
   "ChunkRecord", "ChunkStats", "Config", "Contract", "Count", "Destination", "Function",
   "IpfsPin", "LightBlock", "Log", "Manifest", "Message", "MetaData", "Monitor",
   "MonitorClean", "Name", "NamedBlock", "Parameter", "RangeDates", "Receipt",
   "ReportCheck", "Result", "Slurp", "State", "Statement", "Status", "Timestamp", "Token",
   "Trace", "TraceAction", "TraceCount", "TraceFilter", "TraceResult", "Transaction",
   "Transfer", "Withdrawal"}

\* The facts the methods of a type ask of a record
Facts ==
  [k \in AllKinds |->
     CASE k = "Abi" -> {"Address", "HasConstructor", "HasFallback", "IsEmpty", "IsKnown", "named"}
       [] k = "Appearance" -> {"Timestamp", "TraceIndex", "named"}
       [] k = "Approval" -> {"named"}
       [] k = "Block" -> {"Uncles", "Withdrawals", "named"}
       [] k = "BlockCount" -> {"AddressCnt", "LogsCnt", "TracesCnt", "UnclesCnt", "WithdrawalsCnt"}
       [] k = "ChunkAddress" -> {"RangeDates", "named"}
       [] k = "ChunkBloom" -> {"RangeDates"}
       [] k = "ChunkIndex" -> {"RangeDates"}
       [] k = "ChunkRecord" -> {"RangeDates"}
       [] k = "ChunkStats" -> {"RangeDates"}
       [] k = "Contract" -> {"Abi", "ReadResults", "named"}
       [] k = "Function" -> {"Inputs", "Outputs", "function"}
       [] k = "LightBlock" -> {"Shanghai", "named"}
       [] k = "Log" -> {"ArticulatedLog", "Data", "IsNFT", "named"}
       [] k = "Message" -> {"Msg", "Num"}
       [] k = "Monitor" -> {"named"}
       [] k = "MonitorClean" -> {"named"}
       [] k = "Name" -> {"Address", "Decimals", "Deleted", "IsContract", "IsCustom", "IsErc20",
                      "IsErc721", "IsPrefund", "Parts", "Source", "Symbol"}
       [] k = "NamedBlock" -> {"Component", "Description", "NBlocks", "Name"}
       [] k = "Parameter" -> {"Components", "Indexed", "InternalType"}
       [] k = "Receipt" -> {"ContractAddress", "From", "IsError", "Logs", "To", "named"}
       [] k = "ReportCheck" -> {"FailedCnt", "MsgStrings", "SkippedCnt"}
       [] k = "Result" -> {"ArticulatedOut", "named"}
       [] k = "Slurp" -> {"ArticulatedTx", "BlockHash", "HasToken", "Input", "IsError", "deprecated",
                       "named", "reward", "withdrawal"}
       [] k = "State" -> {"Timestamp", "named"}
       [] k = "Statement" -> {"named"}
       [] k = "Status" -> {"Caches", "CachesFound"}
       [] k = "Token" -> {"named"}
       [] k = "Trace" -> {"Action", "ArticulatedTrace", "Error", "RefundAddress", "Result",
                       "TraceAddress", "TraceType", "named"}
       [] k = "TraceAction" -> {"Address", "Author", "CallType", "From", "Gas", "Init", "Input",
                             "RefundAddress", "RewardType", "SelfDestructed", "To", "named"}
       [] k = "TraceFilter" -> {"named"}
       [] k = "TraceResult" -> {"Address", "Code", "GasUsed", "Output", "named"}
       [] k = "Transaction" -> {"ArticulatedTx", "HasToken", "Input", "IsError", "MaxFeePerGas",
                             "MaxPriorityFeePerGas", "Message", "Nonce", "Statements",
                             "TransactionType", "named"}
       [] k = "Transfer" -> {"named"}
       [] k = "Withdrawal" -> {"named"}
       [] OTHER -> {}]

\* The extra options that the methods of a type look at
Options ==
  [k \in AllKinds |->
     CASE k = "Abi" -> {"list", "names"}
       [] k = "Appearance" -> {"appearances", "export", "names", "uniq"}
       [] k = "Approval" -> {"names"}
       [] k = "Block" -> {"names"}
       [] k = "BlockCount" -> {"logs", "traces", "uncles", "uniqs"}
       [] k = "ChunkAddress" -> {"names"}
       [] k = "Contract" -> {"names"}
       [] k = "Function" -> {"encodingSignatureOnly"}
       [] k = "LightBlock" -> {"names"}
       [] k = "Log" -> {"articulate", "names"}
       [] k = "Monitor" -> {"list", "names"}
       [] k = "MonitorClean" -> {"names", "staged"}
       [] k = "Name" -> {"expand", "prefund"}
       [] k = "Receipt" -> {"names"}
       [] k = "Result" -> {"articulate", "names"}
       [] k = "Slurp" -> {"articulate", "names"}
       [] k = "State" -> {"ether", "names"}
       [] k = "Statement" -> {"ether", "names"}
       [] k = "Status" -> {"caches", "chains"}
       [] k = "Token" -> {"names"}
       [] k = "Trace" -> {"articulate", "names"}
       [] k = "TraceAction" -> {"ether", "names", "traces"}
       [] k = "TraceFilter" -> {"names"}
       [] k = "TraceResult" -> {"names", "traces"}
       [] k = "Transaction" -> {"articulate", "names", "traces"}
       [] k = "Transfer" -> {"ether", "names"}
       [] k = "Withdrawal" -> {"ether", "names"}
       [] OTHER -> {}]

\* A reward is no withdrawal, a deprecated input is not empty, an address to refund is an action's
Possible(k, s) ==
  /\ k = "Slurp" => {"reward", "withdrawal"} \cap s # {"reward", "withdrawal"}
  /\ k = "Slurp" /\ "deprecated" \in s => "Input" \in s
  /\ k = "Trace" /\ "RefundAddress" \in s => "Action" \in s

FewOrMost(S) == {s \in SUBSET S : Cardinality(s) <= 1 \/ Cardinality(S \ s) <= 1}
SomeRecords == [k \in AllKinds |-> {s \in FewOrMost(Facts[k]) : Possible(k, s)}]

\* --parts of tokens and state as validation lets them through, single of names
FieldLists(k) ==
  CASE k = "Token" -> {<<"all">>, <<"all_held">>, <<"name", "symbol">>, <<"some">>, <<"version">>,
                       <<"blockNumber", "date", "address", "holder", "balance", "diff", "balanceDec">>}
    [] k = "State" -> {<<"balance">>, <<"balance", "nonce", "code", "accttype">>,
                       <<"proxy", "balance", "nonce", "code", "deployed", "accttype">>, <<>>}
    [] k = "Name" -> {<<>>, <<"tags">>, <<"address">>, <<"asset">>}
    [] OTHER -> {<<>>}
SomeAsked == [k \in AllKinds |-> [opts : SUBSET Options[k], fields : FieldLists(k)]]

\* The type whose invocations have several commands and go to every kind of output
SessionKind == "Count"
SomeLines == [k \in AllKinds |-> IF k = SessionKind THEN 3 ELSE 1]
SomeSinks == [k \in AllKinds |-> IF k = SessionKind THEN {"stdout", "file", "append", "api"} ELSE {"stdout"}]
=============================================================================
