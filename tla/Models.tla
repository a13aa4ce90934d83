------------------------------- MODULE Models -------------------------------
(***************************************************************************)
(* What each type of pkg/types shows of itself.  Every type has three      *)
(* methods: RawMap (the fields it holds), CalcMap (the fields it derives)  *)
(* and Model (both together, and the order of the columns).  The fields    *)
(* are named and their values left out: a record is the set s of facts     *)
(* about it that the methods ask for (a field is present, not zero, a list *)
(* is not empty), p is the ModelProps they are given: the format (JSON or  *)
(* one of the texts), verbose, the set opts of extra options that are on   *)
(* ("names": the names are loaded) and the list of fields that is asked    *)
(* for (parts of a token, outFields of a state, single of a name).         *)
(***************************************************************************)
EXTENDS Sequences, SequencesExt

\* `if c { model[..] = .. }` and `if c { order = append(order, ..) }`
When(c, set) == IF c THEN set ELSE {}
Also(c, seq) == IF c THEN seq ELSE <<>>

\* `for part in wanted { switch part { case .. } }`
Only(set, wanted) == set \cap ToSet(wanted)

\* labelAddresses: a labelled field f gets a field fName, when the address has a name or, in a
\* text, whether it has one or not
labelAddresses(p, s, needed) ==
  IF "names" \in p.opts /\ ("named" \in s \/ ~p.json)
  THEN [i \in DOMAIN needed |-> needed[i] \o "Name"] ELSE <<>>

\* reorderFields: every field that ends in Name goes behind the field it is the name of, and is
\* dropped when there is no such field
NameFields == {"addressName", "minerName", "ownerName", "spenderName", "tokenName", "holderName",
               "fromName", "toName", "contractAddressName", "proxyName", "accountedForName", "assetName",
               "recipientName", "senderName", "action::fromName", "action::toName", "authorName",
               "refundAddressName", "selfDestructedName", "fromAddressName", "toAddressName", "fileName"}
reorderFields(fields) ==
  LET normal == SelectSeq(fields, LAMBDA f : f \notin NameFields)
  IN FlattenSeq([i \in DOMAIN normal |->
                   <<normal[i]>> \o Also(normal[i] \o "Name" \in ToSet(fields), <<normal[i] \o "Name">>)])

\* The dates of a chunk's range, the same in the five types that show one
RangeDates_fields(p, s) ==
  IF p.json THEN When(p.verbose /\ "RangeDates" \in s, {"rangeDates"})
            ELSE When(p.verbose, {"firstTs", "firstDate", "lastTs", "lastDate"})
RangeDates_columns(p, s) ==
  IF p.json THEN Also(p.verbose /\ "RangeDates" \in s, <<"rangeDates">>)
            ELSE Also(p.verbose, <<"firstTs", "firstDate", "lastTs", "lastDate">>)

\* The end of every Model method: the names join the data, and the order when they are in the data
Labelled(p, s, needed, data, order) ==
  LET names == labelAddresses(p, s, needed)
  IN [data |-> data \cup ToSet(names), order |-> reorderFields(order \o names)]

\* A Model method that returns early, or that neither labels nor reorders
Plain(data, order) == [data |-> data, order |-> order]

Abi_RawMap(p, s) ==
  IF "list" \notin p.opts
  THEN {"0xAddress"}
  ELSE ({"name", "lastModDate", "fileSize", "isKnown"}
          \cup When(~p.json \/ "Address" \in s, {"address"})
          \cup When(p.verbose,
                 {"nFunctions", "nEvents", "path"}
                   \cup When(~p.json \/ "IsEmpty" \in s, {"isEmpty"})
                   \cup When(~p.json \/ "HasConstructor" \in s, {"hasConstructor"})
                   \cup When(~p.json \/ "HasFallback" \in s, {"hasFallback"})))
Abi_CalcMap(p, s) ==
  When("list" \in p.opts /\ "IsKnown" \notin s /\ "names" \in p.opts, {"name"})
Abi_Model(p, s) ==
  Labelled(p, s, <<"address">>, Abi_RawMap(p, s) \cup Abi_CalcMap(p, s),
    IF "list" \in p.opts
    THEN <<"address", "name", "lastModDate", "fileSize", "isKnown">>
           \o Also(p.verbose,
                Also(~p.json, <<"isEmpty">>)
                  \o <<"nFunctions", "nEvents">>
                  \o Also(~p.json, <<"hasConstructor", "hasFallback">>)
                  \o <<"path">>)
    ELSE <<"0xAddress">>)

Appearance_RawMap(p, s) ==
  IF "appearances" \in p.opts
  THEN {"blockNumber", "transactionIndex"}
  ELSE {"address", "blockNumber", "transactionIndex"}
         \cup (IF "uniq" \in p.opts
               THEN When(~p.json \/ "TraceIndex" \in s, {"traceIndex"})
                      \cup {"reason"}
                      \cup When(p.verbose, {"timestamp"})
               ELSE (IF "export" \in p.opts /\ p.json
                     THEN When(p.verbose /\ "Timestamp" \in s, {"timestamp"})
                     ELSE When(p.verbose,
                            When(~p.json \/ "TraceIndex" \in s, {"traceIndex"})
                              \cup {"reason", "timestamp"})))
Appearance_CalcMap(p, s) == IF "appearances" \in p.opts THEN {} ELSE When(p.verbose, {"date"})
Appearance_Model(p, s) ==
  Labelled(p, s, Also("appearances" \notin p.opts, <<"address">>),
    Appearance_RawMap(p, s) \cup Appearance_CalcMap(p, s),
    IF "appearances" \in p.opts
    THEN <<"blockNumber", "transactionIndex">>
    ELSE <<"address", "blockNumber", "transactionIndex">>
           \o (IF "uniq" \in p.opts
               THEN <<"traceIndex", "reason">> \o Also(p.verbose, <<"timestamp", "date">>)
               ELSE Also(~("export" \in p.opts /\ p.json) /\ p.verbose,
                      <<"traceIndex", "reason", "timestamp", "date">>)))

AppearanceTable_RawMap(p, s) == {"address", "offset", "count", "appearances"}
AppearanceTable_CalcMap(p, s) == {}
AppearanceTable_Model(p, s) ==
  Labelled(p, s, <<>>, AppearanceTable_RawMap(p, s) \cup AppearanceTable_CalcMap(p, s),
    <<"address", "offset", "count", "appearances">>)

Approval_RawMap(p, s) ==
  {"blockNumber", "timestamp", "owner", "spender", "token", "allowance", "lastAppBlock",
   "lastAppLogID", "lastAppTxID", "lastAppTs"}
Approval_CalcMap(p, s) == {"date", "lastAppDate"}
Approval_Model(p, s) ==
  Labelled(p, s, <<"owner", "spender", "token">>,
    Approval_RawMap(p, s) \cup Approval_CalcMap(p, s),
    <<"blockNumber", "timestamp", "date", "owner", "spender", "token", "allowance",
      "lastAppBlock", "lastAppLogID", "lastAppTxID", "lastAppTs", "lastAppDate">>)

Block_RawMap(p, s) ==
  {"gasUsed", "gasLimit", "hash", "blockNumber", "parentHash", "miner", "difficulty",
   "timestamp", "baseFeePerGas"}
    \cup (IF p.json
          THEN {"transactions", "uncles", "withdrawals"}
          ELSE {"transactionsCnt", "withdrawalsCnt"})
Block_CalcMap(p, s) == {"date"}
Block_Model(p, s) ==
  Labelled(p, s, <<"miner">>, Block_RawMap(p, s) \cup Block_CalcMap(p, s),
    <<"blockNumber", "timestamp", "date", "hash", "parentHash", "miner", "difficulty",
      "baseFeePerGas", "gasLimit", "gasUsed">>
      \o (IF p.json
          THEN <<"transactions", "uncles">> \o Also("Withdrawals" \in s, <<"withdrawals">>)
          ELSE <<"transactionsCnt", "withdrawalsCnt">>))

BlockCount_RawMap(p, s) ==
  {"blockNumber", "transactionsCnt"}
    \cup When(p.verbose, {"timestamp"})
    \cup (IF p.json
          THEN When("uncles" \in p.opts /\ "UnclesCnt" \in s, {"unclesCnt"})
                 \cup When("logs" \in p.opts /\ "LogsCnt" \in s, {"logsCnt"})
                 \cup When("traces" \in p.opts /\ "TracesCnt" \in s, {"tracesCnt"})
                 \cup When("uniqs" \in p.opts /\ "AddressCnt" \in s, {"addressCnt"})
                 \cup When("WithdrawalsCnt" \in s, {"withdrawalsCnt"})
          ELSE When("uncles" \in p.opts, {"unclesCnt"})
                 \cup When("logs" \in p.opts, {"logsCnt"})
                 \cup When("traces" \in p.opts, {"tracesCnt"})
                 \cup When("uniqs" \in p.opts, {"addressCnt"})
                 \cup {"withdrawalsCnt"})
BlockCount_CalcMap(p, s) == When(p.verbose, {"date"})
BlockCount_Model(p, s) ==
  Labelled(p, s, <<>>, BlockCount_RawMap(p, s) \cup BlockCount_CalcMap(p, s),
    <<"blockNumber", "transactionsCnt">>
      \o Also(p.verbose, <<"timestamp", "date">>)
      \o Also(~p.json,
           Also("uncles" \in p.opts, <<"unclesCnt">>)
             \o Also("logs" \in p.opts, <<"logsCnt">>)
             \o Also("traces" \in p.opts, <<"tracesCnt">>)
             \o Also("uniqs" \in p.opts, <<"addressCnt">>)
             \o <<"withdrawalsCnt">>))

Bounds_RawMap(p, s) == {"address", "count", "firstTs", "latestTs", "firstApp", "latestApp"}
Bounds_CalcMap(p, s) == {"firstDate", "latestDate", "blockSpan", "blockFreq"}
Bounds_Model(p, s) ==
  Labelled(p, s, <<>>, Bounds_RawMap(p, s) \cup Bounds_CalcMap(p, s),
    <<"address", "count", "firstApp", "firstTs", "firstDate", "latestApp", "latestTs",
      "latestDate", "blockSpan", "blockFreq">>)

CacheItem_RawMap(p, s) == {"type", "path", "nFiles", "nFolders", "sizeInBytes", "lastCached"}
CacheItem_CalcMap(p, s) == {}
CacheItem_Model(p, s) ==
  Labelled(p, s, <<>>, CacheItem_RawMap(p, s) \cup CacheItem_CalcMap(p, s),
    <<"type", "path", "nFiles", "nFolders", "sizeInBytes", "lastCached">>)

Chain_RawMap(p, s) ==
  {"chain", "chainId", "ipfsGateway", "localExplorer", "remoteExplorer", "rpcProvider",
   "symbol"}
Chain_CalcMap(p, s) == {}
Chain_Model(p, s) ==
  Labelled(p, s, <<>>, Chain_RawMap(p, s) \cup Chain_CalcMap(p, s),
    <<"chain", "chainId", "ipfsGateway", "localExplorer", "remoteExplorer", "rpcProvider",
      "symbol">>)

ChunkAddress_RawMap(p, s) == {"address", "range", "offset", "count"}
ChunkAddress_CalcMap(p, s) == RangeDates_fields(p, s)
ChunkAddress_Model(p, s) ==
  Labelled(p, s, <<"address">>, ChunkAddress_RawMap(p, s) \cup ChunkAddress_CalcMap(p, s),
    <<"address", "range", "offset", "count">> \o RangeDates_columns(p, s))

ChunkBloom_RawMap(p, s) ==
  {"range", "magic", "nBlooms", "fileSize", "byteWidth"} \cup When(p.verbose, {"nInserted"})
ChunkBloom_CalcMap(p, s) ==
  {"hash"} \cup When(p.json, {"hashValue"}) \cup RangeDates_fields(p, s)
ChunkBloom_Model(p, s) ==
  Labelled(p, s, <<>>, ChunkBloom_RawMap(p, s) \cup ChunkBloom_CalcMap(p, s),
    <<"range", "magic", "hash", "nBlooms", "fileSize", "byteWidth">>
      \o Also(p.verbose, <<"nInserted">>)
      \o Also(p.json, <<"hashValue">>)
      \o RangeDates_columns(p, s))

ChunkIndex_RawMap(p, s) == {"range", "magic", "nAddresses", "nAppearances", "fileSize"}
ChunkIndex_CalcMap(p, s) ==
  {"hash"} \cup When(p.json, {"hashValue"}) \cup RangeDates_fields(p, s)
ChunkIndex_Model(p, s) ==
  Labelled(p, s, <<>>, ChunkIndex_RawMap(p, s) \cup ChunkIndex_CalcMap(p, s),
    <<"range", "magic", "hash", "nAddresses", "nAppearances", "fileSize">>
      \o Also(p.json, <<"hashValue">>)
      \o RangeDates_columns(p, s))

ChunkPin_RawMap(p, s) == {"chain", "version", "manifestHash", "timestampHash", "specHash"}
ChunkPin_CalcMap(p, s) == {}
ChunkPin_Model(p, s) ==
  Labelled(p, s, <<>>, ChunkPin_RawMap(p, s) \cup ChunkPin_CalcMap(p, s),
    <<"chain", "version", "manifestHash", "timestampHash", "specHash">>)

ChunkRecord_RawMap(p, s) == {"range", "bloomHash", "bloomSize", "indexHash", "indexSize"}
ChunkRecord_CalcMap(p, s) == RangeDates_fields(p, s)
ChunkRecord_Model(p, s) ==
  Labelled(p, s, <<>>, ChunkRecord_RawMap(p, s) \cup ChunkRecord_CalcMap(p, s),
    <<"range", "bloomHash", "bloomSize", "indexHash", "indexSize">> \o RangeDates_columns(p, s))

ChunkStats_RawMap(p, s) ==
  {"addrsPerBlock", "appsPerAddr", "appsPerBlock", "bloomSz", "chunkSz", "range", "nAddrs",
   "nApps", "nBlocks", "nBlooms", "ratio", "recWid"}
ChunkStats_CalcMap(p, s) ==
  (IF p.verbose /\ p.json
   THEN When("RangeDates" \in s, {"rangeDates"})
   ELSE When(p.verbose /\ "RangeDates" \in s, {"firstTs", "firstDate", "lastTs", "lastDate"}))
ChunkStats_Model(p, s) ==
  Labelled(p, s, <<>>, ChunkStats_RawMap(p, s) \cup ChunkStats_CalcMap(p, s),
    <<"range", "nAddrs", "nApps", "nBlocks", "nBlooms", "recWid", "bloomSz", "chunkSz",
      "addrsPerBlock", "appsPerBlock", "appsPerAddr", "ratio">>
      \o RangeDates_columns(p, s))

Config_RawMap(p, s) == {"version", "settings", "keys", "pinning", "unchained", "chains"}
Config_CalcMap(p, s) == {}
Config_Model(p, s) ==
  Plain(Config_RawMap(p, s) \cup Config_CalcMap(p, s),
    <<"version", "settings", "keys", "pinning", "unchained", "chains">>)

Contract_RawMap(p, s) ==
  {"address", "name", "lastUpdated", "errorCount", "lastError"}
    \cup When(p.verbose,
           When("Abi" \in s, {"abi"}) \cup When("ReadResults" \in s, {"readResults"}))
Contract_CalcMap(p, s) == When(p.verbose, {"date"})
Contract_Model(p, s) ==
  Labelled(p, s, <<"address">>, Contract_RawMap(p, s) \cup Contract_CalcMap(p, s),
    <<"address", "name", "lastUpdated", "errorCount", "lastError">>
      \o Also(p.verbose,
           Also("Abi" \in s, <<"abi">>)
             \o Also("ReadResults" \in s, <<"readResults">>)
             \o <<"date">>))

Count_RawMap(p, s) == {"count"}
Count_CalcMap(p, s) == {}
Count_Model(p, s) ==
  Labelled(p, s, <<>>, Count_RawMap(p, s) \cup Count_CalcMap(p, s), <<"count">>)

Destination_RawMap(p, s) == {"term", "termType", "url", "source"}
Destination_CalcMap(p, s) == {}
Destination_Model(p, s) ==
  Labelled(p, s, <<>>, Destination_RawMap(p, s) \cup Destination_CalcMap(p, s),
    <<"term", "termType", "url", "source">>)

Function_RawMap(p, s) ==
  {"encoding", "name", "signature", "type"}
    \cup When(p.json /\ "function" \in s, {"stateMutability"})
Function_CalcMap(p, s) == When(p.json /\ p.verbose, {"inputs", "outputs"})
Function_Model(p, s) ==
  IF "encodingSignatureOnly" \in p.opts
  THEN Plain({"encoding", "signature"}, <<"encoding", "signature">>)
  ELSE Labelled(p, s, <<>>, Function_RawMap(p, s) \cup Function_CalcMap(p, s),
         <<"encoding", "type", "name", "signature">>
           \o Also(p.json /\ p.verbose,
                Also("Inputs" \in s, <<"inputs">>) \o Also("Outputs" \in s, <<"outputs">>))
           \o Also(p.json /\ "function" \in s, <<"stateMutability">>))

IpfsPin_RawMap(p, s) == {"fileName", "cid", "status", "size"}
IpfsPin_CalcMap(p, s) == {"datePinned"}
IpfsPin_Model(p, s) ==
  Labelled(p, s, <<>>, IpfsPin_RawMap(p, s) \cup IpfsPin_CalcMap(p, s),
    <<"fileName", "cid", "datePinned", "status", "size">>)

LightBlock_RawMap(p, s) ==
  {"hash", "blockNumber", "parentHash", "timestamp", "miner"}
    \cup (IF p.json
          THEN {"tx_hashes"} \cup When("Shanghai" \in s, {"withdrawals"})
          ELSE {"transactionsCnt"} \cup When("Shanghai" \in s, {"withdrawalsCnt"}))
LightBlock_CalcMap(p, s) == {"date"}
LightBlock_Model(p, s) ==
  Labelled(p, s, <<"miner">>, LightBlock_RawMap(p, s) \cup LightBlock_CalcMap(p, s),
    <<"hash", "blockNumber", "parentHash", "timestamp", "date">>
      \o (IF p.json
          THEN <<"tx_hashes">> \o Also("Shanghai" \in s, <<"withdrawals">>)
          ELSE <<"transactionsCnt">> \o Also("Shanghai" \in s, <<"withdrawalsCnt">>)))

Log_RawMap(p, s) ==
  {"address", "blockHash", "blockNumber", "logIndex", "timestamp", "transactionIndex",
   "transactionHash"}
Log_CalcMap(p, s) ==
  {"date"}
    \cup (IF p.json
          THEN When("IsNFT" \in s, {"isNFT"})
                 \cup When("Data" \in s, {"data"})
                 \cup When("articulate" \in p.opts /\ "ArticulatedLog" \in s,
                        {"articulatedLog"})
                 \cup {"topics"}
          ELSE {"isNFT", "data"}
                 \cup When("articulate" \in p.opts /\ "ArticulatedLog" \in s, {"compressedLog"})
                 \cup {"topic0", "topic1", "topic2", "topic3"})
Log_Model(p, s) ==
  Labelled(p, s, <<"address">>, Log_RawMap(p, s) \cup Log_CalcMap(p, s),
    <<"blockNumber", "transactionIndex", "logIndex", "blockHash", "transactionHash",
      "timestamp", "date", "address", "topic0", "topic1", "topic2", "topic3", "data", "isNFT">>
      \o Also("articulate" \in p.opts /\ "ArticulatedLog" \in s /\ ~p.json, <<"compressedLog">>))

Manifest_RawMap(p, s) == {"version", "chain", "specification", "chunks"}
Manifest_CalcMap(p, s) == {}
Manifest_Model(p, s) ==
  Labelled(p, s, <<>>, Manifest_RawMap(p, s) \cup Manifest_CalcMap(p, s),
    <<"version", "chain", "specification", "chunks">>)

Message_RawMap(p, s) == When("Msg" \in s, {"msg"}) \cup When("Num" \in s, {"num"})
Message_CalcMap(p, s) == {}
Message_Model(p, s) ==
  Labelled(p, s, <<>>, Message_RawMap(p, s) \cup Message_CalcMap(p, s),
    Also("Msg" \in s, <<"msg">>) \o Also("Num" \in s, <<"num">>))

MetaData_RawMap(p, s) ==
  {"client", "finalized", "staging", "ripe", "unripe", "chainId", "networkId", "chain"}
MetaData_CalcMap(p, s) == {"indexHeight", "nextIndexHeight", "chainHeight", "stageHeight"}
MetaData_Model(p, s) ==
  Plain(MetaData_RawMap(p, s) \cup MetaData_CalcMap(p, s),
    <<"client", "finalized", "staging", "ripe", "unripe", "chainId", "networkId", "chain",
      "indexHeight", "nextIndexHeight", "chainHeight", "stageHeight">>)

Monitor_RawMap(p, s) == {"address", "nRecords", "fileSize"}
Monitor_CalcMap(p, s) ==
  When("list" \in p.opts, {"isEmpty", "isStaged"})
    \cup When(p.verbose,
           {"lastScanned", "deleted"} \cup When("testMode" \in p.opts, {"lastScanned"}))
Monitor_Model(p, s) ==
  Labelled(p, s, <<"address">>, Monitor_RawMap(p, s) \cup Monitor_CalcMap(p, s),
    <<"address", "nRecords", "fileSize">>
      \o Also("list" \in p.opts, <<"isEmpty", "isStaged">>)
      \o Also(p.verbose, <<"lastScanned", "deleted">>))

MonitorClean_RawMap(p, s) == {"address", "sizeNow", "sizeThen", "dups"}
MonitorClean_CalcMap(p, s) == When("staged" \in p.opts, {"staged", "removed"})
MonitorClean_Model(p, s) ==
  Labelled(p, s, <<"address">>, MonitorClean_RawMap(p, s) \cup MonitorClean_CalcMap(p, s),
    <<"address", "sizeNow", "sizeThen", "dups">>
      \o Also("staged" \in p.opts, <<"staged", "removed">>))

Name_RawMap(p, s) == {"decimals", "name", "source", "symbol", "tags"}
Name_CalcMap(p, s) == {}
Name_Model(p, s) ==
  LET full == <<"tags">> \o Also("Address" \in s, <<"address">>) \o <<"name">>
                \o Also(~p.json \/ "Symbol" \in s, <<"symbol">>)
                \o Also("expand" \in p.opts \/ "prefund" \in p.opts, <<"source">>)
                \o Also(~p.json \/ "Decimals" \in s, <<"decimals">>)
                \o Also({"expand", "prefund"} \subseteq p.opts, <<"prefund">>)
      flags == <<"deleted", "isCustom", "isPrefund", "isContract", "isErc20", "isErc721">>
      fact == [deleted |-> "Deleted", isCustom |-> "IsCustom", isPrefund |-> "IsPrefund",
               isContract |-> "IsContract", isErc20 |-> "IsErc20", isErc721 |-> "IsErc721"]
      more == IF p.json
              THEN Also("Source" \in s, <<"source">>) \o SelectSeq(flags, LAMBDA f : fact[f] \in s)
                     \o Also(p.verbose /\ "Parts" \in s, <<"parts">>)
              ELSE Also("expand" \in p.opts, flags)
      order == full \o more
  IN CASE p.fields = <<"tags">>    -> Plain({"tags"}, <<"tags">>)
       [] p.fields = <<"address">> -> Plain({"address"}, <<"address">>)
       [] p.fields = <<"asset">>   -> Plain({"address", "symbol", "name", "decimals"},
                                            <<"address", "symbol", "name", "decimals">>)
       [] OTHER -> Labelled(p, s, <<>>, (Name_RawMap(p, s) \ {"source", "symbol", "decimals"})
                                          \cup Name_CalcMap(p, s) \cup ToSet(order), order)

NamedBlock_RawMap(p, s) == {"blockNumber", "timestamp"}
NamedBlock_CalcMap(p, s) ==
  {"date"}
    \cup When("NBlocks" \in s, {"nBlocks"})
    \cup (IF p.json
          THEN When("Name" \in s, {"name"})
                 \cup When(p.verbose,
                        When("Component" \in s, {"component"})
                          \cup When("Description" \in s, {"description"}))
          ELSE {"name"} \cup When(p.verbose, {"component", "description"}))
NamedBlock_Model(p, s) ==
  Labelled(p, s, <<>>, NamedBlock_RawMap(p, s) \cup NamedBlock_CalcMap(p, s),
    <<"blockNumber", "timestamp", "date", "name">>
      \o Also("NBlocks" \in s, <<"nBlocks">>)
      \o Also(p.verbose, <<"component", "description">>))

Parameter_RawMap(p, s) == {"name", "type"}
Parameter_CalcMap(p, s) ==
  When(p.json,
    When("Indexed" \in s, {"indexed"})
      \cup When("InternalType" \in s, {"internalType"})
      \cup When("Components" \in s, {"components"}))
Parameter_Model(p, s) ==
  Labelled(p, s, <<>>, Parameter_RawMap(p, s) \cup Parameter_CalcMap(p, s),
    <<"type", "name">>
      \o Also(p.json,
           Also("Indexed" \in s, <<"indexed">>)
             \o Also("InternalType" \in s, <<"internalType">>)
             \o Also("Components" \in s, <<"components">>)))

RangeDates_RawMap(p, s) == {"firstDate", "firstTs", "lastDate", "lastTs"}
RangeDates_CalcMap(p, s) == {}
RangeDates_Model(p, s) ==
  Labelled(p, s, <<>>, RangeDates_RawMap(p, s) \cup RangeDates_CalcMap(p, s),
    <<"firstDate", "firstTs", "lastDate", "lastTs">>)

Receipt_RawMap(p, s) ==
  {"blockNumber", "gasUsed", "status", "transactionHash", "transactionIndex"}
Receipt_CalcMap(p, s) ==
  (IF p.json
   THEN When("ContractAddress" \in s, {"contractAddress"})
          \cup When("IsError" \in s, {"isError"})
          \cup {"logs"}
          \cup When(p.verbose, {"blockHash", "cumulativeGasUsed"})
          \cup When("From" \in s, {"from"})
          \cup When("To" \in s, {"to"})
   ELSE {"logsCnt", "isError"} \cup When(p.verbose, {"contractAddress"}))
Receipt_Model_Bug(p, s) == \* [mutant] no column for a contract that the receipt did not create
  Labelled(p, s, <<"contractAddress", "from", "to">>, Receipt_RawMap(p, s) \cup Receipt_CalcMap(p, s),
    <<"blockNumber", "transactionIndex", "transactionHash", "status", "gasUsed", "logsCnt", "isError">>
      \o Also(p.verbose /\ "ContractAddress" \in s, <<"contractAddress">>))
Receipt_Model(p, s) ==
  Labelled(p, s, <<"contractAddress", "from", "to">>,
    Receipt_RawMap(p, s) \cup Receipt_CalcMap(p, s),
    <<"blockNumber", "transactionIndex", "transactionHash", "status", "gasUsed">>
      \o (IF ~p.json
          THEN <<"logsCnt", "isError">> \o Also(p.verbose, <<"contractAddress">>)
          ELSE Also("IsError" \in s, <<"isError">>)
                 \o Also(p.verbose, <<"blockHash", "cumulativeGasUsed">>)))

ReportCheck_RawMap(p, s) ==
  {"result", "checkedCnt", "visitedCnt", "passedCnt", "reason"}
    \cup When(~p.json, {"skippedCnt", "failedCnt"})
ReportCheck_CalcMap(p, s) ==
  When(p.json,
    When("FailedCnt" \in s, {"failedCnt"})
      \cup When("SkippedCnt" \in s, {"skippedCnt"})
      \cup When("MsgStrings" \in s, {"msgStrings"}))
ReportCheck_Model(p, s) ==
  Labelled(p, s, <<>>, ReportCheck_RawMap(p, s) \cup ReportCheck_CalcMap(p, s),
    <<"result", "checkedCnt", "visitedCnt", "passedCnt">>
      \o Also(~p.json, <<"skippedCnt", "failedCnt", "reason">>))

Result_RawMap(p, s) ==
  {"blockNumber", "address", "encoding", "bytes"} \cup When(p.verbose, {"timestamp"})
Result_CalcMap(p, s) ==
  When(p.verbose, {"date"})
    \cup {"callResult"}
    \cup When("articulate" \in p.opts /\ "ArticulatedOut" \in s /\ p.json, {"callResult"})
    \cup When(~p.json, {"signature", "compressedResult"})
Result_Model(p, s) ==
  Labelled(p, s, <<"address">>, Result_RawMap(p, s) \cup Result_CalcMap(p, s),
    IF p.verbose
    THEN <<"blockNumber", "timestamp", "date", "address", "signature", "encoding", "bytes",
           "compressedResult">>
    ELSE <<"blockNumber", "address", "signature", "encoding", "bytes", "compressedResult">>)

Slurp_RawMap(p, s) ==
  {"blockNumber", "from", "timestamp", "to", "value", "transactionIndex"}
    \cup (IF "withdrawal" \in s
          THEN {"from", "withdrawalIndex", "validatorIndex"}
          ELSE (IF "reward" \notin s THEN {"gas", "gasPrice", "gasUsed", "hash"} ELSE {"from"}))
    \cup When("HasToken" \in s, {"hasToken"})
    \cup When("IsError" \in s, {"isError"})
    \cup When("BlockHash" \in s, {"blockHash"})
Slurp_CalcMap(p, s) ==
  {"date"}
    \cup When("withdrawal" \notin s /\ "reward" \notin s, {"gasCost"})
    \cup (IF p.json
          THEN {"contractAddress"}
                 \cup When("Input" \in s /\ "deprecated" \notin s, {"input"})
                 \cup When("articulate" \in p.opts /\ "ArticulatedTx" \in s, {"articulatedTx"})
          ELSE {"hasToken", "isError", "input", "compressedTx", "encoding"}
                 \cup When("articulate" \in p.opts /\ "ArticulatedTx" \in s, {"compressedTx"}))
    \cup {"ether"}
Slurp_Model(p, s) ==
  Labelled(p, s, <<"contractAddress", "from", "to">>,
    Slurp_RawMap(p, s) \cup Slurp_CalcMap(p, s),
    IF "reward" \in s
    THEN <<"blockNumber", "timestamp", "date", "from", "to", "value">>
           \o Also("articulate" \in p.opts /\ "ArticulatedTx" \in s /\ ~p.json,
                <<"compressedTx">>)
           \o <<"ether">>
    ELSE IF "withdrawal" \in s
         THEN <<"blockNumber", "validatorIndex", "withdrawalIndex", "timestamp", "date",
                "from", "to", "value">>
                \o Also("articulate" \in p.opts /\ "ArticulatedTx" \in s /\ ~p.json,
                     <<"compressedTx">>)
                \o <<"ether">>
         ELSE <<"blockNumber", "transactionIndex", "timestamp", "date", "from", "to",
                "hasToken", "isError", "hash", "gasPrice", "gasUsed", "gasCost", "value",
                "input">>
                \o Also("articulate" \in p.opts /\ "ArticulatedTx" \in s /\ ~p.json,
                     <<"compressedTx">>)
                \o <<"ether">>)

State_RawMap(p, s) ==
  {"blockNumber", "address"} \cup When(p.verbose /\ "Timestamp" \in s, {"timestamp"})
State_CalcMap(p, s) ==
  When(p.verbose /\ "Timestamp" \in s, {"date"})
    \cup Only({"balance", "nonce", "code", "proxy", "deployed", "accttype"}, p.fields)
    \cup When("balance" \in ToSet(p.fields), {"ether"})
State_Model(p, s) ==
  Labelled(p, s, <<"address", "proxy">>, State_RawMap(p, s) \cup State_CalcMap(p, s),
    <<"blockNumber", "address">>
      \o Also(p.verbose /\ "Timestamp" \in s, <<"timestamp", "date">>)
      \o p.fields
      \o Also("balance" \in ToSet(p.fields) /\ "ether" \in p.opts, <<"ether">>))

Statement_RawMap(p, s) ==
  {"accountedFor", "amountIn", "amountOut", "asset", "begBal", "blockNumber",
   "correctAmountIn", "correctAmountOut", "correctBegBalIn", "correctBegBalOut",
   "correctEndBalIn", "correctEndBalOut", "correctingReasons", "decimals", "endBal", "gasOut",
   "internalIn", "internalOut", "logIndex", "minerBaseRewardIn", "minerNephewRewardIn",
   "minerTxFeeIn", "minerUncleRewardIn", "prefundIn", "prevBal", "priceSource", "recipient",
   "selfDestructIn", "selfDestructOut", "sender", "spotPrice", "symbol", "timestamp",
   "transactionHash", "transactionIndex"}
Statement_CalcMap(p, s) ==
  {"amountNet", "begBalDiff", "date", "endBalCalc", "endBalDiff", "reconciled", "totalIn",
   "totalOut"}
    \cup When("ether" \in p.opts,
           {"amountInEth", "amountNetEth", "amountOutEth", "begBalDiffEth", "begBalEth",
            "correctAmountInEth", "correctAmountOutEth", "correctBegBalInEth",
            "correctBegBalOutEth", "correctEndBalInEth", "correctEndBalOutEth",
            "endBalCalcEth", "endBalDiffEth", "endBalEth", "gasOutEth", "internalInEth",
            "internalOutEth", "minerBaseRewardInEth", "minerNephewRewardInEth",
            "minerTxFeeInEth", "minerUncleRewardInEth", "prefundInEth", "prevBalEth",
            "selfDestructInEth", "selfDestructOutEth", "totalInEth", "totalOutEth"})
Statement_Model(p, s) ==
  Labelled(p, s, <<"accountedFor", "asset", "recipient", "sender">>,
    Statement_RawMap(p, s) \cup Statement_CalcMap(p, s),
    <<"blockNumber", "transactionIndex", "logIndex", "transactionHash", "timestamp", "date",
      "asset", "symbol", "decimals", "spotPrice", "priceSource", "accountedFor", "sender",
      "recipient", "begBal", "amountNet", "endBal", "reconciled", "totalIn", "amountIn",
      "internalIn", "correctBegBalIn", "correctAmountIn", "correctEndBalIn", "selfDestructIn",
      "minerBaseRewardIn", "minerNephewRewardIn", "minerTxFeeIn", "minerUncleRewardIn",
      "prefundIn", "totalOut", "amountOut", "internalOut", "correctBegBalOut",
      "correctAmountOut", "correctEndBalOut", "selfDestructOut", "gasOut", "prevBal",
      "begBalDiff", "endBalDiff", "endBalCalc", "correctingReasons">>
      \o Also("ether" \in p.opts,
           <<"begBalEth", "amountNetEth", "endBalEth", "totalInEth", "amountInEth",
             "internalInEth", "selfDestructInEth", "minerBaseRewardInEth",
             "minerNephewRewardInEth", "minerTxFeeInEth", "minerUncleRewardInEth",
             "correctBegBalInEth", "correctAmountInEth", "correctEndBalInEth", "prefundInEth",
             "totalOutEth", "amountOutEth", "internalOutEth", "correctBegBalOutEth",
             "correctAmountOutEth", "correctEndBalOutEth", "selfDestructOutEth", "gasOutEth",
             "begBalDiffEth", "endBalDiffEth", "endBalCalcEth", "prevBalEth">>))

Status_RawMap(p, s) ==
  {"cachePath", "chainConfig", "clientVersion", "hasEsKey", "hasPinKey", "indexPath", "isApi",
   "isArchive", "isTesting", "isTracing", "rootConfig", "rpcProvider", "trueblocksVersion"}
Status_CalcMap(p, s) ==
  When(IF "caches" \in p.opts THEN "CachesFound" \in s ELSE "Caches" \in s, {"caches"})
    \cup When("chains" \in p.opts, {"chains"})
Status_Model(p, s) ==
  Labelled(p, s, <<>>, Status_RawMap(p, s) \cup Status_CalcMap(p, s),
    <<"cachePath", "chainConfig", "clientVersion", "hasEsKey", "hasPinKey", "indexPath",
      "isApi", "isArchive", "isTesting", "isTracing", "rootConfig", "rpcProvider",
      "trueblocksVersion">>
      \o Also("caches" \in p.opts \/ "Caches" \in s, <<"caches">>)
      \o Also("chains" \in p.opts, <<"chains">>))

Timestamp_RawMap(p, s) == {"blockNumber", "timestamp", "diff"}
Timestamp_CalcMap(p, s) == {"date"}
Timestamp_Model(p, s) ==
  Labelled(p, s, <<>>, Timestamp_RawMap(p, s) \cup Timestamp_CalcMap(p, s),
    <<"blockNumber", "timestamp", "diff">>)

\* The columns a token is asked for: all of them, the holder's, or those --parts names
Token_wanted(p) ==
  LET wanted == IF p.fields = <<"all">>
                THEN <<"address", "blockNumber">> \o Also(p.verbose, <<"timestamp", "date">>)
                       \o <<"name", "symbol", "decimals", "totalSupply">>
                ELSE IF p.fields = <<"all_held">>
                THEN <<"blockNumber">> \o Also(p.verbose, <<"timestamp", "date">>)
                       \o <<"holder", "address", "name", "symbol", "decimals", "balance", "balanceDec">>
                ELSE p.fields
  IN Also(wanted # <<>> /\ Head(wanted) \notin {"address", "blockNumber"}, <<"address", "blockNumber">>)
       \o wanted

Token_RawMap(p, s) ==
  Only(
    {"address", "balance", "blockNumber", "decimals", "holder", "name", "symbol", "timestamp",
     "transactionIndex", "version"}, Token_wanted(p))
Token_CalcMap(p, s) == Only({"balanceDec", "date", "diff", "totalSupply"}, Token_wanted(p))
Token_Model(p, s) ==
  Labelled(p, s, <<"address", "holder">>, Token_RawMap(p, s) \cup Token_CalcMap(p, s),
    Token_wanted(p))

Trace_RawMap(p, s) ==
  {"blockHash", "blockNumber", "subtraces", "timestamp", "transactionHash", "transactionIndex"}
    \cup (IF p.json
          THEN {"traceAddress"}
                 \cup When("Error" \in s, {"error"})
                 \cup When("TraceType" \in s, {"type"})
                 \cup When("Action" \in s, {"action"})
                 \cup When("Result" \in s, {"result"})
          ELSE {"error"}
                 \cup When("Action" \in s, {"action::callType", "action::gas", "action::input"})
                 \cup {"result::gasUsed", "result::output"})
Trace_CalcMap(p, s) ==
  {"date"}
    \cup (IF p.json
          THEN When("articulate" \in p.opts /\ "ArticulatedTrace" \in s, {"articulatedTrace"})
          ELSE When("Action" \in s,
                 (IF "RefundAddress" \in s
                  THEN {"action::from", "action::to", "action::value", "action::ether",
                        "action::input", "action::callType"}
                  ELSE {"action::from", "action::to", "action::value", "action::ether"}))
                 \cup When("articulate" \in p.opts /\ "ArticulatedTrace" \in s,
                        {"compressedTrace"}))
Trace_Model(p, s) ==
  Labelled(p, s, Also(~p.json /\ "Action" \in s, <<"action::from", "action::to">>),
    Trace_RawMap(p, s) \cup Trace_CalcMap(p, s),
    <<"blockNumber", "transactionIndex", "timestamp", "date", "error", "action::callType",
      "action::from", "action::to", "action::value", "action::ether", "action::gas",
      "result::gasUsed", "action::input", "result::output">>
      \o Also(~p.json /\ "articulate" \in p.opts /\ "ArticulatedTrace" \in s,
           <<"compressedTrace">>))

TraceAction_RawMap(p, s) ==
  When(p.json,
    When("SelfDestructed" \in s, {"selfDestructed"})
      \cup When("From" \in s, {"from"})
      \cup When("CallType" \in s, {"callType"})
      \cup When("Gas" \in s, {"gas"})
      \cup When("Input" \in s, {"input"})
      \cup {"value"}
      \cup (IF "RefundAddress" \in s THEN {"refundAddress", "balance"} ELSE {"to"})
      \cup When("Init" \in s, {"init"})
      \cup When("Address" \in s, {"address"})
      \cup When("Author" \in s, {"author"})
      \cup When("RewardType" \in s, {"rewardType"}))
TraceAction_CalcMap(p, s) ==
  When(p.json,
    When("ether" \in p.opts, {"ether"} \cup When("RefundAddress" \in s, {"balanceEth"}))
      \cup When("traces" \notin p.opts /\ "Init" \in s, {"init"}))
TraceAction_Model(p, s) ==
  Labelled(p, s, <<"address", "author", "from", "refundAddress", "selfDestructed", "to">>,
    TraceAction_RawMap(p, s) \cup TraceAction_CalcMap(p, s), <<>>)

TraceCount_RawMap(p, s) ==
  {"blockNumber", "timestamp", "tracesCnt", "transactionHash", "transactionIndex"}
TraceCount_CalcMap(p, s) == {"date"}
TraceCount_Model(p, s) ==
  Labelled(p, s, <<>>, TraceCount_RawMap(p, s) \cup TraceCount_CalcMap(p, s),
    <<"blockNumber", "transactionIndex", "transactionHash", "timestamp", "date", "tracesCnt">>)

TraceFilter_RawMap(p, s) ==
  {"after", "count", "fromAddress", "fromBlock", "toAddress", "toBlock"}
TraceFilter_CalcMap(p, s) == {}
TraceFilter_Model(p, s) ==
  Labelled(p, s, <<"fromAddress", "toAddress">>,
    TraceFilter_RawMap(p, s) \cup TraceFilter_CalcMap(p, s),
    <<"fromBlock", "toBlock", "fromAddress", "toAddress", "after", "count">>)

TraceResult_RawMap(p, s) ==
  (IF p.json
   THEN When("GasUsed" \in s, {"gasUsed"})
          \cup When("Output" \in s, {"output"})
          \cup When("Address" \in s, {"address"})
          \cup When("traces" \notin p.opts /\ "Code" \in s, {"code"})
   ELSE {"gasUsed", "output"} \cup When("Address" \in s, {"address"}))
TraceResult_CalcMap(p, s) ==
  (IF p.json
   THEN When("traces" \notin p.opts /\ "Code" \in s, {"code"})
   ELSE When("Address" \in s, {"address"}))
TraceResult_Model(p, s) ==
  Labelled(p, s, <<"address">>, TraceResult_RawMap(p, s) \cup TraceResult_CalcMap(p, s),
    IF p.json
    THEN Also("GasUsed" \in s, <<"gasUsed">>)
           \o Also("Output" \in s, <<"output">>)
           \o Also("Address" \in s, <<"address">>)
           \o Also("traces" \notin p.opts /\ "Code" \in s, <<"code">>)
    ELSE <<"gasUsed", "output">> \o Also("Address" \in s, <<"address">>))

Transaction_RawMap(p, s) ==
  {"blockNumber", "from", "gasPrice", "gasUsed", "hash", "timestamp", "transactionIndex",
   "value", "to"}
    \cup (IF p.json
          THEN {"blockHash"}
                 \cup When("Nonce" \in s, {"nonce"})
                 \cup {"gas"}
                 \cup When("MaxFeePerGas" \in s, {"maxFeePerGas"})
                 \cup When("MaxPriorityFeePerGas" \in s, {"maxPriorityFeePerGas"})
                 \cup When("TransactionType" \in s, {"type"})
                 \cup When("Input" \in s, {"input"})
                 \cup When("HasToken" \in s, {"hasToken"})
                 \cup When("IsError" \in s, {"isError"})
          ELSE {"type", "isError"})
Transaction_CalcMap(p, s) ==
  {"date", "gasCost", "ether"}
    \cup (IF p.json
          THEN {"receipt", "traces"}
                 \cup When("Statements" \in s, {"statements"})
                 \cup When("articulate" \in p.opts /\ "ArticulatedTx" \in s, {"articulatedTx"})
                 \cup When(
                        ~("articulate" \in p.opts /\ "ArticulatedTx" \in s) /\ "Message" \in s,
                        {"message"})
          ELSE {"ethGasPrice", "encoding", "compressedTx"}
                 \cup When("traces" \in p.opts, {"nTraces"}))
Transaction_Model(p, s) ==
  Labelled(p, s, <<"from", "to">>, Transaction_RawMap(p, s) \cup Transaction_CalcMap(p, s),
    <<"blockNumber", "transactionIndex", "timestamp", "date", "from", "to", "value",
      "gasPrice", "gasUsed", "gasCost", "hash", "isError", "encoding">>
      \o Also("articulate" \in p.opts /\ "ArticulatedTx" \in s /\ ~p.json, <<"compressedTx">>)
      \o Also(~p.json, <<"type">> \o Also("traces" \in p.opts, <<"nTraces">>))
      \o <<"ether">>)

Transfer_RawMap(p, s) == {"asset", "blockNumber", "holder", "logIndex", "transactionIndex"}
Transfer_CalcMap(p, s) == {"amount"} \cup When("ether" \in p.opts, {"amountEth"})
Transfer_Model(p, s) ==
  Labelled(p, s, <<"asset", "holder", "recipient", "sender">>,
    Transfer_RawMap(p, s) \cup Transfer_CalcMap(p, s),
    <<"blockNumber", "transactionIndex", "logIndex", "asset", "holder", "amount">>
      \o Also("ether" \in p.opts, <<"amountEth">>))

Withdrawal_RawMap(p, s) ==
  {"address", "amount", "blockNumber", "index", "timestamp", "validatorIndex"}
Withdrawal_CalcMap_Bug(p, s) == {"date"} \cup When("ether" \in p.opts /\ p.json, {"ether"}) \* [mutant] JSON only
Withdrawal_CalcMap(p, s) == {"date"} \cup When("ether" \in p.opts, {"ether"})
Withdrawal_Model(p, s) ==
  Labelled(p, s, <<"address">>, Withdrawal_RawMap(p, s) \cup Withdrawal_CalcMap(p, s),
    <<"blockNumber", "index", "validatorIndex", "address", "timestamp", "date", "amount">>
      \o Also("ether" \in p.opts, <<"ether">>))

\* model.Model(..) through the Modeler interface
Model(kind, p, s) ==
  CASE kind = "Abi" -> Abi_Model(p, s)
    [] kind = "Appearance" -> Appearance_Model(p, s)
    [] kind = "AppearanceTable" -> AppearanceTable_Model(p, s)
    [] kind = "Approval" -> Approval_Model(p, s)
    [] kind = "Block" -> Block_Model(p, s)
    [] kind = "BlockCount" -> BlockCount_Model(p, s)
    [] kind = "Bounds" -> Bounds_Model(p, s)
    [] kind = "CacheItem" -> CacheItem_Model(p, s)
    [] kind = "Chain" -> Chain_Model(p, s)
    [] kind = "ChunkAddress" -> ChunkAddress_Model(p, s)
    [] kind = "ChunkBloom" -> ChunkBloom_Model(p, s)
    [] kind = "ChunkIndex" -> ChunkIndex_Model(p, s)
    [] kind = "ChunkPin" -> ChunkPin_Model(p, s)
    [] kind = "ChunkRecord" -> ChunkRecord_Model(p, s)
    [] kind = "ChunkStats" -> ChunkStats_Model(p, s)
    [] kind = "Config" -> Config_Model(p, s)
    [] kind = "Contract" -> Contract_Model(p, s)
    [] kind = "Count" -> Count_Model(p, s)
    [] kind = "Destination" -> Destination_Model(p, s)
    [] kind = "Function" -> Function_Model(p, s)
    [] kind = "IpfsPin" -> IpfsPin_Model(p, s)
    [] kind = "LightBlock" -> LightBlock_Model(p, s)
    [] kind = "Log" -> Log_Model(p, s)
    [] kind = "Manifest" -> Manifest_Model(p, s)
    [] kind = "Message" -> Message_Model(p, s)
    [] kind = "MetaData" -> MetaData_Model(p, s)
    [] kind = "Monitor" -> Monitor_Model(p, s)
    [] kind = "MonitorClean" -> MonitorClean_Model(p, s)
    [] kind = "Name" -> Name_Model(p, s)
    [] kind = "NamedBlock" -> NamedBlock_Model(p, s)
    [] kind = "Parameter" -> Parameter_Model(p, s)
    [] kind = "RangeDates" -> RangeDates_Model(p, s)
    [] kind = "Receipt" -> Receipt_Model(p, s)
    [] kind = "ReportCheck" -> ReportCheck_Model(p, s)
    [] kind = "Result" -> Result_Model(p, s)
    [] kind = "Slurp" -> Slurp_Model(p, s)
    [] kind = "State" -> State_Model(p, s)
    [] kind = "Statement" -> Statement_Model(p, s)
    [] kind = "Status" -> Status_Model(p, s)
    [] kind = "Timestamp" -> Timestamp_Model(p, s)
    [] kind = "Token" -> Token_Model(p, s)
    [] kind = "Trace" -> Trace_Model(p, s)
    [] kind = "TraceAction" -> TraceAction_Model(p, s)
    [] kind = "TraceCount" -> TraceCount_Model(p, s)
    [] kind = "TraceFilter" -> TraceFilter_Model(p, s)
    [] kind = "TraceResult" -> TraceResult_Model(p, s)
    [] kind = "Transaction" -> Transaction_Model(p, s)
    [] kind = "Transfer" -> Transfer_Model(p, s)
    [] kind = "Withdrawal" -> Withdrawal_Model(p, s)
=============================================================================
