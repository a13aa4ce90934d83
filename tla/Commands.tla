------------------------------ MODULE Commands ------------------------------
(***************************************************************************)
(* What each chifra command does with its options before a handler runs:   *)
(* the flags it registers with cobra (cmd/*.go), the keys the API and the  *)
(* SDK understand and the normalisation of both (internal/*/options.go),   *)
(* the validator (internal/*/validate.go) and the chain of ifs that picks  *)
(* the handler (internal/*/output.go).                                     *)
(*                                                                         *)
(* The options of a request are a set of tokens: a flag or key that is     *)
(* given; a value the code tells apart ("truncate0" is a truncate of 0,    *)
(* "addrs2" are two addresses, "mode_pins" is chunks' mode); how the       *)
(* request came ("api"); and the Facts the validator asks others about,    *)
(* each named for what is wrong, so that the empty set is a good day.      *)
(* Test mode is off.  Messages are left out: a validator is TRUE or FALSE. *)
(***************************************************************************)
EXTENDS Integers, FiniteSets, Sequences, FiniteSetsExt, SequencesExt

Facts == {"api", "chain_unknown", "not_mainnet", "no_tracing", "no_archive", "no_node",
          "no_etherscan_key", "no_license", "no_pin_key", "no_ipfs", "no_unpins", "no_diffpath",
          "no_editor", "no_monitor", "no_form", "not_contract", "not_command", "index_missing",
          "file_missing", "outside_examples", "bad_ids", "bad_enum", "bad_addr", "bad_term",
          "bad_tag", "bad_fmt", "low_sleep", "low_count", "bad_per_page", "old_touch",
          "no_period", "first_after_last", "after_latest", "inited"}

Has(o, S) == o \cap S # {}
Lacks(o, S) == o \cap S = {}

\* how a key that a command does not know is judged: its capabilities may
\* cover it, and fmt, file and testRunner are let through for everyone
DefaultCaps == {"verbose", "json", "txt", "version", "noop", "nocolor", "chain", "noHeader",
                "file", "output", "append"}
CachingCaps == {"cache", "decache"}
HasKey(caps) == caps \cup {"json", "txt", "file"}

\* the shape of every XFinishParseInternal: known keys are kept, one that is
\* neither known nor a capability sets BadFlag
FromKeys(k, mine, caps) ==
    (k \cap (mine \cup HasKey(caps) \cup Facts))
        \cup (IF k \subseteq mine \cup HasKey(caps) \cup Facts THEN {} ELSE {"BadFlag"})

\* Globals.FinishParseApi: the format defaults to json
FinishParseApi(o) == IF "txt" \in o THEN o \ {"json"} ELSE o \cup {"json"}

\* Globals.FinishParse and the last lines of every xFinishParse: the format
\* defaults to the command's own
FinishParse(o, defFmt) == IF Has(o, {"txt", "json"}) THEN o ELSE o \cup {defFmt}

\* positional arguments that are not addresses are dropped or read as blocks
ValidAddrs(o) == IF "bad_addr" \in o THEN o \ {"addrs", "addrs2"} ELSE o
AddrsOrBlocks(o) ==
    IF "bad_addr" \in o /\ Has(o, {"addrs", "addrs2"})
    THEN (o \ {"addrs", "addrs2"}) \cup {"blocks", "bad_ids"} ELSE o

\* the checks every validator starts and ends with
Ready(o) == Lacks(o, {"BadFlag", "chain_unknown"})
Globals_Validate(o) ==
    /\ "file" \in o => Lacks(o, {"api", "file_missing"})
    /\ ~({"output", "api"} \subseteq o)
    /\ "bad_fmt" \notin o
    /\ ~({"cache", "decache"} \subseteq o)
AtLeastOneAddr(o) == Has(o, {"addrs", "addrs2"}) /\ "bad_addr" \notin o
ArticulationKey(o) == ~({"articulate", "no_etherscan_key"} \subseteq o)
Identifiers(o, ids) == ~({ids, "bad_ids"} \subseteq o)
Publisher(o) == ~({"publisher", "bad_addr"} \subseteq o)

\* a chain of if / else if: rows of (the options that ask for it, handler)
FirstOf(chain, o) ==
    LET hits == {i \in DOMAIN chain : Has(o, chain[i][1])}
    IN  IF hits = {} THEN "HandleShow" ELSE chain[Min(hits)][2]

-----------------------------------------------------------------------------
(* chifra abis *)
abisCmd == {"known", "proxyFor", "list", "details", "count", "find", "hint", "encode"}
AbisFinishParseInternal(k) ==
    FromKeys(k, {"addrs", "addrs2", "known", "proxyFor", "list", "details", "count", "find",
                 "hint", "encode"}, DefaultCaps \cup CachingCaps \cup {"names"})
abisFinishParse(k) == FinishParse(ValidAddrs(k), "txt")
validateAbis(o) ==
    /\ Ready(o)
    /\ "decache" \in o => Lacks(o, {"encode", "find", "known", "proxyFor"})
    /\ Has(o, {"file", "encode", "find", "count", "list", "details", "known", "decache"})
          \/ AtLeastOneAddr(o)
    /\ Has(o, {"encode", "find", "decache"}) => Lacks(o, {"count", "list"})
    /\ ~({"find", "encode"} \subseteq o)
    /\ "proxyFor" \in o => "addrs" \in o
    /\ ~({"find", "bad_term"} \subseteq o)
    /\ Globals_Validate(o)
AbisInternal ==
    << <<{"decache"}, "HandleDecache">>, <<{"find"}, "HandleFind">>, <<{"count"}, "HandleCount">>,
       <<{"details"}, "HandleDetails">>, <<{"list"}, "HandleList">>, <<{"encode"}, "HandleEncode">> >>

(* chifra blocks *)
blocksCmd == {"hashes", "uncles", "traces", "uniq", "flow", "logs", "emitter", "topic",
              "withdrawals", "articulate", "count", "cacheTxs", "cacheTraces"}
\* [mutant] a flag that the API and the SDK never heard of
BlocksFinishParseInternal_Bug(k) ==
    FromKeys(k, {"blocks", "hashes", "uncles", "traces", "uniq", "flow", "logs", "emitter",
                 "topic", "articulate", "count", "cacheTxs", "cacheTraces"},
             DefaultCaps \cup CachingCaps \cup {"ether", "names"})
BlocksFinishParseInternal(k) ==
    FromKeys(k, {"blocks", "hashes", "uncles", "traces", "uniq", "flow", "logs", "emitter",
                 "topic", "withdrawals", "articulate", "count", "cacheTxs", "cacheTraces"},
             DefaultCaps \cup CachingCaps \cup {"ether", "names"})
blocksFinishParse(k) == FinishParse(k, IF "uniq" \in k THEN "txt" ELSE "json")
Blocks_tooMany(o) ==
    /\ "count" \notin o
    /\ Cardinality(o \cap {"uncles", "traces", "uniq", "logs", "withdrawals"}) > 1
validateBlocks(o) ==
    /\ Ready(o)
    /\ Has(o, {"emitter", "topic"}) => "bad_addr" \notin o
    /\ ~Blocks_tooMany(o)
    /\ Identifiers(o, "blocks")
    /\ "flow" \in o => "uniq" \in o /\ "bad_enum" \notin o
    /\ "file" \notin o =>
          /\ "blocks" \in o
          /\ Has(o, {"emitter", "topic", "articulate"}) => "logs" \in o
          /\ "traces" \in o => Lacks(o, {"hashes", "no_tracing"})
          /\ ArticulationKey(o)
          /\ ("uniq" \in o /\ "count" \notin o) => Lacks(o, {"traces", "uncles", "logs"})
          /\ "uncles" \in o => Lacks(o, {"articulate", "cache", "decache"})
    /\ Globals_Validate(o)
BlocksInternal ==
    << <<{"decache"}, "HandleDecache">>, <<{"count"}, "HandleCount">>, <<{"logs"}, "HandleLogs">>,
       <<{"withdrawals"}, "HandleWithdrawals">>, <<{"traces"}, "HandleTraces">>,
       <<{"uncles"}, "HandleUncles">>, <<{"uniq"}, "HandleUniq">>, <<{"hashes"}, "HandleHashes">> >>

(* chifra chunks *)
ChunksModes == {"mode_manifest", "mode_index", "mode_blooms", "mode_pins", "mode_addresses",
                "mode_appearances", "mode_stats"}
Truncates == {"truncate", "truncate0"}
chunksCmd == {"check", "pin", "publish", "publisher", "remote", "belongs", "diff", "firstBlock",
              "lastBlock", "maxAddrs", "deep", "rewrite", "list", "unpin", "count", "tag",
              "dryRun", "metadata", "sleep"} \cup Truncates
ChunksFinishParseInternal(k) ==
    FromKeys(k, {"blocks", "check", "pin", "publish", "publisher", "remote", "belongs", "diff",
                 "firstBlock", "lastBlock", "maxAddrs", "deep", "rewrite", "list", "unpin",
                 "count", "tag", "dryRun", "metadata", "sleep"} \cup Truncates \cup ChunksModes,
             DefaultCaps)
chunksFinishParse(k) ==
    LET o == k \ {"truncate0"}
    IN  FinishParse(o, IF Has(o, {"truncate", "belongs", "pin"}) THEN "json" ELSE "txt")
\* [mutant] --pin is forgotten
isDisallowed_Bug(o, test) == test /\ Has(o, {"publish", "remote"} \cup Truncates)
isDisallowed(o, test) == test /\ Has(o, {"pin", "publish", "remote"} \cup Truncates)
validateChunks(o) ==
    LET indexed == Has(o, {"mode_index", "mode_manifest"})
    IN  /\ Ready(o)
        /\ "api" \in o => Lacks(o, {"tag", "mode_pins"} \cup Truncates)
        /\ "api" \notin o => ~({"tag", "bad_tag"} \subseteq o)
        /\ "dryRun" \in o => \/ Has(o, {"tag", "pin"} \cup Truncates)
                             \/ {"mode_pins", "unpin"} \subseteq o
        /\ "metadata" \in o => "pin" \in o
        /\ IF "mode_pins" \in o THEN Has(o, {"list", "unpin", "count"})
                                   /\ ~({"unpin", "no_unpins"} \subseteq o)
                              ELSE Lacks(o, {"list", "unpin"})
        /\ "count" \in o => Lacks(o, {"mode_addresses", "mode_appearances"})
        /\ Has(o, ChunksModes) /\ "bad_enum" \notin o
        /\ "diff" \in o => "mode_index" \in o /\ Lacks(o, {"no_diffpath"})
        /\ ~isDisallowed(o, ~indexed)
        /\ ~indexed => Lacks(o, {"check", "deep"})
        /\ (Lacks(o, {"check", "pin"}) /\ ~({"mode_manifest", "remote"} \subseteq o))
              => Lacks(o, {"remote", "deep"})
        /\ IF "pin" \in o THEN (IF "remote" \in o THEN "no_pin_key" ELSE "no_ipfs") \notin o
                          ELSE "rewrite" \notin o
        /\ "publish" \notin o
        /\ "mode_index" \notin o => Lacks(o, {"tag", "belongs"} \cup Truncates)
        /\ "belongs" \in o => {"blocks", "json"} \subseteq o /\ Lacks(o, {"bad_addr", "verbose"})
        /\ ~isDisallowed(o, "api" \in o)
        /\ Publisher(o)
        /\ Identifiers(o, "blocks")
        /\ "diff" \in o => "blocks" \in o
        /\ Has(o, {"firstBlock", "lastBlock", "maxAddrs"}) =>
              "first_after_last" \notin o /\ Has(o, {"belongs", "mode_addresses", "mode_appearances"})
        /\ "index_missing" \in o => "tag" \in o \/ {"mode_manifest", "remote"} \subseteq o
        /\ Globals_Validate(o)
\* [mutant] the tagger is tried first
ChunksInternal_Bug ==
    << <<{"tag"}, "HandleTag">>, <<{"count"}, "HandleCounts">>, <<{"check"}, "HandleCheck">>,
       <<{"list"}, "HandleList">>, <<{"unpin"}, "HandleUnpin">>, <<{"diff"}, "HandleDiff">>,
       <<{"pin"}, "HandlePin">>, <<{"publish"}, "HandlePublish">>, <<Truncates, "HandleTruncate">> >>
ChunksInternal ==
    << <<{"count"}, "HandleCounts">>, <<{"check"}, "HandleCheck">>, <<{"list"}, "HandleList">>,
       <<{"unpin"}, "HandleUnpin">>, <<{"tag"}, "HandleTag">>, <<{"diff"}, "HandleDiff">>,
       <<{"pin"}, "HandlePin">>, <<{"publish"}, "HandlePublish">>, <<Truncates, "HandleTruncate">> >>

(* chifra config *)
configCmd == {"paths", "dump"}
ConfigFinishParseInternal(k) ==
    FromKeys(k, {"mode_show", "mode_edit", "paths", "dump"}, DefaultCaps)
configFinishParse(k) ==
    IF "dump" \in k THEN (k \ {"txt"}) \cup {"json"} ELSE FinishParse(k, "txt")
validateConfig(o) ==
    /\ Ready(o)
    /\ IF "paths" \in o THEN Lacks(o, {"mode_show", "mode_edit"}) ELSE "bad_enum" \notin o
    /\ ~({"mode_edit", "no_editor"} \subseteq o)
    /\ Globals_Validate(o)
ConfigInternal == << <<{"paths"}, "HandlePaths">>, <<{"dump"}, "HandleDump">> >>

(* chifra daemon *)
daemonCmd == {"url", "silent"}
DaemonFinishParseInternal(k) ==
    FromKeys(k, {"url", "silent"}, {"verbose", "version", "noop", "nocolor"})
daemonFinishParse(k) == FinishParse(k, "txt")
validateDaemon(o) == Ready(o) /\ "api" \notin o /\ Globals_Validate(o)
DaemonInternal == << <<{"api", "json", "txt"}, "ListenAndServe">> >>

(* chifra explore: "terms" are addresses, "terms_id" transactions or blocks *)
exploreCmd == {"noOpen", "local", "google", "dalle"}
ExploreFinishParseInternal(k) ==
    FromKeys(k, {"terms", "terms_id", "noOpen", "local", "google", "dalle"}, DefaultCaps)
exploreFinishParse(k) == FinishParse(k, "txt")
validateExplore(o) ==
    /\ Ready(o) /\ "api" \notin o
    /\ "local" \in o => Lacks(o, {"google", "dalle"})
    /\ Has(o, {"google", "dalle"}) => "terms" \in o /\ "bad_term" \notin o
    /\ Has(o, {"terms", "terms_id"}) => "bad_term" \notin o
    /\ Globals_Validate(o)
ExploreInternal == << >>

(* chifra export *)
ExportModes == <<"appearances", "receipts", "logs", "approvals", "traces", "neighbors",
                 "statements", "transfers", "assets", "withdrawals">>
exportCmd == {"appearances", "receipts", "logs", "approvals", "traces", "neighbors", "accounting",
              "statements", "transfers", "assets", "balances", "withdrawals", "articulate",
              "cacheTraces", "count", "firstRecord", "maxRecords", "relevant", "emitter", "topic",
              "nfts", "reverted", "asset", "flow", "factory", "unripe", "reversed", "noZero",
              "firstBlock", "lastBlock", "txs"}
ExportFinishParseInternal(k) ==
    FromKeys(k, {"addrs", "addrs2", "topics", "fourbytes", "appearances", "receipts", "logs",
                 "approvals", "traces", "neighbors", "accounting", "statements", "transfers",
                 "assets", "balances", "withdrawals", "articulate", "cacheTraces", "count",
                 "firstRecord", "maxRecords", "relevant", "emitter", "topic", "nfts", "reverted",
                 "asset", "flow", "factory", "unripe", "reversed", "noZero", "firstBlock",
                 "lastBlock"}, DefaultCaps \cup CachingCaps \cup {"ether", "names"})
\* a topic among the arguments fills Topic and Topics, the key "topics" only Topics
exportFinishParse(k) ==
    FinishParse(k \cup (IF "topics" \in k THEN {"topic"} ELSE {}), "txt")
IsAccounting(o) == Has(o, {"statements", "transfers", "assets"})
\* of the modes that are on only the first two are looked at
Clash(modes) ==
    LET on == SelectSeq(ExportModes, LAMBDA m : m \in modes)
        which == {on[i] : i \in DOMAIN on \cap 1..2}
    IN  /\ Len(on) > 1
        /\ ~("traces" \in which /\ IsAccounting(which))
        /\ which # {"logs", "approvals"}
Export_tooMany(o) == Clash(o \cap ToSet(ExportModes))
\* what validateExport changes: --accounting alone means --statements
validateExport_sets(o) ==
    IF "accounting" \in o /\ ~IsAccounting(o) THEN o \cup {"statements"} ELSE o
validateExport(o) ==
    /\ Ready(o)
    /\ ~({"neighbors", "no_license"} \subseteq o)
    /\ ~Export_tooMany(o)
    /\ ~({"traces", "no_tracing"} \subseteq o)
    /\ "count" \in o => Lacks(o, {"logs", "traces", "neighbors"})
    /\ AtLeastOneAddr(o)
    /\ "first_after_last" \in o => Lacks(o, {"firstBlock", "lastBlock"})
    /\ ~({"lastBlock", "after_latest"} \subseteq o)
    /\ "approvals" \in o => Lacks(o, {"fourbytes", "topic", "topics"})
    /\ IF Has(o, {"logs", "approvals"})
       THEN Has(o, {"emitter", "topics", "topic"}) => "bad_term" \notin o
       ELSE Lacks(o, {"nfts", "emitter", "topic", "relevant"}) /\ ("topics" \in o => "receipts" \in o)
    /\ "factory" \in o => "traces" \in o
    /\ "fourbytes" \in o => Lacks(o, {"logs", "receipts", "appearances", "bad_term"})
    /\ IF IsAccounting(o)
       THEN /\ Lacks(o, {"addrs2", "no_archive", "firstRecord", "reversed"})
            /\ Cardinality(o \cap {"statements", "transfers", "assets"}) = 1
            /\ ~({"flow", "bad_enum"} \subseteq o)
       ELSE "flow" \notin o
    /\ "asset" \in o => Has(o, {"statements", "transfers", "balances"})
    /\ ArticulationKey(o)
    /\ "index_missing" \notin o
    /\ Globals_Validate(o)
ExportInternal ==
    << <<{"decache"}, "HandleDecache">>, <<{"count"}, "HandleCount">>,
       <<{"receipts"}, "HandleReceipts">>, <<{"logs"}, "HandleLogs">>,
       <<{"withdrawals"}, "HandleWithdrawals">>, <<{"appearances"}, "HandleAppearances">>,
       <<{"assets"}, "HandleAssets">>, <<{"balances"}, "HandleBalances">>,
       <<{"neighbors"}, "HandleNeighbors">>, <<{"statements"}, "HandleStatements">>,
       <<{"transfers"}, "HandleTransfers">>, <<{"traces"}, "HandleTraces">>,
       <<{"approvals"}, "HandleApprovals">> >>

(* chifra init: "args" is any positional argument *)
initCmd == {"all", "example", "dryRun", "publisher", "firstBlock", "sleep"}
InitFinishParseInternal(k) ==
    FromKeys(k, {"all", "example", "dryRun", "publisher", "firstBlock", "sleep"},
             {"verbose", "version", "noop", "nocolor", "chain"})
initFinishParse(k) == FinishParse(k \cup (IF "args" \in k THEN {"BadFlag"} ELSE {}), "txt")
\* "inited": the history file says that init was run with --all
validateInit(o) ==
    /\ Ready(o) /\ Publisher(o)
    /\ IF "example" \in o THEN Lacks(o, {"outside_examples", "bad_term"})
                          ELSE "inited" \in o => "all" \in o
    /\ Globals_Validate(o)
InitInternal == << <<{"dryRun"}, "HandleDryRun">>, <<{"example"}, "HandleExample">> >>

(* chifra list: its validator does not end in Globals.Validate *)
listCmd == {"count", "noZero", "bounds", "unripe", "silent", "firstRecord", "maxRecords",
            "reversed", "publisher", "firstBlock", "lastBlock"}
ListFinishParseInternal(k) ==
    FromKeys(k, {"addrs", "addrs2", "count", "noZero", "bounds", "unripe", "silent",
                 "firstRecord", "maxRecords", "reversed", "publisher", "firstBlock", "lastBlock"},
             DefaultCaps \cup {"names"})
listFinishParse(k) == FinishParse(ValidAddrs(k), "txt")
validateList(o) ==
    /\ Ready(o)
    /\ "first_after_last" \in o => Lacks(o, {"firstBlock", "lastBlock"})
    /\ ~({"lastBlock", "after_latest"} \subseteq o)
    /\ ~({"count", "maxRecords"} \subseteq o)
    /\ "noZero" \in o => "count" \in o
    /\ "file" \in o \/ AtLeastOneAddr(o)
    /\ Publisher(o)
    /\ "index_missing" \notin o
ListInternal == << <<{"count"}, "HandleCount">>, <<{"bounds"}, "HandleBounds">> >>

(* chifra logs *)
logsCmd == {"emitter", "topic", "articulate"}
LogsFinishParseInternal(k) ==
    FromKeys(k, {"transactions", "emitter", "topic", "articulate"},
             DefaultCaps \cup CachingCaps \cup {"names"})
logsFinishParse(k) == FinishParse(k, "txt")
validateLogs(o) ==
    /\ Ready(o)
    /\ "file" \notin o => "transactions" \in o /\ ArticulationKey(o)
    /\ Identifiers(o, "transactions")
    /\ Globals_Validate(o)
LogsInternal == << <<{"decache"}, "HandleDecache">> >>

(* chifra monitors *)
monitorsCmd == {"delete", "undelete", "remove", "clean", "list", "count", "staged"}
MonitorsFinishParseInternal(k) ==
    FromKeys(k, {"addrs", "addrs2", "delete", "undelete", "remove", "clean", "list", "count",
                 "staged"}, DefaultCaps \cup CachingCaps \cup {"names"})
monitorsFinishParse(k) == FinishParse(ValidAddrs(k), "txt")
\* the DELETE route wants one of the three, the GET route none of them
ServeMonitors(o, method) == (method = "DELETE") = Has(o, {"delete", "undelete", "remove"})
validateMonitors(o) ==
    /\ Ready(o)
    /\ Has(o, {"addrs", "addrs2"}) => Lacks(o, {"list", "count"})
    /\ Lacks(o, {"list", "count"}) =>
          /\ "undelete" \in o => Lacks(o, {"delete", "remove"})
          /\ Has(o, {"clean", "addrs", "addrs2"})
          /\ Has(o, {"clean", "delete", "undelete", "remove", "decache"})
          /\ Lacks(o, {"api", "clean", "file"}) => AtLeastOneAddr(o)
    /\ Globals_Validate(o)
MonitorsInternal ==
    << <<{"decache"}, "HandleDecache">>, <<{"count"}, "HandleCount">>, <<{"clean"}, "HandleClean">>,
       <<{"list"}, "HandleList">>, <<{"delete", "undelete", "remove"}, "HandleCrud">> >>

(* chifra names: "terms" is one term, "terms2" are two *)
namesCmd == {"expand", "matchCase", "all", "custom", "prefund", "addr", "tags", "clean",
             "regular", "count", "dryRun", "autoname", "create", "update", "delete", "undelete",
             "remove"}
NamesFinishParseInternal(k) ==
    FromKeys(k, {"terms", "terms2", "expand", "matchCase", "all", "custom", "prefund", "addr",
                 "tags", "clean", "regular", "count", "dryRun", "autoname", "create", "update",
                 "delete", "undelete", "remove"}, DefaultCaps)
namesFinishParse(k) == FinishParse(k, "txt")
NamesCrud == {"create", "update", "delete", "undelete", "remove"}
\* before the validator: the first term is read without asking whether there is one
LoadCrudDataIfNeeded(o) ==
    IF Has(o, {"delete", "undelete", "remove"})
    THEN (IF Has(o, {"terms", "terms2"}) THEN "go on" ELSE "panic")
    ELSE IF Has(o, {"create", "update"}) /\ "no_form" \in o THEN "refuse" ELSE "go on"
validateNames(o) ==
    LET editing == Has(o, {"clean", "autoname"} \cup NamesCrud)
    IN  /\ Ready(o)
        /\ "count" \in o => ~editing /\ Lacks(o, {"terms", "terms2"})
        /\ Has(o, {"delete", "undelete", "remove"}) => "terms" \in o
        /\ "dryRun" \in o => Has(o, {"clean", "autoname"})
        /\ "tags" \in o => Lacks(o, {"addr", "clean"} \cup NamesCrud)
        /\ "addr" \in o => Lacks(o, {"tags", "clean"} \cup NamesCrud)
        /\ "matchCase" \in o => Has(o, {"terms", "terms2"})
        /\ "prefund" \in o => ~editing
        /\ "autoname" \in o => Lacks(o, {"regular", "bad_addr", "not_contract"})
        /\ Globals_Validate(o)
NamesInternal ==
    << <<{"count"}, "HandleCount">>, <<{"autoname"}, "HandleAutoname">>,
       <<{"clean"}, "HandleClean">>, <<{"tags"}, "HandleTags">>, <<NamesCrud, "HandleCrud">> >>

(* chifra receipts *)
receiptsCmd == {"articulate"}
ReceiptsFinishParseInternal(k) ==
    FromKeys(k, {"transactions", "articulate"}, DefaultCaps \cup CachingCaps)
receiptsFinishParse(k) == FinishParse(k, "txt")
validateReceipts(o) ==
    /\ Ready(o)
    /\ "file" \notin o => "transactions" \in o /\ ArticulationKey(o)
    /\ Identifiers(o, "transactions")
    /\ Globals_Validate(o)
ReceiptsInternal == << <<{"decache"}, "HandleDecache">> >>

(* chifra scrape: "args2" are two positional arguments; the pid file, and *)
(* the return of Globals.Validate after it, are Options' PidCheck to PidWrite *)
scrapeCmd == {"blockCnt", "sleep", "publisher", "touch", "runCount", "dryRun", "appsPerChunk",
              "snapToGrid", "firstSnap", "unripeDist", "channelCount", "allowMissing"}
ScrapeFinishParseInternal(k) ==
    FromKeys(k, {"blockCnt", "sleep", "publisher", "touch", "runCount", "dryRun", "appsPerChunk",
                 "snapToGrid", "firstSnap", "unripeDist", "channelCount", "allowMissing"},
             {"verbose", "version", "noop", "nocolor", "chain"})
scrapeFinishParse(k) == FinishParse(k \cup (IF "args2" \in k THEN {"BadFlag"} ELSE {}), "txt")
validateScrape(o) ==
    /\ Ready(o)
    /\ Lacks(o, {"no_tracing", "no_archive", "api", "no_node"})
    /\ ~({"sleep", "low_sleep"} \subseteq o)
    /\ ~({"blockCnt", "low_count"} \subseteq o)
    /\ ~({"touch", "old_touch"} \subseteq o)
    /\ Publisher(o)
ScrapeInternal == << <<{"touch"}, "HandleTouch">> >>

(* chifra slurp *)
slurpCmd == {"parts", "appearances", "articulate", "source", "count", "page", "pageId", "perPage",
             "sleep"}
SlurpFinishParseInternal(k) ==
    FromKeys(k, {"addrs", "addrs2", "blocks", "parts", "appearances", "articulate", "source",
                 "count", "page", "pageId", "perPage", "sleep"},
             DefaultCaps \cup CachingCaps \cup {"ether", "names"}) \cup {"parts"}
slurpFinishParse(k) == FinishParse(AddrsOrBlocks(k) \cup {"parts"}, "txt")
validateSlurp(o) ==
    /\ Ready(o)
    /\ AtLeastOneAddr(o)
    /\ Lacks(o, {"bad_enum", "not_mainnet"})
    /\ ~({"sleep", "low_sleep"} \subseteq o)
    /\ ~({"perPage", "bad_per_page"} \subseteq o)
    /\ Identifiers(o, "blocks")
    /\ Globals_Validate(o)
SlurpInternal ==
    << <<{"decache"}, "HandleDecache">>, <<{"count"}, "HandleCount">>,
       <<{"appearances"}, "HandleAppearances">> >>

(* chifra state: without blocks it reads "latest"; blocks that are given *)
(* are taken to be older than the 250 a node without an archive serves   *)
stateCmd == {"parts", "changes", "noZero", "call", "send", "calldata", "articulate", "proxyFor"}
StateFinishParseInternal(k) ==
    FromKeys(k, {"addrs", "addrs2", "blocks", "parts", "changes", "noZero", "call", "send",
                 "calldata", "articulate", "proxyFor"},
             DefaultCaps \cup CachingCaps \cup {"ether", "names"})
        \cup (IF "blocks" \in k THEN {} ELSE {"latest"})
stateFinishParse(k) ==
    LET o == AddrsOrBlocks(k)
    IN  FinishParse(IF "blocks" \in o THEN o ELSE o \cup {"latest"}, "txt")
checkCommands(o) == "not_command" \notin o
validateState(o) ==
    /\ Ready(o)
    /\ ~({"parts", "bad_enum"} \subseteq o)
    /\ "file" \notin o =>
          IF Has(o, {"call", "send"})
          THEN /\ ~({"call", "send"} \subseteq o)
               /\ {"calldata", "addrs"} \subseteq o
               /\ Lacks(o, {"parts", "changes", "noZero"})
               /\ IF Has(o, {"not_contract", "bad_addr"}) THEN "send" \in o ELSE checkCommands(o)
          ELSE Lacks(o, {"calldata", "articulate", "proxyFor"}) /\ AtLeastOneAddr(o)
    /\ Identifiers(o, "blocks")
    /\ ~({"blocks", "no_archive"} \subseteq o)
    /\ Globals_Validate(o)
StateInternal ==
    << <<{"decache"}, "HandleDecache">>, <<{"call"}, "HandleCall">>, <<{"send"}, "HandleSend">> >>

(* chifra status: "asked" are the modes the user gave (OrigModes) *)
statusCmd == {"diagnose", "firstRecord", "maxRecords", "maxRecords0", "chains", "caches",
              "healthcheck"}
StatusModes(k) ==
    (IF "modes" \in k THEN {"asked"}
     ELSE IF Has(k, {"caches", "chains", "verbose"}) THEN {"modes"} ELSE {})
        \cup (IF "healthcheck" \in k THEN {"diagnose"} ELSE {})
StatusFinishParseInternal(k) ==
    FromKeys(k, {"modes", "diagnose", "firstRecord", "maxRecords", "maxRecords0", "chains",
                 "caches", "healthcheck"}, DefaultCaps) \cup StatusModes(k)
statusFinishParse(k) ==
    LET o == k \cup StatusModes(k)
    IN  FinishParse(o, IF "modes" \in o THEN "json" ELSE "txt")
validateStatus(o) ==
    /\ Ready(o)
    /\ ~({"modes", "bad_enum"} \subseteq o)
    /\ "maxRecords0" \notin o
    /\ ~({"asked", "diagnose"} \subseteq o)
    /\ Globals_Validate(o)
StatusInternal ==
    << <<{"diagnose"}, "HandleDiagnose">>, <<{"chains"}, "HandleChains">>,
       <<{"caches"}, "HandleCaches">> >>

(* chifra tokens: one address and no parts means all the parts *)
tokensCmd == {"approvals", "parts", "byAcct", "changes", "noZero"}
TokensFill(o) ==
    o \cup (IF "addrs" \in o THEN {"parts"} ELSE {})
      \cup (IF "blocks" \in o THEN {} ELSE {"latest"})
TokensFinishParseInternal(k) ==
    TokensFill(FromKeys(k, {"addrs", "addrs2", "blocks", "approvals", "parts", "byAcct",
                            "changes", "noZero"}, DefaultCaps \cup CachingCaps \cup {"names"}))
tokensFinishParse(k) == FinishParse(TokensFill(AddrsOrBlocks(k)), "txt")
validateTokens(o) ==
    /\ Ready(o)
    /\ ~({"parts", "bad_enum"} \subseteq o)
    /\ "changes" \notin o
    /\ Has(o, {"addrs", "addrs2"}) /\ "bad_addr" \notin o
    /\ "decache" \notin o =>
          /\ IF "approvals" \in o THEN Lacks(o, {"byAcct", "no_monitor"}) ELSE "not_contract" \notin o
          /\ "byAcct" \in o => "addrs2" \in o
          /\ Identifiers(o, "blocks") /\ ~({"blocks", "no_archive"} \subseteq o)
    /\ Globals_Validate(o)
TokensInternal ==
    << <<{"decache"}, "HandleDecache">>, <<{"approvals"}, "HandleApprovals">>,
       <<{"parts"}, "HandleParts">> >>

(* chifra traces *)
tracesCmd == {"articulate", "filter", "count"}
TracesFinishParseInternal(k) ==
    FromKeys(k, {"transactions", "articulate", "filter", "count"},
             DefaultCaps \cup CachingCaps \cup {"ether", "names"})
tracesFinishParse(k) == FinishParse(k, "txt")
validateTraces(o) ==
    /\ Ready(o)
    /\ "file" \notin o =>
          /\ Has(o, {"transactions", "filter"})
          /\ "no_tracing" \notin o /\ ArticulationKey(o)
    /\ Identifiers(o, "transactions")
    /\ Globals_Validate(o)
TracesInternal ==
    << <<{"decache"}, "HandleDecache">>, <<{"count"}, "HandleCount">>,
       <<{"filter"}, "HandleFilter">> >>

(* chifra transactions *)
transactionsCmd == {"articulate", "traces", "uniq", "flow", "logs", "emitter", "topic",
                    "cacheTraces"}
TransactionsFinishParseInternal(k) ==
    FromKeys(k, {"transactions", "articulate", "traces", "uniq", "flow", "logs", "emitter",
                 "topic", "cacheTraces"}, DefaultCaps \cup CachingCaps \cup {"ether", "names"})
transactionsFinishParse(k) == FinishParse(k, "txt")
validateTransactions(o) ==
    /\ Ready(o)
    /\ "flow" \in o => "uniq" \in o /\ "bad_enum" \notin o
    /\ "file" \notin o =>
          /\ Has(o, {"emitter", "topic"}) => "logs" \in o /\ "bad_addr" \notin o
          /\ "transactions" \in o
          /\ "traces" \in o => Lacks(o, {"no_tracing", "uniq"})
          /\ ArticulationKey(o)
    /\ Identifiers(o, "transactions")
    /\ Globals_Validate(o)
TransactionsInternal ==
    << <<{"decache"}, "HandleDecache">>, <<{"logs"}, "HandleLogs">>, <<{"uniq"}, "HandleUniq">> >>

(* chifra when *)
whenCmd == {"diff", "list", "timestamps", "count", "repair", "check", "update", "deep"}
           \cup Truncates
WhenFinishParseInternal(k) ==
    FromKeys(k, {"blocks", "diff", "list", "timestamps", "count", "repair", "check", "update",
                 "deep"} \cup Truncates, DefaultCaps \cup CachingCaps)
whenFinishParse(k) == FinishParse(k \ {"truncate0"}, "txt")
\* what validateWhen changes: a count is of the timestamps, nothing to look up means a list
validateWhen_sets(o) ==
    o \cup (IF "count" \in o THEN {"timestamps"} ELSE {})
      \cup (IF Lacks(o, {"blocks", "count", "timestamps"}) THEN {"list"} ELSE {})
validateWhen(o) ==
    /\ Ready(o)
    /\ IF "timestamps" \in o
       THEN /\ "list" \notin o
            /\ "deep" \in o => "check" \in o
            /\ "repair" \in o => "blocks" \in o
       ELSE Lacks(o, {"check", "deep", "update", "repair"} \cup Truncates)
    /\ ~({"blocks", "list"} \subseteq o)
    /\ "diff" \in o => Lacks(o, {"list", "timestamps", "no_period"})
    /\ Identifiers(o, "blocks")
    /\ Globals_Validate(o)
WhenInternal ==
    << <<{"decache"}, "HandleDecache">>, <<{"list"}, "HandleList">>,
       <<{"timestamps"}, "HandleTimestamps">>, <<{"diff"}, "HandleDiff">> >>
=============================================================================
