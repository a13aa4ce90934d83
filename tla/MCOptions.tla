----------------------------- MODULE MCOptions ------------------------------
EXTENDS Options

\* the tokens that are offered: every one that a parser, a validator or a chain
\* of handlers tells apart, and "bogus", which nobody knows.  The keys that
\* nothing here reads (hint, cacheTraces, reverted, ...) are left out.
Global == {"cache", "decache", "file", "output", "verbose", "txt", "bogus"}
One == {{"addrs"}, {}}
MCOffered ==
  [abis |-> Global \cup {"addrs2", "known", "proxyFor", "list", "details", "count", "find", "encode",
                         "bad_addr", "bad_term", "chain_unknown"},
   blocks |-> Global \cup {"hashes", "uncles", "traces", "uniq", "flow", "logs", "emitter", "topic",
                           "withdrawals", "articulate", "count", "no_tracing", "no_etherscan_key",
                           "bad_ids", "bad_addr", "bad_enum"},
   chunks |-> (Global \cup chunksCmd \cup {"blocks", "mode_pins", "mode_addresses", "mode_blooms",
                 "no_unpins", "no_ipfs", "no_pin_key", "no_diffpath", "index_missing", "bad_tag"})
               \ {"sleep", "publisher", "cache", "decache"},
   config |-> {"paths", "dump", "mode_show", "mode_edit", "no_editor", "bad_enum", "txt", "bogus", "file"},
   daemon |-> {"url", "silent", "verbose", "chain", "txt", "file", "bogus", "cache"},
   explore |-> {"terms", "terms_id", "noOpen", "local", "google", "dalle", "bad_term", "file", "output"},
   export |-> (Global \cup exportCmd \cup {"addrs2", "topics", "fourbytes", "no_tracing", "no_archive",
                 "no_license", "first_after_last"})
               \ {"cacheTraces", "maxRecords", "reverted", "noZero", "unripe", "firstBlock"},
   init |-> {"all", "example", "dryRun", "args", "outside_examples", "file", "bogus", "verbose"},
   list |-> Global \cup {"addrs2", "count", "noZero", "bounds", "maxRecords", "firstBlock", "lastBlock",
                         "first_after_last", "after_latest", "index_missing", "publisher", "bad_addr"},
   logs |-> Global \cup {"names", "transactions", "articulate", "no_etherscan_key", "bad_ids"},
   monitors |-> Global \cup {"addrs", "delete", "undelete", "remove", "clean", "list", "count", "bad_addr"},
   names |-> Global \cup (namesCmd \ {"expand", "all", "custom"}) \cup {"terms", "terms2", "no_form",
                          "not_contract"},
   receipts |-> Global \cup {"transactions", "articulate", "no_etherscan_key", "bad_ids"},
   scrape |-> {"blockCnt", "sleep", "touch", "dryRun", "args2", "no_tracing", "no_archive", "low_sleep",
               "low_count", "old_touch", "bad_fmt", "bogus"},
   slurp |-> Global \cup {"addrs2", "blocks", "parts", "appearances", "count", "sleep", "perPage",
                          "low_sleep", "bad_per_page", "bad_enum", "not_mainnet", "bad_addr", "bad_ids"},
   state |-> Global \cup stateCmd \cup {"addrs2", "blocks", "not_contract", "not_command", "no_archive",
                          "bad_ids", "bad_enum", "bad_addr"},
   status |-> {"modes", "diagnose", "maxRecords0", "chains", "caches", "healthcheck", "verbose",
               "bad_enum", "file", "output", "txt", "bogus"},
   tokens |-> Global \cup tokensCmd \cup {"addrs2", "blocks", "not_contract", "no_monitor", "no_archive",
                          "bad_enum", "bad_addr"},
   traces |-> Global \cup tracesCmd \cup {"transactions", "no_tracing", "no_etherscan_key", "bad_ids"},
   transactions |-> (Global \cup transactionsCmd \cup {"no_tracing", "no_etherscan_key", "bad_ids",
                          "bad_enum", "bad_addr"}) \ {"cacheTraces"},
   when |-> (Global \cup whenCmd \cup {"blocks", "bad_ids", "no_period"})]

CONSTANTS p1, p2
OneProc == [p \in {p1} |-> MCOffered]
TwoProcs == [p \in {p1, p2} |-> IF p = p1 THEN MCOffered ELSE [scrape |-> {}]]
MCBase ==
  [c \in Commands |->
     CASE c \in {"abis", "export", "list", "slurp", "state", "tokens"} -> One
       [] c = "blocks" -> {{"blocks"}, {}}
       [] c = "chunks" -> {{"mode_index"}, {"mode_manifest"}, {}}
       [] c = "transactions" -> {{"transactions"}, {}}
       [] OTHER -> {{}}]
=============================================================================
