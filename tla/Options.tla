------------------------------ MODULE Options -------------------------------
(***************************************************************************)
(* A request on its way to a handler: it comes from the command line, from *)
(* the API or from the SDK, its options are parsed, validated and handed   *)
(* to the first handler of the command's chain.  Two things outlive a      *)
(* request and decide about later ones: the history file that remembers    *)
(* chifra init --all, and the pid file of chifra scrape, which is checked, *)
(* removed, created and written in steps of their own.                     *)
(***************************************************************************)
EXTENDS Commands

CONSTANTS
    Procs,     \* processes, each handling one request at a time
    Offered,   \* [Procs -> [commands -> tokens that may be given]]
    Base,      \* [commands -> sets of tokens that a request starts from]
    MaxTokens  \* bound: how many further tokens a request has

Commands == {"abis", "blocks", "chunks", "config", "daemon", "explore", "export", "init", "list",
             "logs", "monitors", "names", "receipts", "scrape", "slurp", "state", "status",
             "tokens", "traces", "transactions", "when"}
Methods == {"GET", "POST", "PUT", "DELETE"}
Fronts == {"cli", "sdk"} \cup Methods

\* the routes of the daemon
Routes == {<<"GET", c>> : c \in Commands \ {"daemon"}}
             \cup {<<"DELETE", "monitors">>}
             \cup {<<m, "names">> : m \in {"POST", "PUT", "DELETE"}}

VARIABLES
    pc, cmd,  \* [Procs -> where a process is, and with which command]
    job,      \* [Procs -> its request: how it came, its tokens, its options and
              \* the handler that they lead to]
    inited,   \* tmp/history.txt says init=true
    pidfile,  \* who the scraper's pid file names: nobody ("none", "empty"), a
              \* process, one that has ended ("stale"), or a stranger that got
              \* the same pid later ("reused")
    raced     \* history variable: a scraper checked the pid file while
              \* another was between its own check and its write

shared == <<inited, pidfile, raced>>
vars == <<pc, cmd, job, shared>>

Nobody == {"none", "empty", "stale", "reused"}
ASSUME ProcsAssumption == Procs \cap Nobody = {}

\* a format is one of two, and how a request comes is not for the user to say
Askable(k) == "api" \notin k /\ ~({"json", "txt"} \subseteq k)
ASSUME OfferedAssumption ==
    /\ \A p \in Procs : \A c \in DOMAIN Offered[p] : "api" \notin Offered[p][c]
    /\ \A c \in Commands : \A b \in Base[c] : Askable(b)

NoJob == [via |-> "", keys |-> {}, opts |-> {}, does |-> ""]

-----------------------------------------------------------------------------
Flags == [abis |-> abisCmd, blocks |-> blocksCmd, chunks |-> chunksCmd, config |-> configCmd,
          daemon |-> daemonCmd, explore |-> exploreCmd, export |-> exportCmd, init |-> initCmd,
          list |-> listCmd, logs |-> logsCmd, monitors |-> monitorsCmd, names |-> namesCmd,
          receipts |-> receiptsCmd, scrape |-> scrapeCmd, slurp |-> slurpCmd,
          state |-> stateCmd, status |-> statusCmd, tokens |-> tokensCmd, traces |-> tracesCmd,
          transactions |-> transactionsCmd, when |-> whenCmd]
\* the positional arguments that a command may be given
Arguments(c) ==
    CASE c \in {"abis", "list", "monitors"} -> {"addrs", "addrs2"}
      [] c \in {"slurp", "state", "tokens"} -> {"addrs", "addrs2", "blocks"}
      [] c = "export" -> {"addrs", "addrs2", "topics", "fourbytes"}
      [] c \in {"blocks", "when"} -> {"blocks"}
      [] c = "chunks" -> {"blocks"} \cup ChunksModes
      [] c \in {"logs", "receipts", "traces", "transactions"} -> {"transactions"}
      [] c = "config" -> {"mode_show", "mode_edit"}
      [] c = "explore" -> {"terms", "terms_id"}
      [] c = "names" -> {"terms", "terms2"}
      [] c = "status" -> {"modes"}
      [] c = "init" -> {"args"}
      [] c = "scrape" -> {"args2"}
      [] c = "daemon" -> {}

\* InitGlobals: the global flags that cobra knows for a command
GlobalFlags(c) ==
    {"file"} \cup
    (IF c \in {"daemon", "init", "scrape"}
     THEN {"verbose", "version", "noop", "nocolor"} \cup (IF c = "daemon" THEN {} ELSE {"chain"})
     ELSE DefaultCaps) \cup
    (IF c = "monitors" THEN {"decache"}
     ELSE IF c \in {"abis", "blocks", "export", "logs", "receipts", "slurp", "state", "tokens",
                    "traces", "transactions", "when"} THEN CachingCaps ELSE {}) \cup
    (IF c \in {"blocks", "export", "slurp", "state", "traces", "transactions"} THEN {"ether"} ELSE {})

\* the command line: cobra refuses what it does not know, then xFinishParse
ParseArgs(c, k) ==
    CASE c = "abis" -> abisFinishParse(k)         [] c = "blocks" -> blocksFinishParse(k)
      [] c = "chunks" -> chunksFinishParse(k)     [] c = "config" -> configFinishParse(k)
      [] c = "daemon" -> daemonFinishParse(k)     [] c = "explore" -> exploreFinishParse(k)
      [] c = "export" -> exportFinishParse(k)     [] c = "init" -> initFinishParse(k)
      [] c = "list" -> listFinishParse(k)         [] c = "logs" -> logsFinishParse(k)
      [] c = "monitors" -> monitorsFinishParse(k) [] c = "names" -> namesFinishParse(k)
      [] c = "receipts" -> receiptsFinishParse(k) [] c = "scrape" -> scrapeFinishParse(k)
      [] c = "slurp" -> slurpFinishParse(k)       [] c = "state" -> stateFinishParse(k)
      [] c = "status" -> statusFinishParse(k)     [] c = "tokens" -> tokensFinishParse(k)
      [] c = "traces" -> tracesFinishParse(k)     [] c = "when" -> whenFinishParse(k)
      [] c = "transactions" -> transactionsFinishParse(k)

\* the API and the SDK: XFinishParseInternal
ParseKeys(c, k) ==
    CASE c = "abis" -> AbisFinishParseInternal(k)         [] c = "blocks" -> BlocksFinishParseInternal(k)
      [] c = "chunks" -> ChunksFinishParseInternal(k)     [] c = "config" -> ConfigFinishParseInternal(k)
      [] c = "daemon" -> DaemonFinishParseInternal(k)     [] c = "explore" -> ExploreFinishParseInternal(k)
      [] c = "export" -> ExportFinishParseInternal(k)     [] c = "init" -> InitFinishParseInternal(k)
      [] c = "list" -> ListFinishParseInternal(k)         [] c = "logs" -> LogsFinishParseInternal(k)
      [] c = "monitors" -> MonitorsFinishParseInternal(k) [] c = "names" -> NamesFinishParseInternal(k)
      [] c = "receipts" -> ReceiptsFinishParseInternal(k) [] c = "scrape" -> ScrapeFinishParseInternal(k)
      [] c = "slurp" -> SlurpFinishParseInternal(k)       [] c = "state" -> StateFinishParseInternal(k)
      [] c = "status" -> StatusFinishParseInternal(k)     [] c = "tokens" -> TokensFinishParseInternal(k)
      [] c = "traces" -> TracesFinishParseInternal(k)     [] c = "when" -> WhenFinishParseInternal(k)
      [] c = "transactions" -> TransactionsFinishParseInternal(k)

\* the options a validator and the handlers see
Sets(c, o) == CASE c = "export" -> validateExport_sets(o)
                [] c = "when" -> validateWhen_sets(o)
                [] OTHER -> o
Valid(c, o) ==
    CASE c = "abis" -> validateAbis(o)         [] c = "blocks" -> validateBlocks(o)
      [] c = "chunks" -> validateChunks(o)     [] c = "config" -> validateConfig(o)
      [] c = "daemon" -> validateDaemon(o)     [] c = "explore" -> validateExplore(o)
      [] c = "export" -> validateExport(o)     [] c = "init" -> validateInit(o)
      [] c = "list" -> validateList(o)         [] c = "logs" -> validateLogs(o)
      [] c = "monitors" -> validateMonitors(o) [] c = "names" -> validateNames(o)
      [] c = "receipts" -> validateReceipts(o) [] c = "scrape" -> validateScrape(o)
      [] c = "slurp" -> validateSlurp(o)       [] c = "state" -> validateState(o)
      [] c = "status" -> validateStatus(o)     [] c = "tokens" -> validateTokens(o)
      [] c = "traces" -> validateTraces(o)     [] c = "when" -> validateWhen(o)
      [] c = "transactions" -> validateTransactions(o)
Chain(c) ==
    CASE c = "abis" -> AbisInternal         [] c = "blocks" -> BlocksInternal
      [] c = "chunks" -> ChunksInternal     [] c = "config" -> ConfigInternal
      [] c = "daemon" -> DaemonInternal     [] c = "explore" -> ExploreInternal
      [] c = "export" -> ExportInternal     [] c = "init" -> InitInternal
      [] c = "list" -> ListInternal         [] c = "logs" -> LogsInternal
      [] c = "monitors" -> MonitorsInternal [] c = "names" -> NamesInternal
      [] c = "receipts" -> ReceiptsInternal [] c = "scrape" -> ScrapeInternal
      [] c = "slurp" -> SlurpInternal       [] c = "state" -> StateInternal
      [] c = "status" -> StatusInternal     [] c = "tokens" -> TokensInternal
      [] c = "traces" -> TracesInternal     [] c = "when" -> WhenInternal
      [] c = "transactions" -> TransactionsInternal

\* Run: RunWithFileSupport (init takes no file), cobra, then xFinishParse.
\* "BadFlag" stands for a refusal before the validator.
Run(c, k) ==
    IF k \subseteq Flags[c] \cup GlobalFlags(c) \cup Arguments(c) \cup Facts
       /\ ~(c = "init" /\ "file" \in k)
    THEN ParseArgs(c, k) ELSE {"BadFlag"}

\* the route DELETE /names wants one of these
DeleteName(o) == Has(o, {"delete", "undelete", "remove"})

\* Serve and the SDK's entry points: the keys of a url
Serve(c, via, k) ==
    LET o == FinishParseApi(ParseKeys(c, IF via = "sdk" THEN k ELSE k \cup {"api"}))
        turnedAway == \/ c = "monitors" /\ via # "sdk" /\ ~ServeMonitors(o, via)
                      \/ c = "names" /\ via = "DELETE" /\ ~DeleteName(o)
    IN  IF turnedAway THEN {"BadFlag"} ELSE o

Parsed(c, via, k) == Sets(c, IF via = "cli" THEN Run(c, k) ELSE Serve(c, via, k))

\* XInternal (and what RunNames and ServeNames do before it): what becomes of
\* parsed options: "refused", "panic", or the handler that is called
Outcome(c, o) ==
    IF c = "names" /\ LoadCrudDataIfNeeded(o) = "panic" THEN "panic"
    ELSE IF c = "names" /\ LoadCrudDataIfNeeded(o) = "refuse" THEN "refused"
    ELSE IF Valid(c, o) THEN FirstOf(Chain(c), o) ELSE "refused"

-----------------------------------------------------------------------------
Init ==
    /\ pc = [p \in Procs |-> "idle"] /\ cmd = [p \in Procs |-> ""] /\ job = [p \in Procs |-> NoJob]
    /\ inited = FALSE
    /\ pidfile = "none"
    /\ raced = FALSE

\* Only init and scrape look at what other requests leave behind, and only they
\* are interleaved.  The other commands are asked for, one at a time, while
\* nothing else is going on: they share nothing that is modelled here.
Shares(c) == c \in {"init", "scrape"}
Quiet == inited = FALSE /\ pidfile = "none" /\ \A p \in Procs : pc[p] = "idle"
MayAsk(c) == IF Shares(c) THEN \A p \in Procs : pc[p] # "idle" => Shares(cmd[p]) ELSE Quiet

To(p, step) == pc' = [pc EXCEPT ![p] = step] /\ UNCHANGED cmd
Stop(p) == /\ pc' = [pc EXCEPT ![p] = "idle"] /\ cmd' = [cmd EXCEPT ![p] = ""]
           /\ job' = [job EXCEPT ![p] = NoJob]

\* a request is put together, token by token ...
Ask(p, c) ==
    /\ pc[p] = "idle" /\ c \in DOMAIN Offered[p]
    /\ MayAsk(c)
    /\ pc' = [pc EXCEPT ![p] = "asking"] /\ cmd' = [cmd EXCEPT ![p] = c]
    /\ \E b \in Base[c] : job' = [job EXCEPT ![p].keys = b]
    /\ UNCHANGED shared

Add(p) ==
    LET keys == job[p].keys
    IN  /\ pc[p] = "asking"
        /\ \E t \in Offered[p][cmd[p]] \ keys, b \in Base[cmd[p]] :
              /\ b \subseteq keys /\ Cardinality(keys \ b) < MaxTokens
              /\ Cardinality((keys \cup {t}) \cap (ChunksModes \cup {"mode_show", "mode_edit"})) <= 1
              /\ ~({"json", "txt"} \subseteq keys \cup {t})
              /\ job' = [job EXCEPT ![p].keys = @ \cup {t}]
        /\ UNCHANGED <<pc, cmd, shared>>

\* ... and sent: the front parses it
Submit(p, via) ==
    /\ pc[p] = "asking"
    /\ via \in Methods => <<via, cmd[p]>> \in Routes
    /\ job' = [job EXCEPT ![p].via = via, ![p].opts = Parsed(cmd[p], via, job[p].keys)]
    /\ To(p, "parsed")
    /\ UNCHANGED shared

\* XInternal: validate, and call the handler; validateScrape goes on
Internal(p) ==
    LET opts == IF cmd[p] = "init" /\ inited THEN job[p].opts \cup {"inited"} ELSE job[p].opts
        does == Outcome(cmd[p], opts)
    IN  /\ pc[p] = "parsed"
        /\ job' = [job EXCEPT ![p].does = does, ![p].opts = opts]
        /\ To(p, IF does \in {"refused", "panic"} THEN does
                 ELSE IF cmd[p] = "scrape" THEN "pid_check" ELSE "running")
        /\ UNCHANGED shared

-----------------------------------------------------------------------------
(* the end of validateScrape: the pid file *)
Between == {"pid_remove", "pid_create", "pid_write"}
Overtaken(p) == \E q \in Procs \ {p} : pc[q] \in Between

\* [mutant] the living are not told from the dead
PidCheck_Bug(p) ==
    /\ pc[p] = "pid_check"
    /\ To(p, IF pidfile = "none" THEN "pid_create" ELSE "pid_remove")
    /\ raced' = (raced \/ Overtaken(p))
    /\ UNCHANGED <<job, inited, pidfile>>

\* the file exists and names a living process, or no pid at all: refused
PidCheck(p) ==
    /\ pc[p] = "pid_check"
    /\ To(p, IF pidfile = "none" THEN "pid_create"
             ELSE IF pidfile = "stale" THEN "pid_remove" ELSE "refused")
    /\ raced' = (raced \/ Overtaken(p))
    /\ UNCHANGED <<job, inited, pidfile>>

PidRemove(p) ==
    /\ pc[p] = "pid_remove"
    /\ pidfile' = "none" /\ To(p, "pid_create")
    /\ UNCHANGED <<job, inited, raced>>

\* StringToAsciiFile creates or empties the file, then writes it
PidCreate(p) ==
    /\ pc[p] = "pid_create"
    /\ pidfile' = "empty" /\ To(p, "pid_write")
    /\ UNCHANGED <<job, inited, raced>>

\* what Globals.Validate said before is returned only now
PidWrite(p) ==
    /\ pc[p] = "pid_write"
    /\ pidfile' = p
    /\ To(p, IF Globals_Validate(job[p].opts) THEN "running" ELSE "refused")
    /\ UNCHANGED <<job, inited, raced>>

\* a pid whose process has ended
Ended(p) == IF pidfile = p THEN "stale" ELSE pidfile

Scraping(p) == pc[p] = "running" /\ cmd[p] = "scrape" /\ job[p].does = "HandleShow"

\* the handler writes the history (HandleInit, before it downloads)
HandleInit(p) ==
    /\ pc[p] = "running" /\ cmd[p] = "init" /\ job[p].does = "HandleShow"
    /\ "all" \in job[p].opts /\ ~inited
    /\ inited' = TRUE
    /\ UNCHANGED <<pc, cmd, job, pidfile, raced>>

\* the handler ends: HandleScrape removes the pid file, whoever it names;
\* HandleTouch leaves it
Finish(p) ==
    /\ pc[p] \in {"running", "refused", "panic"}
    /\ Stop(p)
    /\ pidfile' = IF Scraping(p) THEN "none" ELSE Ended(p)
    /\ UNCHANGED <<inited, raced>>

\* a process that shares something is killed
Crash(p) ==
    /\ Shares(cmd[p]) /\ pc[p] \in Between \cup {"pid_check", "running"}
    /\ Stop(p)
    /\ pidfile' = Ended(p)
    /\ UNCHANGED <<inited, raced>>

\* another program gets the pid; the user removes the file, as the message says
Reuse == pidfile = "stale" /\ pidfile' = "reused" /\ UNCHANGED <<pc, cmd, job, inited, raced>>
UserRemoves ==
    /\ pidfile \in {"empty", "reused"} /\ \A p \in Procs : pc[p] \notin Between
    /\ pidfile' = "none" /\ UNCHANGED <<pc, cmd, job, inited, raced>>

Next ==
    \/ \E p \in Procs :
          \/ \E c \in Commands : Ask(p, c)
          \/ Add(p)
          \/ \E via \in Fronts : Submit(p, via)
          \/ Internal(p) \/ HandleInit(p)
          \/ PidCheck(p) \/ PidRemove(p) \/ PidCreate(p) \/ PidWrite(p)
          \/ Finish(p) \/ Crash(p)
    \/ Reuse \/ UserRemoves

Spec == Init /\ [][Next]_vars

-----------------------------------------------------------------------------
(* properties *)
\* Two scrapers never work on one index at a time (the pid file at the end of
\* validateScrape sees to it), unless one of them looked at the pid file while
\* another was between its own look and its write: killed scrapers, stale and
\* reused pids, and chifra scrape --touch, which leaves its pid, are no reason.
OnlyOneUnlessRaced ==
    \A p, q \in Procs : (p # q /\ Scraping(p) /\ Scraping(q)) => raced

\* where the fronts are known to part: a truncate of 0 is "not given" to cobra's
\* parser only, a topic among the arguments of the command line also fills Topic,
\* --txs is only known to the command line, and as keys fmt and names are let
\* through where they are no flags; chifra init takes no --file and chifra
\* monitors no --cache, cobra refuses an unknown flag before the terms of chifra
\* names are read, and the command line drops an argument that is no address, or
\* takes it for a block
KnownToPart(c, k) ==
    \/ c \in {"chunks", "when"} /\ "truncate0" \in k
    \/ c = "export" /\ ("txs" \in k \/ {"receipts", "topics"} \subseteq k)
    \/ c \in {"daemon", "init", "scrape"} /\ Has(k, {"json", "txt"})
    \/ c \in {"abis", "blocks", "export", "list", "logs", "monitors", "slurp", "state", "tokens",
              "traces", "transactions"} /\ "names" \in k
    \/ c = "init" /\ "file" \in k
    \/ c = "monitors" /\ "cache" \in k
    \/ c = "names" /\ Has(k, {"delete", "undelete", "remove"}) /\ Lacks(k, {"terms", "terms2"})
    \/ c = "state" /\ "bad_addr" \in k /\ Has(k, {"file", "send"})
    \/ c = "abis" /\ {"bad_addr", "proxyFor"} \subseteq k
    \/ c = "monitors" /\ "bad_addr" \in k /\ Has(k, {"list", "count", "file"})

\* The same options mean the same, whoever sends them: the flags of cmd/x.go
\* with xFinishParse, and the keys of XFinishParseInternal, lead through the one
\* validator to the same handler or the same refusal, but for KnownToPart.
FrontsAgree ==
    \A p \in Procs :
        LET c == cmd[p]
            Does(via) == Outcome(c, Parsed(c, via, job[p].keys))
        IN  (pc[p] = "asking" /\ ~KnownToPart(c, job[p].keys)) => Does("cli") = Does("sdk")

\* A request of the API never starts a scraper, a daemon or a browser, never
\* tags, truncates, pins or unpins chunks, never deletes a monitor but by
\* DELETE, and never reads or writes a file of the server's (--file, --output)
\* but in chifra list, whose validator does not ask Globals.Validate.
ApiKeepsOut ==
    \A p \in Procs :
        LET j == job[p]
        IN  (j.via \in Methods /\ pc[p] \in {"running", "pid_check"} \cup Between) =>
              /\ cmd[p] \notin {"scrape", "daemon", "explore"}
              /\ cmd[p] = "chunks" => j.does \notin {"HandleTag", "HandleTruncate", "HandlePin", "HandleUnpin"}
              /\ (cmd[p] = "monitors" /\ j.does = "HandleCrud") => j.via = "DELETE"
              /\ cmd[p] # "list" => Lacks(j.opts, {"file", "output"})

\* A request that asks to look (--count, --check, --list) is never answered by
\* changing what it looks at: the chains try the lookers first, or the validator
\* refuses the mix.  Known exceptions: --decache comes before everything, and
\* chifra monitors --clean before --list.
LookersChangeNothing ==
    \A p \in Procs :
        LET j == job[p]
        IN  (pc[p] = "running" /\ "decache" \notin j.opts) =>
              /\ (cmd[p] = "chunks" /\ Has(j.opts, {"count", "check", "list"})) =>
                    j.does \notin {"HandleTag", "HandleTruncate", "HandlePin", "HandleUnpin"}
              /\ (cmd[p] = "names" /\ "count" \in j.opts) =>
                    j.does \notin {"HandleAutoname", "HandleClean", "HandleCrud"}
              /\ (cmd[p] = "monitors" /\ "count" \in j.opts) => j.does \notin {"HandleClean", "HandleCrud"}
              /\ (cmd[p] = "monitors" /\ "list" \in j.opts) => j.does # "HandleCrud"
=============================================================================
