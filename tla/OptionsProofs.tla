--------------------------- MODULE OptionsProofs ----------------------------
(***************************************************************************)
(* Two scrapers only run together after a race on the pid file, for any    *)
(* number of processes, whatever options they are started with; the API    *)
(* does not get at what is the server's, and what only looks changes       *)
(* nothing, and the fronts understand options alike but for the partings   *)
(* that KnownToPart names, for any tokens a request may be put together    *)
(* from.  The model checker looks at two processes and at three tokens.    *)
(***************************************************************************)
EXTENDS Options, WellFoundedInduction, TLAPS

\* a scraper, or a toucher, that validateScrape has let through
Through(p) == pc[p] = "running" /\ cmd[p] = "scrape"

Places == {"idle", "asking", "parsed", "refused", "panic", "pid_check", "running"} \cup Between

TypeInv ==
    /\ pc \in [Procs -> Places]
    /\ cmd \in [Procs -> Commands \cup {""}]
    /\ raced \in BOOLEAN

\* As long as nobody raced, at most one process is between the check and the
\* write of the pid file, and while a scraper runs the file names it and nobody
\* is there at all.
PidInv ==
    ~raced =>
       /\ \A p, q \in Procs : (pc[p] \in Between /\ pc[q] \in Between) => p = q
       /\ \A p \in Procs : Through(p) => (pidfile = p /\ \A q \in Procs : pc[q] \notin Between)

OptionsInv == TypeInv /\ PidInv

-----------------------------------------------------------------------------
\* Nobody has the pid file at the start.
LEMMA InitPid == Init => OptionsInv
<1>. SUFFICES ASSUME Init PROVE OptionsInv
  OBVIOUS
<1>1. TypeInv
  BY DEF Init, TypeInv, Places
<1>2. ASSUME NEW p \in Procs PROVE pc[p] \notin Between /\ ~Through(p)
  BY DEF Init, Through, Between, Places
<1>. QED  BY <1>1, <1>2, Zenon DEF OptionsInv, PidInv

\* A step that only moves one process to somewhere outside the critical
\* section, and leaves the pid file alone, keeps the invariant.
LEMMA MoveKeepsPid ==
    ASSUME OptionsInv, NEW p \in Procs, NEW s \in Places, NEW c \in Commands \cup {""},
           pc' = [pc EXCEPT ![p] = s], cmd' = [cmd EXCEPT ![p] = c],
           s \notin Between, ~(s = "running" /\ c = "scrape"),
           UNCHANGED <<pidfile, raced>>
    PROVE  OptionsInv'
BY DEF OptionsInv, TypeInv, PidInv, Through

\* The front half of a request: it never touches the pid file.
LEMMA FrontKeepsPid ==
    ASSUME OptionsInv, NEW p \in Procs,
           \/ \E c \in Commands : Ask(p, c)
           \/ Add(p)
           \/ \E via \in Fronts : Submit(p, via)
           \/ Internal(p) \/ HandleInit(p)
    PROVE  OptionsInv'
<1>1. ASSUME NEW c \in Commands, Ask(p, c) PROVE OptionsInv'
  <2>1. "asking" \in Places \ Between
    BY DEF Places, Between
  <2>2. /\ pc' = [pc EXCEPT ![p] = "asking"] /\ cmd' = [cmd EXCEPT ![p] = c]
        /\ UNCHANGED <<pidfile, raced>>
    BY <1>1 DEF Ask, shared
  <2>. QED  BY <1>1, <2>1, <2>2, MoveKeepsPid
<1>2. ASSUME Add(p) PROVE OptionsInv'
  BY <1>2 DEF Add, shared, OptionsInv, TypeInv, PidInv, Through
<1>3. ASSUME NEW via \in Fronts, Submit(p, via) PROVE OptionsInv'
  <2>1. pc' = [pc EXCEPT ![p] = "parsed"] /\ cmd' = cmd /\ UNCHANGED <<pidfile, raced>>
    BY <1>3 DEF Submit, To, shared
  <2>. QED  BY <2>1 DEF OptionsInv, TypeInv, PidInv, Through, Between, Places
<1>4. ASSUME Internal(p) PROVE OptionsInv'
  <2>1. PICK s \in {"refused", "panic", "pid_check", "running"} :
           /\ pc' = [pc EXCEPT ![p] = s] /\ (s = "running" => cmd[p] # "scrape")
           /\ cmd' = cmd /\ UNCHANGED <<pidfile, raced>>
    BY <1>4, Zenon DEF Internal, To, shared
  <2>2. s \in Places /\ s \notin Between
    BY DEF Places, Between
  <2>3. cmd \in [Procs -> Commands \cup {""}] /\ cmd[p] \in Commands \cup {""}
    BY DEF OptionsInv, TypeInv
  <2>4. cmd' = [cmd EXCEPT ![p] = cmd[p]]
    BY <2>1, <2>3
  <2>. QED  BY <2>1, <2>2, <2>3, <2>4, MoveKeepsPid
<1>5. ASSUME HandleInit(p) PROVE OptionsInv'
  BY <1>5 DEF HandleInit, OptionsInv, TypeInv, PidInv, Through
<1>. QED  BY <1>1, <1>2, <1>3, <1>4, <1>5

\* validateScrape: whoever gets past the check without having raced found no
\* living owner in the file, so no scraper runs.
LEMMA PidFileKeepsPid ==
    ASSUME OptionsInv, NEW p \in Procs,
           PidCheck(p) \/ PidRemove(p) \/ PidCreate(p) \/ PidWrite(p)
    PROVE  OptionsInv'
<1>1. ASSUME PidCheck(p) PROVE OptionsInv'
  <2>1. PICK s \in {"pid_create", "pid_remove", "refused"} :
           /\ pc' = [pc EXCEPT ![p] = s]
           /\ s # "refused" => pidfile \in Nobody
    BY <1>1 DEF PidCheck, To, Nobody
  <2>2. cmd' = cmd /\ pidfile' = pidfile /\ pc[p] = "pid_check"
    BY <1>1 DEF PidCheck, To
  <2>3. TypeInv'
    BY <1>1, <2>1, <2>2 DEF PidCheck, OptionsInv, TypeInv, Places, Between
  <2>4. ASSUME ~raced' PROVE ~raced /\ \A q \in Procs \ {p} : pc[q] \notin Between
    BY <1>1, <2>4 DEF PidCheck, Overtaken, OptionsInv, TypeInv
  <2>5. ASSUME ~raced', s # "refused", NEW q \in Procs PROVE ~Through(q)
    BY <2>1, <2>4, <2>5, ProcsAssumption DEF OptionsInv, PidInv
  <2>6. PidInv'
    BY <2>1, <2>2, <2>4, <2>5 DEF OptionsInv, TypeInv, PidInv, Through, Between
  <2>. QED  BY <2>3, <2>6 DEF OptionsInv
<1>2. ASSUME PidRemove(p) PROVE OptionsInv'
  <2>1. /\ pc' = [pc EXCEPT ![p] = "pid_create"] /\ cmd' = cmd /\ raced' = raced
        /\ pc[p] \in Between
    BY <1>2 DEF PidRemove, To, Between
  <2>. QED  BY <2>1 DEF OptionsInv, TypeInv, PidInv, Through, Between, Places
<1>3. ASSUME PidCreate(p) PROVE OptionsInv'
  BY <1>3 DEF PidCreate, To, OptionsInv, TypeInv, PidInv, Through, Between, Places
<1>4. ASSUME PidWrite(p) PROVE OptionsInv'
  <2>1. PICK s \in {"running", "refused"} : pc' = [pc EXCEPT ![p] = s]
    BY <1>4, Zenon DEF PidWrite, To
  <2>. QED  BY <1>4, <2>1 DEF PidWrite, To, OptionsInv, TypeInv, PidInv, Through, Between, Places
<1>. QED  BY <1>1, <1>2, <1>3, <1>4

\* A process that ends or is killed takes only its own pid away.
LEMMA EndKeepsPid ==
    ASSUME OptionsInv, NEW p \in Procs, Finish(p) \/ Crash(p)
    PROVE  OptionsInv'
<1>1. pc' = [pc EXCEPT ![p] = "idle"] /\ cmd' = [cmd EXCEPT ![p] = ""] /\ raced' = raced
  BY DEF Finish, Crash, Stop
<1>2. ASSUME NEW q \in Procs, q # p, Through(q), ~raced PROVE pidfile' = q
  <2>1. pidfile = q /\ ~Through(p)
    BY <1>2 DEF OptionsInv, PidInv
  <2>2. ~Scraping(p)
    BY <2>1 DEF Scraping, Through
  <2>. QED  BY <1>2, <2>1, <2>2 DEF Finish, Crash, Ended
<1>. QED  BY <1>1, <1>2 DEF OptionsInv, TypeInv, PidInv, Through, Between, Places

\* A pid is reused, or the user clears the file, only when no scraper is named.
LEMMA OutsideKeepsPid ==
    ASSUME OptionsInv, Reuse \/ UserRemoves
    PROVE  OptionsInv'
BY ProcsAssumption DEF Reuse, UserRemoves, Nobody, OptionsInv, TypeInv, PidInv, Through

\* The invariant is inductive.
LEMMA NextPid == OptionsInv /\ [Next]_vars => OptionsInv'
<1>1. ASSUME OptionsInv, Next PROVE OptionsInv'
  BY <1>1, FrontKeepsPid, PidFileKeepsPid, EndKeepsPid, OutsideKeepsPid DEF Next
<1>2. ASSUME OptionsInv, UNCHANGED vars PROVE OptionsInv'
  BY <1>2 DEF vars, shared, OptionsInv, TypeInv, PidInv, Through
<1>. QED  BY <1>1, <1>2

\* chifra scrape: two scrapers never work on one index at a time unless one of
\* them checked the pid file while another was between its check and its write
\* (validateScrape), for any set of processes, any options, any crashes and any
\* reuse of pids.
THEOREM OneScraper == Spec => []OnlyOneUnlessRaced
<1>1. OptionsInv => OnlyOneUnlessRaced
  BY DEF OptionsInv, PidInv, Through, OnlyOneUnlessRaced, Scraping
<1>. QED  BY InitPid, NextPid, <1>1, PTL DEF Spec

-----------------------------------------------------------------------------
(* What a request may do, for any set of options: the run asks for three   *)
(* options at a time.                                                      *)

\* a request from the API is known as one, or was turned away
Marked(o) == "api" \in o \/ "BadFlag" \in o
Handled == {"running", "pid_check"} \cup Between

JobInv ==
    /\ DOMAIN job = Procs /\ \A p \in Procs : DOMAIN job[p] = {"via", "keys", "opts", "does"}
    /\ \A p \in Procs : pc[p] # "idle" => cmd[p] \in Commands
    /\ \A p \in Procs : pc[p] \in {"idle", "asking"} => job[p].via = ""
    /\ \A p \in Procs : job[p].via \in Methods =>
         /\ Marked(job[p].opts)
         /\ cmd[p] = "monitors" => "BadFlag" \in job[p].opts \/ ServeMonitors(job[p].opts, job[p].via)
    /\ \A p \in Procs : pc[p] \in Handled =>
         Valid(cmd[p], job[p].opts) /\ job[p].does = FirstOf(Chain(cmd[p]), job[p].opts)

\* A set of numbers of a chain has a least one.
LEMMA LeastIs ==
  ASSUME NEW S \in SUBSET Nat, S # {}
  PROVE  Min(S) \in S /\ \A i \in S : Min(S) <= i
<1> DEFINE R == OpToRel(<, Nat)
<1>1. PICK x \in S : \A y \in S : ~ (<<y, x>> \in R)
  <2> HIDE DEF R
  <2> QED BY NatLessThanWellFounded, WFMin DEF R
<1>2. \A y \in S : y \in Nat /\ x \in Nat /\ ~ (y < x)
  BY <1>1 DEF OpToRel
<1>3. x \in S /\ \A y \in S : x <= y
  BY <1>2
<1> HIDE DEF R
<1> QED BY <1>3 DEF Min

\* The handler is that of the first row that is asked for.
LEMMA FirstIs ==
  ASSUME NEW chain, DOMAIN chain \subseteq Nat, NEW o
  PROVE  \/ /\ FirstOf(chain, o) = "HandleShow"
            /\ \A i \in DOMAIN chain : Lacks(o, chain[i][1])
         \/ \E i \in DOMAIN chain :
              /\ FirstOf(chain, o) = chain[i][2] /\ Has(o, chain[i][1])
              /\ \A j \in DOMAIN chain : j < i => Lacks(o, chain[j][1])
<1> DEFINE hits == {i \in DOMAIN chain : Has(o, chain[i][1])}
<1>1. FirstOf(chain, o) = IF hits = {} THEN "HandleShow" ELSE chain[Min(hits)][2]
  BY DEF FirstOf
<1>2. CASE hits = {}
  BY <1>1, <1>2 DEF Has, Lacks
<1>3. CASE hits # {}
  <2>1. Min(hits) \in hits /\ \A i \in hits : Min(hits) <= i
    <3>1. hits \in SUBSET Nat
      OBVIOUS
    <3> HIDE DEF hits
    <3> QED BY <1>3, <3>1, LeastIs
  <2>2. \A j \in DOMAIN chain : j < Min(hits) => Lacks(o, chain[j][1])
    <3> SUFFICES ASSUME NEW j \in DOMAIN chain, j < Min(hits) PROVE Lacks(o, chain[j][1])
      OBVIOUS
    <3> HIDE DEF Min
    <3>1. j \notin hits
      BY <2>1
    <3> QED BY <3>1 DEF Has, Lacks
  <2> QED BY <1>1, <1>3, <2>1, <2>2
<1> QED BY <1>2, <1>3

\* Serve marks what comes through the API.
LEMMA ServeMarks ==
  ASSUME NEW c \in Commands, NEW via \in Methods, NEW k
  PROVE  /\ Marked(Parsed(c, via, k))
         /\ c = "monitors" => \/ "BadFlag" \in Parsed(c, via, k)
                              \/ ServeMonitors(Parsed(c, via, k), via)
<1> DEFINE key == k \cup {"api"}
           o == FinishParseApi(ParseKeys(c, key))
<1>0. via # "cli" /\ via # "sdk"
  BY DEF Methods
<1>1. \A mine, caps : "api" \in FromKeys(key, mine, caps)
  BY DEF FromKeys, Facts
<1> HIDE DEF key
<1>2. "api" \in ParseKeys(c, key)
  BY <1>1 DEF Commands, ParseKeys, AbisFinishParseInternal, BlocksFinishParseInternal,
      ChunksFinishParseInternal, ConfigFinishParseInternal, DaemonFinishParseInternal,
      ExploreFinishParseInternal, ExportFinishParseInternal, InitFinishParseInternal,
      ListFinishParseInternal, LogsFinishParseInternal, MonitorsFinishParseInternal,
      NamesFinishParseInternal, ReceiptsFinishParseInternal, ScrapeFinishParseInternal,
      SlurpFinishParseInternal, StateFinishParseInternal, StatusFinishParseInternal,
      TokensFinishParseInternal, TokensFill, TracesFinishParseInternal, TransactionsFinishParseInternal,
      WhenFinishParseInternal
<1>3. "api" \in o
  BY <1>2 DEF FinishParseApi
<1>4. /\ Serve(c, via, k) \in {{"BadFlag"}, o}
      /\ c = "monitors" => Serve(c, via, k) = {"BadFlag"} \/ (Serve(c, via, k) = o /\ ServeMonitors(o, via))
  BY <1>0 DEF Serve, key
<1> HIDE DEF o
<1>5. Parsed(c, via, k) = Sets(c, Serve(c, via, k))
  BY <1>0 DEF Parsed
<1>6. \A s : s \subseteq Sets(c, s) /\ (c = "monitors" => Sets(c, s) = s)
  BY DEF Sets, validateExport_sets, validateWhen_sets, Commands
<1> QED BY <1>3, <1>4, <1>5, <1>6 DEF Marked

\* The rest of a request keeps what its front has made of it.
LEMMA JobStep ==
  ASSUME TypeInv, JobInv, [Next]_vars
  PROVE  JobInv'
<1>0. /\ DOMAIN job = Procs /\ \A p \in Procs : DOMAIN job[p] = {"via", "keys", "opts", "does"}
      /\ pc \in [Procs -> Places] /\ cmd \in [Procs -> Commands \cup {""}]
  BY DEF JobInv, TypeInv
<1>1. ASSUME NEW p \in Procs, NEW c \in Commands, Ask(p, c) PROVE JobInv'
  <2>1. PICK b \in Base[c] : job' = [job EXCEPT ![p].keys = b]
    BY <1>1 DEF Ask
  <2>2. /\ pc[p] = "idle" /\ pc' = [pc EXCEPT ![p] = "asking"] /\ cmd' = [cmd EXCEPT ![p] = c]
    BY <1>1 DEF Ask
  <2>3. /\ DOMAIN job' = Procs /\ \A q \in Procs : q # p => job'[q] = job[q]
        /\ DOMAIN job'[p] = {"via", "keys", "opts", "does"} /\ job'[p].via = job[p].via
    BY <1>0, <2>1
  <2>4. job[p].via = "" /\ "" \notin Methods
    BY <2>2 DEF JobInv, Methods
  <2> QED BY <1>0, <2>2, <2>3, <2>4 DEF JobInv, Handled, Between
<1>2. ASSUME NEW p \in Procs, Add(p) PROVE JobInv'
  <2>1. PICK t : job' = [job EXCEPT ![p].keys = job[p].keys \cup {t}]
    BY <1>2 DEF Add
  <2>2. pc' = pc /\ cmd' = cmd /\ pc[p] = "asking"
    BY <1>2 DEF Add
  <2>3. /\ DOMAIN job' = Procs /\ \A q \in Procs : q # p => job'[q] = job[q]
        /\ DOMAIN job'[p] = {"via", "keys", "opts", "does"} /\ job'[p].via = job[p].via
    BY <1>0, <2>1
  <2>4. job[p].via = "" /\ "" \notin Methods
    BY <2>2 DEF JobInv, Methods
  <2> QED BY <1>0, <2>2, <2>3, <2>4 DEF JobInv, Handled, Between
<1>3. ASSUME NEW p \in Procs, NEW via \in Fronts, Submit(p, via) PROVE JobInv'
  <2>1. /\ job' = [job EXCEPT ![p].via = via, ![p].opts = Parsed(cmd[p], via, job[p].keys)]
        /\ pc' = [pc EXCEPT ![p] = "parsed"] /\ cmd' = cmd
        /\ via \in Methods => <<via, cmd[p]>> \in Routes
    BY <1>3 DEF Submit, To
  <2>2. via \in Methods => cmd[p] \in Commands
    BY <2>1 DEF Routes, Commands
  <2>3. PICK o : o = Parsed(cmd[p], via, job[p].keys)
    OBVIOUS
  <2>4. via \in Methods => Marked(o) /\ (cmd[p] = "monitors" => "BadFlag" \in o \/ ServeMonitors(o, via))
    BY <2>2, <2>3, ServeMarks
  <2>5. /\ DOMAIN job' = Procs /\ \A q \in Procs : q # p => job'[q] = job[q]
        /\ DOMAIN job'[p] = {"via", "keys", "opts", "does"} /\ job'[p].via = via /\ job'[p].opts = o
    BY <1>0, <2>1, <2>3
  <2>6. pc[p] = "asking" /\ cmd[p] \in Commands
    BY <1>3 DEF Submit, JobInv
  <2> QED BY <1>0, <2>1, <2>4, <2>5, <2>6 DEF JobInv, Handled, Between
<1>4. ASSUME NEW p \in Procs, Internal(p) PROVE JobInv'
  <2> DEFINE opts == IF cmd[p] = "init" /\ inited THEN job[p].opts \cup {"inited"} ELSE job[p].opts
             does == Outcome(cmd[p], opts)
  <2>1. /\ pc[p] = "parsed" /\ cmd' = cmd
        /\ job' = [job EXCEPT ![p].does = does, ![p].opts = opts]
        /\ pc' = [pc EXCEPT ![p] = IF does \in {"refused", "panic"} THEN does
                                   ELSE IF cmd[p] = "scrape" THEN "pid_check" ELSE "running"]
    BY <1>4 DEF Internal, To
  <2>2. PICK o : o = opts
    OBVIOUS
  <2>3. PICK d : d = Outcome(cmd[p], o)
    OBVIOUS
  <2>4. /\ DOMAIN job' = Procs /\ \A q \in Procs : q # p => job'[q] = job[q]
        /\ DOMAIN job'[p] = {"via", "keys", "opts", "does"} /\ job'[p].via = job[p].via
        /\ job'[p].opts = o /\ job'[p].does = d
    BY <1>0, <2>1, <2>2, <2>3
  <2>5. job[p].opts \subseteq o /\ (cmd[p] = "monitors" => o = job[p].opts)
    BY <2>2
  <2>6. d \notin {"refused", "panic"} => Valid(cmd[p], o) /\ d = FirstOf(Chain(cmd[p]), o)
    BY <2>3 DEF Outcome
  <2>7. PICK s : /\ pc' = [pc EXCEPT ![p] = s] /\ s \notin {"idle", "asking"}
                 /\ s \in Handled => d \notin {"refused", "panic"}
    <3> DEFINE s == IF d \in {"refused", "panic"} THEN d
                    ELSE IF cmd[p] = "scrape" THEN "pid_check" ELSE "running"
    <3>1. pc' = [pc EXCEPT ![p] = s]
      BY <2>1, <2>2, <2>3
    <3>2. s \in {"refused", "panic", "pid_check", "running"}
          /\ (d \in {"refused", "panic"} => s \in {"refused", "panic"})
      OBVIOUS
    <3> HIDE DEF s
    <3>3. s \notin {"idle", "asking"} /\ (s \in Handled => d \notin {"refused", "panic"})
      BY <3>2 DEF Handled, Between
    <3> QED BY <3>1, <3>3
  <2> HIDE DEF opts, does
  <2>8. \A q \in Procs : pc'[q] \in {"idle", "asking"} => job'[q].via = ""
    BY <1>0, <2>4, <2>7 DEF JobInv
  <2>9. \A q \in Procs : job'[q].via \in Methods =>
          /\ Marked(job'[q].opts)
          /\ cmd[q] = "monitors" => "BadFlag" \in job'[q].opts \/ ServeMonitors(job'[q].opts, job'[q].via)
    BY <2>4, <2>5 DEF JobInv, Marked
  <2>10. \A q \in Procs : pc'[q] \in Handled =>
          Valid(cmd[q], job'[q].opts) /\ job'[q].does = FirstOf(Chain(cmd[q]), job'[q].opts)
    BY <1>0, <2>4, <2>6, <2>7 DEF JobInv
  <2>11. DOMAIN job' = Procs /\ \A q \in Procs : DOMAIN job'[q] = {"via", "keys", "opts", "does"}
    BY <1>0, <2>4
  <2>12. \A q \in Procs : pc'[q] # "idle" => cmd[q] \in Commands
    BY <1>0, <2>1, <2>7 DEF JobInv
  <2> QED BY <2>1, <2>8, <2>9, <2>10, <2>11, <2>12 DEF JobInv
<1>5. ASSUME NEW p \in Procs, PidCheck(p) \/ PidRemove(p) \/ PidCreate(p) \/ PidWrite(p)
      PROVE  JobInv'
  <2>1. PICK s : pc' = [pc EXCEPT ![p] = s] /\ s \notin {"idle", "asking"}
    BY <1>5, Zenon DEF PidCheck, PidRemove, PidCreate, PidWrite, To
  <2>2. pc[p] \in Handled /\ pc[p] # "idle" /\ cmd' = cmd /\ job' = job
    BY <1>5 DEF PidCheck, PidRemove, PidCreate, PidWrite, To, Handled, Between
  <2> QED BY <1>0, <2>1, <2>2 DEF JobInv
<1>6. ASSUME NEW p \in Procs, Finish(p) \/ Crash(p) PROVE JobInv'
  <2>1. /\ pc' = [pc EXCEPT ![p] = "idle"] /\ cmd' = [cmd EXCEPT ![p] = ""]
        /\ job' = [job EXCEPT ![p] = NoJob]
    BY <1>6 DEF Finish, Crash, Stop
  <2>2. DOMAIN NoJob = {"via", "keys", "opts", "does"} /\ NoJob.via = ""
    BY DEF NoJob
  <2>3. "" \notin Methods /\ "idle" \notin Handled
    BY DEF Methods, Handled, Between
  <2> HIDE DEF NoJob
  <2> QED BY <1>0, <2>1, <2>2, <2>3 DEF JobInv
<1>7. ASSUME Reuse \/ UserRemoves \/ UNCHANGED vars \/ \E p \in Procs : HandleInit(p) PROVE JobInv'
  <2>1. UNCHANGED <<pc, cmd, job>>
    BY <1>7 DEF Reuse, UserRemoves, vars, HandleInit
  <2> QED BY <2>1 DEF JobInv
<1> QED BY <1>1, <1>2, <1>3, <1>4, <1>5, <1>6, <1>7 DEF Next

\* Nothing has been asked at the start, so the invariant holds from the start on.
LEMMA JobAlways == Spec => [](TypeInv /\ JobInv)
<1>1. Init => JobInv
  <2> SUFFICES ASSUME Init PROVE JobInv
    OBVIOUS
  <2>1. DOMAIN NoJob = {"via", "keys", "opts", "does"} /\ NoJob.via = "" /\ "" \notin Methods
    BY DEF NoJob, Methods
  <2>2. "idle" \notin Handled
    BY DEF Handled, Between
  <2>3. \A p \in Procs : pc[p] = "idle" /\ job[p] = NoJob
    BY DEF Init
  <2>4. DOMAIN job = Procs
    BY DEF Init
  <2> HIDE DEF NoJob, Init
  <2> QED BY <2>1, <2>2, <2>3, <2>4 DEF JobInv
<1>2. OptionsInv /\ JobInv /\ [Next]_vars => (OptionsInv /\ JobInv)'
  BY NextPid, JobStep DEF OptionsInv
<1>3. Init => OptionsInv /\ JobInv
  BY InitPid, <1>1
<1>4. OptionsInv => TypeInv
  BY DEF OptionsInv
<1> QED BY <1>2, <1>3, <1>4, PTL DEF Spec

\* No validator lets a parse through that was refused: what comes from the API
\* and is validated is marked as the API's.
LEMMA ValidReady ==
  ASSUME NEW c \in Commands, NEW o, Valid(c, o)
  PROVE  "BadFlag" \notin o
BY DEF Commands, Valid, Ready, Lacks, validateAbis, validateBlocks, validateChunks, validateConfig,
    validateDaemon, validateExplore, validateExport, validateInit, validateList, validateLogs,
    validateMonitors, validateNames, validateReceipts, validateScrape, validateSlurp, validateState,
    validateStatus, validateTokens, validateTraces, validateTransactions, validateWhen

\* Every validator but those of list and scrape asks Globals.Validate.
LEMMA ValidGlobals ==
  ASSUME NEW c \in Commands \ {"list", "scrape"}, NEW o, Valid(c, o)
  PROVE  Globals_Validate(o)
BY DEF Commands, Valid, validateAbis, validateBlocks, validateChunks, validateConfig,
    validateDaemon, validateExplore, validateExport, validateInit, validateLogs,
    validateMonitors, validateNames, validateReceipts, validateSlurp, validateState,
    validateStatus, validateTokens, validateTraces, validateTransactions, validateWhen

\* The rows of the chains that change something.
LEMMA ChunksRows ==
  ASSUME NEW o, FirstOf(ChunksInternal, o) \in {"HandleTag", "HandleTruncate", "HandlePin", "HandleUnpin"}
  PROVE  /\ Lacks(o, {"count", "check", "list"})
         /\ Has(o, {"tag", "pin", "unpin"} \cup Truncates)
<1>1. DOMAIN ChunksInternal = 1..9 /\ 1..9 \subseteq Nat
  BY DEF ChunksInternal
<1>2. PICK i \in 1..9 : /\ FirstOf(ChunksInternal, o) = ChunksInternal[i][2]
                        /\ Has(o, ChunksInternal[i][1])
                        /\ \A j \in 1..9 : j < i => Lacks(o, ChunksInternal[j][1])
  BY <1>1, FirstIs
<1>3. i \notin {1, 2, 3, 6, 8}
  BY <1>2 DEF ChunksInternal
<1>4. Lacks(o, {"count"}) /\ Lacks(o, {"check"}) /\ Lacks(o, {"list"})
  BY <1>2, <1>3 DEF ChunksInternal
<1>5. Has(o, {"tag"}) \/ Has(o, {"pin"}) \/ Has(o, {"unpin"}) \/ Has(o, Truncates)
  BY <1>2, <1>3 DEF ChunksInternal
<1> QED BY <1>4, <1>5 DEF Has, Lacks

\* chifra monitors edits (clean, delete, remove) only below decache, count and list.
LEMMA MonitorsRows ==
  ASSUME NEW o, FirstOf(MonitorsInternal, o) \in {"HandleClean", "HandleCrud"}
  PROVE  /\ Lacks(o, {"decache", "count"})
         /\ FirstOf(MonitorsInternal, o) = "HandleCrud" =>
              "list" \notin o /\ Has(o, {"delete", "undelete", "remove"})
<1>1. DOMAIN MonitorsInternal = 1..5 /\ 1..5 \subseteq Nat
  BY DEF MonitorsInternal
<1>2. PICK i \in 1..5 : /\ FirstOf(MonitorsInternal, o) = MonitorsInternal[i][2]
                        /\ Has(o, MonitorsInternal[i][1])
                        /\ \A j \in 1..5 : j < i => Lacks(o, MonitorsInternal[j][1])
  BY <1>1, FirstIs
<1>3. i \in {3, 5} /\ (FirstOf(MonitorsInternal, o) = "HandleCrud" => i = 5)
  BY <1>2 DEF MonitorsInternal
<1>4. Lacks(o, {"decache"}) /\ Lacks(o, {"count"}) /\ (i = 5 => Lacks(o, {"list"}))
  BY <1>2, <1>3 DEF MonitorsInternal
<1>5. i = 5 => Has(o, {"delete", "undelete", "remove"})
  BY <1>2 DEF MonitorsInternal
<1> QED BY <1>3, <1>4, <1>5 DEF Has, Lacks

\* chifra names edits (autoname, clean, create) only below count.
LEMMA NamesRows ==
  ASSUME NEW o, FirstOf(NamesInternal, o) \in {"HandleAutoname", "HandleClean", "HandleCrud"}
  PROVE  "count" \notin o
<1>1. DOMAIN NamesInternal = 1..5 /\ 1..5 \subseteq Nat
  BY DEF NamesInternal
<1>2. PICK i \in 1..5 : /\ FirstOf(NamesInternal, o) = NamesInternal[i][2]
                        /\ \A j \in 1..5 : j < i => Lacks(o, NamesInternal[j][1])
  BY <1>1, FirstIs
<1>3. i # 1
  BY <1>2 DEF NamesInternal
<1>4. Lacks(o, {"count"})
  BY <1>2, <1>3 DEF NamesInternal
<1> QED BY <1>4 DEF Lacks

\* Serve, the validators and the chains: a request of the API starts no
\* scraper, daemon or browser, changes no chunk, deletes a monitor by DELETE
\* only, and names no file of the server's but in chifra list, for any number of
\* options and of requests at once.
THEOREM ApiOut == Spec => []ApiKeepsOut
<1>1. TypeInv /\ JobInv => ApiKeepsOut
  <2> SUFFICES ASSUME TypeInv, JobInv, NEW p \in Procs, job[p].via \in Methods, pc[p] \in Handled
        PROVE  /\ cmd[p] \notin {"scrape", "daemon", "explore"}
               /\ cmd[p] = "chunks" =>
                    job[p].does \notin {"HandleTag", "HandleTruncate", "HandlePin", "HandleUnpin"}
               /\ (cmd[p] = "monitors" /\ job[p].does = "HandleCrud") => job[p].via = "DELETE"
               /\ cmd[p] # "list" => Lacks(job[p].opts, {"file", "output"})
    BY DEF ApiKeepsOut, Handled
  <2>1. PICK o, c : o = job[p].opts /\ c = cmd[p] /\ c \in Commands
    <3>1. pc[p] # "idle"
      BY DEF Handled, Between
    <3> QED BY <3>1 DEF JobInv
  <2>2. Valid(c, o) /\ job[p].does = FirstOf(Chain(c), o)
    BY <2>1 DEF JobInv
  <2>3. "BadFlag" \notin o
    BY <2>1, <2>2, ValidReady
  <2>4. "api" \in o /\ (c = "monitors" => ServeMonitors(o, job[p].via))
    BY <2>1, <2>3 DEF JobInv, Marked
  <2>5. c \notin {"scrape", "daemon", "explore"}
    BY <2>2, <2>4 DEF Valid, validateScrape, validateDaemon, validateExplore, Lacks
  <2>6. c # "list" => Lacks(o, {"file", "output"})
    BY <2>1, <2>2, <2>4, <2>5, ValidGlobals DEF Globals_Validate, Lacks
  <2>7. ASSUME c = "chunks"
        PROVE  job[p].does \notin {"HandleTag", "HandleTruncate", "HandlePin", "HandleUnpin"}
    <3>1. validateChunks(o) /\ job[p].does = FirstOf(ChunksInternal, o)
      BY <2>2, <2>7 DEF Valid, Chain
    <3>2. Lacks(o, {"tag", "pin", "unpin"} \cup Truncates)
      BY <2>4, <3>1 DEF validateChunks, isDisallowed, Lacks, Has
    <3> QED BY <3>1, <3>2, ChunksRows DEF Has, Lacks
  <2>8. ASSUME c = "monitors", job[p].does = "HandleCrud" PROVE job[p].via = "DELETE"
    <3>1. job[p].does = FirstOf(MonitorsInternal, o)
      BY <2>2, <2>8 DEF Chain
    <3>2. Has(o, {"delete", "undelete", "remove"})
      BY <2>8, <3>1, MonitorsRows
    <3>3. (job[p].via = "DELETE") = Has(o, {"delete", "undelete", "remove"})
      BY <2>4, <2>8 DEF ServeMonitors
    <3> QED BY <3>2, <3>3, Zenon
  <2> QED BY <2>1, <2>5, <2>6, <2>7, <2>8
<1> QED BY <1>1, JobAlways, PTL

\* The chains of chunks, names and monitors: whoever asks to look is answered
\* by looking, for any number of options; --decache, and --clean with --list,
\* are the exceptions that the property names.
THEOREM LookersLook == Spec => []LookersChangeNothing
<1>1. TypeInv /\ JobInv => LookersChangeNothing
  <2> SUFFICES ASSUME TypeInv, JobInv, NEW p \in Procs, pc[p] = "running"
        PROVE  /\ (cmd[p] = "chunks" /\ Has(job[p].opts, {"count", "check", "list"})) =>
                     job[p].does \notin {"HandleTag", "HandleTruncate", "HandlePin", "HandleUnpin"}
               /\ (cmd[p] = "names" /\ "count" \in job[p].opts) =>
                     job[p].does \notin {"HandleAutoname", "HandleClean", "HandleCrud"}
               /\ (cmd[p] = "monitors" /\ "count" \in job[p].opts) =>
                     job[p].does \notin {"HandleClean", "HandleCrud"}
               /\ (cmd[p] = "monitors" /\ "list" \in job[p].opts) => job[p].does # "HandleCrud"
    BY DEF LookersChangeNothing
  <2>1. job[p].does = FirstOf(Chain(cmd[p]), job[p].opts)
    BY DEF JobInv, Handled
  <2>2. /\ cmd[p] = "chunks" => Chain(cmd[p]) = ChunksInternal
        /\ cmd[p] = "names" => Chain(cmd[p]) = NamesInternal
        /\ cmd[p] = "monitors" => Chain(cmd[p]) = MonitorsInternal
    BY DEF Chain
  <2>3. cmd[p] = "chunks" /\ Has(job[p].opts, {"count", "check", "list"}) =>
          job[p].does \notin {"HandleTag", "HandleTruncate", "HandlePin", "HandleUnpin"}
    BY <2>1, <2>2, ChunksRows DEF Has, Lacks
  <2>4. cmd[p] = "names" /\ "count" \in job[p].opts =>
          job[p].does \notin {"HandleAutoname", "HandleClean", "HandleCrud"}
    BY <2>1, <2>2, NamesRows
  <2>5. cmd[p] = "monitors" => /\ "count" \in job[p].opts => job[p].does \notin {"HandleClean", "HandleCrud"}
                               /\ "list" \in job[p].opts => job[p].does # "HandleCrud"
    BY <2>1, <2>2, MonitorsRows DEF Lacks
  <2> QED BY <2>3, <2>4, <2>5
<1> QED BY <1>1, JobAlways, PTL

-----------------------------------------------------------------------------
(* The fronts agree.  A validator and a chain look at the formats of a     *)
(* request nowhere but in chifra chunks --belongs and chifra daemon.       *)

Formats == {"json", "txt"}
Alike(o, r) == \A t : t \notin Formats => (t \in o) = (t \in r)

\* A set of options without formats is met by both or by none.
LEMMA AlikeSets ==
  ASSUME NEW o, NEW r, Alike(o, r), NEW S, S \cap Formats = {}
  PROVE  /\ o \cap S = r \cap S
         /\ Has(o, S) = Has(r, S) /\ Lacks(o, S) = Lacks(r, S)
         /\ (S \subseteq o) = (S \subseteq r)
<1>1. \A t : t \in S => (t \in o) = (t \in r)
  BY DEF Alike
<1>2. o \cap S = r \cap S /\ (S \subseteq o) = (S \subseteq r)
  BY <1>1
<1> QED BY <1>2 DEF Has, Lacks

\* The validators do not ask for the formats.
LEMMA ValidAlike ==
  ASSUME NEW c \in Commands \ {"chunks"}, NEW o, NEW r, Alike(o, r), Valid(c, o)
  PROVE  Valid(c, r)
<1>1. Ready(o) => Ready(r)
  BY DEF Alike, Formats, Ready, Lacks
<1>2. Globals_Validate(o) => Globals_Validate(r)
  BY DEF Alike, Formats, Globals_Validate, Lacks
<1>3. \A ids : ids \notin Formats => Identifiers(o, ids) = Identifiers(r, ids)
  BY DEF Alike, Formats, Identifiers
<1>4. AtLeastOneAddr(o) = AtLeastOneAddr(r)
  BY DEF Alike, Formats, AtLeastOneAddr, Has
<1>5. ArticulationKey(o) = ArticulationKey(r) /\ Publisher(o) = Publisher(r)
  BY DEF Alike, Formats, ArticulationKey, Publisher
<1> USE <1>1, <1>2, <1>3, <1>4, <1>5
<1> HIDE DEF Ready, Globals_Validate, Identifiers, AtLeastOneAddr, ArticulationKey, Publisher
<1>6. CASE c = "abis"
  BY <1>6 DEF Alike, Formats, Has, Lacks, Valid, validateAbis
<1>7. CASE c = "blocks"
  <2>1. Blocks_tooMany(o) = Blocks_tooMany(r)
    BY AlikeSets DEF Alike, Formats, Blocks_tooMany
  <2> QED BY <1>7, <2>1 DEF Alike, Formats, Has, Lacks, Valid, validateBlocks
<1>8. CASE c = "config"
  BY <1>8 DEF Alike, Formats, Has, Lacks, Valid, validateConfig
<1>9. CASE c = "daemon"
  BY <1>9 DEF Alike, Formats, Has, Lacks, Valid, validateDaemon
<1>10. CASE c = "explore"
  BY <1>10 DEF Alike, Formats, Has, Lacks, Valid, validateExplore
<1>11. CASE c = "export"
  <2>1. Export_tooMany(o) = Export_tooMany(r)
    <3>1. ToSet(ExportModes) \cap Formats = {}
      BY DEF ToSet, ExportModes, Formats
    <3>2. o \cap ToSet(ExportModes) = r \cap ToSet(ExportModes)
      BY <3>1, AlikeSets
    <3> QED BY <3>2, Zenon DEF Export_tooMany
  <2>2. IsAccounting(o) = IsAccounting(r)
    BY DEF Alike, Formats, IsAccounting, Has
  <2>3. o \cap {"statements", "transfers", "assets"} = r \cap {"statements", "transfers", "assets"}
    BY DEF Alike, Formats
  <2> HIDE DEF Export_tooMany, IsAccounting
  <2> QED BY <1>11, <2>1, <2>2, <2>3 DEF Alike, Formats, Has, Lacks, Valid, validateExport
<1>12. CASE c = "init"
  BY <1>12 DEF Alike, Formats, Has, Lacks, Valid, validateInit
<1>13. CASE c = "list"
  BY <1>13 DEF Alike, Formats, Has, Lacks, Valid, validateList
<1>14. CASE c = "logs"
  BY <1>14 DEF Alike, Formats, Has, Lacks, Valid, validateLogs
<1>15. CASE c = "monitors"
  BY <1>15 DEF Alike, Formats, Has, Lacks, Valid, validateMonitors
<1>16. CASE c = "names"
  BY <1>16 DEF Alike, Formats, Has, Lacks, Valid, validateNames, NamesCrud
<1>17. CASE c = "receipts"
  BY <1>17 DEF Alike, Formats, Has, Lacks, Valid, validateReceipts
<1>18. CASE c = "scrape"
  BY <1>18 DEF Alike, Formats, Has, Lacks, Valid, validateScrape
<1>19. CASE c = "slurp"
  BY <1>19 DEF Alike, Formats, Has, Lacks, Valid, validateSlurp
<1>20. CASE c = "state"
  BY <1>20 DEF Alike, Formats, Has, Lacks, Valid, validateState, checkCommands
<1>21. CASE c = "status"
  BY <1>21 DEF Alike, Formats, Has, Lacks, Valid, validateStatus
<1>22. CASE c = "tokens"
  BY <1>22 DEF Alike, Formats, Has, Lacks, Valid, validateTokens
<1>23. CASE c = "traces"
  BY <1>23 DEF Alike, Formats, Has, Lacks, Valid, validateTraces
<1>24. CASE c = "transactions"
  BY <1>24 DEF Alike, Formats, Has, Lacks, Valid, validateTransactions
<1>25. CASE c = "when"
  BY <1>25 DEF Alike, Formats, Has, Lacks, Valid, validateWhen, Truncates
<1> QED BY <1>6, <1>7, <1>8, <1>9, <1>10, <1>11, <1>12, <1>13, <1>14, <1>15, <1>16, <1>17, <1>18,
           <1>19, <1>20, <1>21, <1>22, <1>23, <1>24, <1>25 DEF Commands

\* Two sets of options that meet the same rows of a chain lead to the same handler.
LEMMA SameRows ==
  ASSUME NEW chain, NEW o, NEW r,
         \A i \in DOMAIN chain : Has(o, chain[i][1]) <=> Has(r, chain[i][1])
  PROVE  FirstOf(chain, o) = FirstOf(chain, r)
<1>1. {i \in DOMAIN chain : Has(o, chain[i][1])} = {i \in DOMAIN chain : Has(r, chain[i][1])}
  OBVIOUS
<1> QED BY <1>1, Zenon DEF FirstOf

\* What the rows of the chains ask for: no format (but chifra daemon's), nothing
\* that comes with an argument, and nothing a parser adds on the way but the parts of
\* chifra tokens.
NotInRows == Formats \cup {"addrs", "addrs2", "blocks", "bad_ids", "latest"}

LEMMA RowsAsk ==
  ASSUME NEW c \in Commands \ {"daemon"}
  PROVE  \A i \in DOMAIN Chain(c) : Chain(c)[i][1] \cap NotInRows = {}
<1> USE DEF NotInRows, Formats
<1>1. CASE c \in {"abis", "blocks"}
  BY <1>1 DEF Chain, AbisInternal, BlocksInternal
<1>2. CASE c = "chunks"
  BY <1>2 DEF Chain, ChunksInternal, Truncates
<1>3. CASE c \in {"config", "explore", "init", "list", "logs"}
  BY <1>3 DEF Chain, ConfigInternal, ExploreInternal, InitInternal, ListInternal, LogsInternal
<1>4. CASE c = "export"
  BY <1>4 DEF Chain, ExportInternal
<1>5. CASE c \in {"monitors", "names"}
  BY <1>5 DEF Chain, MonitorsInternal, NamesInternal, NamesCrud
<1>6. CASE c \in {"receipts", "scrape", "slurp", "state", "status"}
  BY <1>6 DEF Chain, ReceiptsInternal, ScrapeInternal, SlurpInternal, StateInternal, StatusInternal
<1>7. CASE c \in {"tokens", "traces", "transactions", "when"}
  BY <1>7 DEF Chain, TokensInternal, TracesInternal, TransactionsInternal, WhenInternal
<1> QED BY <1>1, <1>2, <1>3, <1>4, <1>5, <1>6, <1>7 DEF Commands

\* So options that differ in nothing else lead to the same handler.
LEMMA SameHandler ==
  ASSUME NEW c \in Commands \ {"daemon"}, NEW o, NEW r,
         \A t : t \notin NotInRows => (t \in o) = (t \in r)
  PROVE  FirstOf(Chain(c), o) = FirstOf(Chain(c), r)
<1>1. ASSUME NEW i \in DOMAIN Chain(c) PROVE Has(o, Chain(c)[i][1]) <=> Has(r, Chain(c)[i][1])
  <2>1. Chain(c)[i][1] \cap NotInRows = {}
    BY RowsAsk
  <2>2. o \cap Chain(c)[i][1] = r \cap Chain(c)[i][1]
    BY <2>1
  <2> QED BY <2>2 DEF Has
<1> QED BY <1>1, SameRows

\* Options that differ in their formats only have the same outcome.
LEMMA OutcomeAlike ==
  ASSUME NEW c \in Commands \ {"chunks"}, NEW o, NEW r, Alike(o, r),
         c = "daemon" => Has(o, Formats) /\ Has(r, Formats)
  PROVE  Outcome(c, Sets(c, o)) = Outcome(c, Sets(c, r))
<1>1. PICK a, b : a = Sets(c, o) /\ b = Sets(c, r)
  OBVIOUS
<1>2. Alike(a, b)
  <2>1. CASE c = "export"
    <3>1. IsAccounting(o) = IsAccounting(r)
      BY DEF Alike, Formats, IsAccounting, Has
    <3> HIDE DEF IsAccounting
    <3> QED BY <1>1, <2>1, <3>1 DEF Alike, Formats, Sets, validateExport_sets
  <2>2. CASE c = "when"
    BY <1>1, <2>2 DEF Alike, Formats, Sets, validateWhen_sets, Lacks
  <2>3. CASE c \notin {"export", "when"}
    BY <1>1, <2>3 DEF Sets
  <2> QED BY <2>1, <2>2, <2>3
<1>3. Alike(b, a)
  BY <1>2 DEF Alike
<1>4. Valid(c, a) <=> Valid(c, b)
  BY <1>2, <1>3, ValidAlike
<1>5. FirstOf(Chain(c), a) = FirstOf(Chain(c), b)
  <2>1. CASE c = "daemon"
    <3>1. Has(a, {"api", "json", "txt"}) /\ Has(b, {"api", "json", "txt"})
      BY <1>1, <2>1 DEF Sets, Has, Formats
    <3>2. /\ Chain(c) = DaemonInternal /\ DOMAIN DaemonInternal = {1}
          /\ DaemonInternal[1][1] = {"api", "json", "txt"}
      BY <2>1 DEF Chain, DaemonInternal
    <3> QED BY <3>1, <3>2, SameRows
  <2>2. CASE c # "daemon"
    BY <1>2, <2>2, SameHandler DEF Alike, NotInRows
  <2> QED BY <2>1, <2>2
<1>6. LoadCrudDataIfNeeded(a) = LoadCrudDataIfNeeded(b)
  <2>1. ASSUME NEW S, S \cap Formats = {} PROVE Has(a, S) = Has(b, S)
    BY <1>2, <2>1, AlikeSets
  <2>2. "no_form" \in a <=> "no_form" \in b
    BY <1>2 DEF Alike, Formats
  <2>3. /\ Has(a, {"delete", "undelete", "remove"}) = Has(b, {"delete", "undelete", "remove"})
        /\ Has(a, {"terms", "terms2"}) = Has(b, {"terms", "terms2"})
        /\ Has(a, {"create", "update"}) = Has(b, {"create", "update"})
    BY <2>1 DEF Formats
  <2> HIDE DEF Has
  <2> QED BY <2>2, <2>3 DEF LoadCrudDataIfNeeded
<1> QED BY <1>1, <1>4, <1>5, <1>6 DEF Outcome

-----------------------------------------------------------------------------
\* the tokens that cobra takes for a command
Known(c) == Flags[c] \cup GlobalFlags(c) \cup Arguments(c) \cup Facts

\* what the parsers of the keys add to them
Filled(c, k) ==
    CASE c = "slurp" -> k \cup {"parts"}
      [] c = "state" -> k \cup (IF "blocks" \in k THEN {} ELSE {"latest"})
      [] c = "status" -> k \cup StatusModes(k)
      [] c = "tokens" -> TokensFill(k)
      [] OTHER -> k

\* Known keys are kept, an unknown one is marked.
LEMMA KeysAre ==
  ASSUME NEW k, NEW mine, NEW caps
  PROVE  /\ k \subseteq mine \cup HasKey(caps) \cup Facts => FromKeys(k, mine, caps) = k
         /\ ~(k \subseteq mine \cup HasKey(caps) \cup Facts) => "BadFlag" \in FromKeys(k, mine, caps)
<1> PICK all : all = mine \cup HasKey(caps) \cup Facts
  OBVIOUS
<1>1. FromKeys(k, mine, caps) = (k \cap all) \cup (IF k \subseteq all THEN {} ELSE {"BadFlag"})
  BY DEF FromKeys
<1> QED BY <1>1

\* The flags and the arguments of a command are the keys that the API and the
\* SDK know, but where the fronts are known to part.
LEMMA SameKeys ==
  ASSUME NEW c \in Commands, NEW k, ~KnownToPart(c, k),
         c = "init" => "args" \notin k, c = "scrape" => "args2" \notin k
  PROVE  /\ k \subseteq Known(c) => ParseKeys(c, k) = Filled(c, k)
         /\ ~(k \subseteq Known(c)) => "BadFlag" \in ParseKeys(c, k)
<1>1. CASE c = "abis"
  <2> DEFINE mine == {"addrs", "addrs2", "known", "proxyFor", "list", "details", "count",
                      "find", "hint", "encode"}
             caps == DefaultCaps \cup CachingCaps \cup {"names"}
  <2>1. ParseKeys(c, k) = FromKeys(k, mine, caps)
    BY <1>1 DEF ParseKeys, AbisFinishParseInternal
  <2>2. k \subseteq Known(c) <=> k \subseteq mine \cup HasKey(caps) \cup Facts
    BY <1>1 DEF Known, Flags, GlobalFlags, Arguments, KnownToPart, Has, DefaultCaps, CachingCaps, HasKey, abisCmd
  <2> HIDE DEF mine, caps
  <2> QED BY <1>1, <2>1, <2>2, KeysAre DEF Filled
<1>2. CASE c = "blocks"
  <2> DEFINE mine == {"blocks", "hashes", "uncles", "traces", "uniq", "flow", "logs",
                      "emitter", "topic", "withdrawals", "articulate", "count", "cacheTxs",
                      "cacheTraces"}
             caps == DefaultCaps \cup CachingCaps \cup {"ether", "names"}
  <2>1. ParseKeys(c, k) = FromKeys(k, mine, caps)
    BY <1>2 DEF ParseKeys, BlocksFinishParseInternal
  <2>2. k \subseteq Known(c) <=> k \subseteq mine \cup HasKey(caps) \cup Facts
    BY <1>2 DEF Known, Flags, GlobalFlags, Arguments, KnownToPart, Has, DefaultCaps, CachingCaps, HasKey, blocksCmd
  <2> HIDE DEF mine, caps
  <2> QED BY <1>2, <2>1, <2>2, KeysAre DEF Filled
<1>3. CASE c = "chunks"
  <2> DEFINE mine == {"blocks", "check", "pin", "publish", "publisher", "remote", "belongs",
                      "diff", "firstBlock", "lastBlock", "maxAddrs", "deep", "rewrite",
                      "list", "unpin", "count", "tag", "dryRun", "metadata", "sleep"} \cup
                      Truncates \cup ChunksModes
             caps == DefaultCaps
  <2>1. ParseKeys(c, k) = FromKeys(k, mine, caps)
    BY <1>3 DEF ParseKeys, ChunksFinishParseInternal
  <2>2. k \subseteq Known(c) <=> k \subseteq mine \cup HasKey(caps) \cup Facts
    BY <1>3 DEF Known, Flags, GlobalFlags, Arguments, KnownToPart, Has, DefaultCaps, HasKey, chunksCmd, Truncates, ChunksModes
  <2> HIDE DEF mine, caps
  <2> QED BY <1>3, <2>1, <2>2, KeysAre DEF Filled
<1>4. CASE c = "config"
  <2> DEFINE mine == {"mode_show", "mode_edit", "paths", "dump"}
             caps == DefaultCaps
  <2>1. ParseKeys(c, k) = FromKeys(k, mine, caps)
    BY <1>4 DEF ParseKeys, ConfigFinishParseInternal
  <2>2. k \subseteq Known(c) <=> k \subseteq mine \cup HasKey(caps) \cup Facts
    BY <1>4 DEF Known, Flags, GlobalFlags, Arguments, KnownToPart, Has, DefaultCaps, HasKey, configCmd
  <2> HIDE DEF mine, caps
  <2> QED BY <1>4, <2>1, <2>2, KeysAre DEF Filled
<1>5. CASE c = "daemon"
  <2> DEFINE mine == {"url", "silent"}
             caps == {"verbose", "version", "noop", "nocolor"}
  <2>1. ParseKeys(c, k) = FromKeys(k, mine, caps)
    BY <1>5 DEF ParseKeys, DaemonFinishParseInternal
  <2>2. k \subseteq Known(c) <=> k \subseteq mine \cup HasKey(caps) \cup Facts
    BY <1>5 DEF Known, Flags, GlobalFlags, Arguments, KnownToPart, Has, DefaultCaps, HasKey, daemonCmd
  <2> HIDE DEF mine, caps
  <2> QED BY <1>5, <2>1, <2>2, KeysAre DEF Filled
<1>6. CASE c = "explore"
  <2> DEFINE mine == {"terms", "terms_id", "noOpen", "local", "google", "dalle"}
             caps == DefaultCaps
  <2>1. ParseKeys(c, k) = FromKeys(k, mine, caps)
    BY <1>6 DEF ParseKeys, ExploreFinishParseInternal
  <2>2. k \subseteq Known(c) <=> k \subseteq mine \cup HasKey(caps) \cup Facts
    BY <1>6 DEF Known, Flags, GlobalFlags, Arguments, KnownToPart, Has, DefaultCaps, HasKey, exploreCmd
  <2> HIDE DEF mine, caps
  <2> QED BY <1>6, <2>1, <2>2, KeysAre DEF Filled
<1>7. CASE c = "export"
  <2> DEFINE mine == {"addrs", "addrs2", "topics", "fourbytes", "appearances", "receipts",
                      "logs", "approvals", "traces", "neighbors", "accounting",
                      "statements", "transfers", "assets", "balances", "withdrawals",
                      "articulate", "cacheTraces", "count", "firstRecord", "maxRecords",
                      "relevant", "emitter", "topic", "nfts", "reverted", "asset", "flow",
                      "factory", "unripe", "reversed", "noZero", "firstBlock", "lastBlock"}
             caps == DefaultCaps \cup CachingCaps \cup {"ether", "names"}
  <2>1. ParseKeys(c, k) = FromKeys(k, mine, caps)
    BY <1>7 DEF ParseKeys, ExportFinishParseInternal
  <2>2. k \subseteq Known(c) <=> k \subseteq mine \cup HasKey(caps) \cup Facts
    BY <1>7 DEF Known, Flags, GlobalFlags, Arguments, KnownToPart, Has, DefaultCaps, CachingCaps, HasKey, exportCmd
  <2> HIDE DEF mine, caps
  <2> QED BY <1>7, <2>1, <2>2, KeysAre DEF Filled
<1>8. CASE c = "init"
  <2> DEFINE mine == {"all", "example", "dryRun", "publisher", "firstBlock", "sleep"}
             caps == {"verbose", "version", "noop", "nocolor", "chain"}
  <2>1. ParseKeys(c, k) = FromKeys(k, mine, caps)
    BY <1>8 DEF ParseKeys, InitFinishParseInternal
  <2>2. k \subseteq Known(c) <=> k \subseteq mine \cup HasKey(caps) \cup Facts
    BY <1>8 DEF Known, Flags, GlobalFlags, Arguments, KnownToPart, Has, DefaultCaps, HasKey, initCmd
  <2> HIDE DEF mine, caps
  <2> QED BY <1>8, <2>1, <2>2, KeysAre DEF Filled
<1>9. CASE c = "list"
  <2> DEFINE mine == {"addrs", "addrs2", "count", "noZero", "bounds", "unripe", "silent",
                      "firstRecord", "maxRecords", "reversed", "publisher", "firstBlock",
                      "lastBlock"}
             caps == DefaultCaps \cup {"names"}
  <2>1. ParseKeys(c, k) = FromKeys(k, mine, caps)
    BY <1>9 DEF ParseKeys, ListFinishParseInternal
  <2>2. k \subseteq Known(c) <=> k \subseteq mine \cup HasKey(caps) \cup Facts
    BY <1>9 DEF Known, Flags, GlobalFlags, Arguments, KnownToPart, Has, DefaultCaps, HasKey, listCmd
  <2> HIDE DEF mine, caps
  <2> QED BY <1>9, <2>1, <2>2, KeysAre DEF Filled
<1>10. CASE c = "logs"
  <2> DEFINE mine == {"transactions", "emitter", "topic", "articulate"}
             caps == DefaultCaps \cup CachingCaps \cup {"names"}
  <2>1. ParseKeys(c, k) = FromKeys(k, mine, caps)
    BY <1>10 DEF ParseKeys, LogsFinishParseInternal
  <2>2. k \subseteq Known(c) <=> k \subseteq mine \cup HasKey(caps) \cup Facts
    BY <1>10 DEF Known, Flags, GlobalFlags, Arguments, KnownToPart, Has, DefaultCaps, CachingCaps, HasKey, logsCmd
  <2> HIDE DEF mine, caps
  <2> QED BY <1>10, <2>1, <2>2, KeysAre DEF Filled
<1>11. CASE c = "monitors"
  <2> DEFINE mine == {"addrs", "addrs2", "delete", "undelete", "remove", "clean", "list",
                      "count", "staged"}
             caps == DefaultCaps \cup CachingCaps \cup {"names"}
  <2>1. ParseKeys(c, k) = FromKeys(k, mine, caps)
    BY <1>11 DEF ParseKeys, MonitorsFinishParseInternal
  <2>2. k \subseteq Known(c) <=> k \subseteq mine \cup HasKey(caps) \cup Facts
    BY <1>11 DEF Known, Flags, GlobalFlags, Arguments, KnownToPart, Has, DefaultCaps, CachingCaps, HasKey, monitorsCmd
  <2> HIDE DEF mine, caps
  <2> QED BY <1>11, <2>1, <2>2, KeysAre DEF Filled
<1>12. CASE c = "names"
  <2> DEFINE mine == {"terms", "terms2", "expand", "matchCase", "all", "custom", "prefund",
                      "addr", "tags", "clean", "regular", "count", "dryRun", "autoname",
                      "create", "update", "delete", "undelete", "remove"}
             caps == DefaultCaps
  <2>1. ParseKeys(c, k) = FromKeys(k, mine, caps)
    BY <1>12 DEF ParseKeys, NamesFinishParseInternal
  <2>2. k \subseteq Known(c) <=> k \subseteq mine \cup HasKey(caps) \cup Facts
    BY <1>12 DEF Known, Flags, GlobalFlags, Arguments, KnownToPart, Has, DefaultCaps, HasKey, namesCmd
  <2> HIDE DEF mine, caps
  <2> QED BY <1>12, <2>1, <2>2, KeysAre DEF Filled
<1>13. CASE c = "receipts"
  <2> DEFINE mine == {"transactions", "articulate"}
             caps == DefaultCaps \cup CachingCaps
  <2>1. ParseKeys(c, k) = FromKeys(k, mine, caps)
    BY <1>13 DEF ParseKeys, ReceiptsFinishParseInternal
  <2>2. k \subseteq Known(c) <=> k \subseteq mine \cup HasKey(caps) \cup Facts
    BY <1>13 DEF Known, Flags, GlobalFlags, Arguments, KnownToPart, Has, DefaultCaps, CachingCaps, HasKey, receiptsCmd
  <2> HIDE DEF mine, caps
  <2> QED BY <1>13, <2>1, <2>2, KeysAre DEF Filled
<1>14. CASE c = "scrape"
  <2> DEFINE mine == {"blockCnt", "sleep", "publisher", "touch", "runCount", "dryRun",
                      "appsPerChunk", "snapToGrid", "firstSnap", "unripeDist",
                      "channelCount", "allowMissing"}
             caps == {"verbose", "version", "noop", "nocolor", "chain"}
  <2>1. ParseKeys(c, k) = FromKeys(k, mine, caps)
    BY <1>14 DEF ParseKeys, ScrapeFinishParseInternal
  <2>2. k \subseteq Known(c) <=> k \subseteq mine \cup HasKey(caps) \cup Facts
    BY <1>14 DEF Known, Flags, GlobalFlags, Arguments, KnownToPart, Has, DefaultCaps, HasKey, scrapeCmd
  <2> HIDE DEF mine, caps
  <2> QED BY <1>14, <2>1, <2>2, KeysAre DEF Filled
<1>15. CASE c = "slurp"
  <2> DEFINE mine == {"addrs", "addrs2", "blocks", "parts", "appearances", "articulate",
                      "source", "count", "page", "pageId", "perPage", "sleep"}
             caps == DefaultCaps \cup CachingCaps \cup {"ether", "names"}
  <2>1. ParseKeys(c, k) = FromKeys(k, mine, caps) \cup {"parts"}
    BY <1>15 DEF ParseKeys, SlurpFinishParseInternal
  <2>2. k \subseteq Known(c) <=> k \subseteq mine \cup HasKey(caps) \cup Facts
    BY <1>15 DEF Known, Flags, GlobalFlags, Arguments, KnownToPart, Has, DefaultCaps, CachingCaps, HasKey, slurpCmd
  <2> HIDE DEF mine, caps
  <2> QED BY <1>15, <2>1, <2>2, KeysAre DEF Filled
<1>16. CASE c = "state"
  <2> DEFINE mine == {"addrs", "addrs2", "blocks", "parts", "changes", "noZero", "call",
                      "send", "calldata", "articulate", "proxyFor"}
             caps == DefaultCaps \cup CachingCaps \cup {"ether", "names"}
  <2>1. ParseKeys(c, k) = FromKeys(k, mine, caps) \cup (IF "blocks" \in k THEN {} ELSE {"latest"})
    BY <1>16 DEF ParseKeys, StateFinishParseInternal
  <2>2. k \subseteq Known(c) <=> k \subseteq mine \cup HasKey(caps) \cup Facts
    BY <1>16 DEF Known, Flags, GlobalFlags, Arguments, KnownToPart, Has, DefaultCaps, CachingCaps, HasKey, stateCmd
  <2> HIDE DEF mine, caps
  <2> QED BY <1>16, <2>1, <2>2, KeysAre DEF Filled
<1>17. CASE c = "status"
  <2> DEFINE mine == {"modes", "diagnose", "firstRecord", "maxRecords", "maxRecords0",
                      "chains", "caches", "healthcheck"}
             caps == DefaultCaps
  <2>1. ParseKeys(c, k) = FromKeys(k, mine, caps) \cup StatusModes(k)
    BY <1>17 DEF ParseKeys, StatusFinishParseInternal
  <2>2. k \subseteq Known(c) <=> k \subseteq mine \cup HasKey(caps) \cup Facts
    BY <1>17 DEF Known, Flags, GlobalFlags, Arguments, KnownToPart, Has, DefaultCaps, HasKey, statusCmd
  <2> HIDE DEF mine, caps
  <2> QED BY <1>17, <2>1, <2>2, KeysAre DEF Filled
<1>18. CASE c = "tokens"
  <2> DEFINE mine == {"addrs", "addrs2", "blocks", "approvals", "parts", "byAcct",
                      "changes", "noZero"}
             caps == DefaultCaps \cup CachingCaps \cup {"names"}
  <2>1. ParseKeys(c, k) = TokensFill(FromKeys(k, mine, caps))
    BY <1>18 DEF ParseKeys, TokensFinishParseInternal
  <2>2. k \subseteq Known(c) <=> k \subseteq mine \cup HasKey(caps) \cup Facts
    BY <1>18 DEF Known, Flags, GlobalFlags, Arguments, KnownToPart, Has, DefaultCaps, CachingCaps, HasKey, tokensCmd
  <2> HIDE DEF mine, caps
  <2>3. \A s : "BadFlag" \in s => "BadFlag" \in TokensFill(s)
    BY DEF TokensFill
  <2> QED BY <1>18, <2>1, <2>2, <2>3, KeysAre DEF Filled
<1>19. CASE c = "traces"
  <2> DEFINE mine == {"transactions", "articulate", "filter", "count"}
             caps == DefaultCaps \cup CachingCaps \cup {"ether", "names"}
  <2>1. ParseKeys(c, k) = FromKeys(k, mine, caps)
    BY <1>19 DEF ParseKeys, TracesFinishParseInternal
  <2>2. k \subseteq Known(c) <=> k \subseteq mine \cup HasKey(caps) \cup Facts
    BY <1>19 DEF Known, Flags, GlobalFlags, Arguments, KnownToPart, Has, DefaultCaps, CachingCaps, HasKey, tracesCmd
  <2> HIDE DEF mine, caps
  <2> QED BY <1>19, <2>1, <2>2, KeysAre DEF Filled
<1>20. CASE c = "transactions"
  <2> DEFINE mine == {"transactions", "articulate", "traces", "uniq", "flow", "logs",
                      "emitter", "topic", "cacheTraces"}
             caps == DefaultCaps \cup CachingCaps \cup {"ether", "names"}
  <2>1. ParseKeys(c, k) = FromKeys(k, mine, caps)
    BY <1>20 DEF ParseKeys, TransactionsFinishParseInternal
  <2>2. k \subseteq Known(c) <=> k \subseteq mine \cup HasKey(caps) \cup Facts
    BY <1>20 DEF Known, Flags, GlobalFlags, Arguments, KnownToPart, Has, DefaultCaps, CachingCaps, HasKey, transactionsCmd
  <2> HIDE DEF mine, caps
  <2> QED BY <1>20, <2>1, <2>2, KeysAre DEF Filled
<1>21. CASE c = "when"
  <2> DEFINE mine == {"blocks", "diff", "list", "timestamps", "count", "repair", "check",
                      "update", "deep"} \cup Truncates
             caps == DefaultCaps \cup CachingCaps
  <2>1. ParseKeys(c, k) = FromKeys(k, mine, caps)
    BY <1>21 DEF ParseKeys, WhenFinishParseInternal
  <2>2. k \subseteq Known(c) <=> k \subseteq mine \cup HasKey(caps) \cup Facts
    BY <1>21 DEF Known, Flags, GlobalFlags, Arguments, KnownToPart, Has, DefaultCaps, CachingCaps, HasKey, whenCmd, Truncates
  <2> HIDE DEF mine, caps
  <2> QED BY <1>21, <2>1, <2>2, KeysAre DEF Filled
<1> QED BY <1>1, <1>2, <1>3, <1>4, <1>5, <1>6, <1>7, <1>8, <1>9, <1>10, <1>11,
           <1>12, <1>13, <1>14, <1>15, <1>16, <1>17, <1>18, <1>19, <1>20, <1>21 DEF Commands

\* The format is all that the parsers add in the end.
LEMMA FormatsAdded ==
  ASSUME NEW o, NEW fmt \in Formats
  PROVE  /\ Alike(FinishParse(o, fmt), o) /\ Has(FinishParse(o, fmt), Formats)
         /\ Alike(o, FinishParseApi(o)) /\ Has(FinishParseApi(o), Formats)
BY DEF Alike, Formats, FinishParse, FinishParseApi, Has

\* A request that is marked is refused, and so are these.
LEMMA Refused ==
  ASSUME NEW c \in Commands, NEW o, ~Valid(c, Sets(c, o)),
         c = "names" => LoadCrudDataIfNeeded(o) # "panic"
  PROVE  Outcome(c, Sets(c, o)) = "refused"
<1>1. c = "names" => Sets(c, o) = o
  BY DEF Sets
<1> QED BY <1>1 DEF Outcome

LEMMA BadFlagRefused ==
  ASSUME NEW c \in Commands, NEW o, "BadFlag" \in o,
         c = "names" => LoadCrudDataIfNeeded(o) # "panic"
  PROVE  Outcome(c, Sets(c, o)) = "refused"
<1>1. "BadFlag" \in Sets(c, o)
  BY DEF Sets, validateExport_sets, validateWhen_sets
<1>2. ~Valid(c, Sets(c, o))
  BY <1>1, ValidReady
<1> QED BY <1>2, Refused

\* What no front understands is refused by both.
LEMMA NotUnderstood ==
  ASSUME NEW c \in Commands, NEW k, ~KnownToPart(c, k),
         \/ ~(k \subseteq Known(c))
         \/ c = "init" /\ "args" \in k
         \/ c = "scrape" /\ "args2" \in k
  PROVE  Outcome(c, Parsed(c, "cli", k)) = Outcome(c, Parsed(c, "sdk", k))
<1>1. PICK b : b = FinishParseApi(ParseKeys(c, k))
  OBVIOUS
<1>2. Parsed(c, "sdk", k) = Sets(c, b)
  BY <1>1 DEF Parsed, Serve
<1>3. "BadFlag" \in ParseKeys(c, k)
  <2>1. CASE c = "init" /\ "args" \in k
    BY <2>1 DEF ParseKeys, InitFinishParseInternal, FromKeys, HasKey, Facts
  <2>2. CASE c = "scrape" /\ "args2" \in k
    BY <2>2 DEF ParseKeys, ScrapeFinishParseInternal, FromKeys, HasKey, Facts
  <2> QED BY <2>1, <2>2, SameKeys
<1>4. "BadFlag" \in b
  BY <1>1, <1>3 DEF FinishParseApi
<1>5. c = "names" => LoadCrudDataIfNeeded(b) # "panic"
  <2> SUFFICES ASSUME c = "names" PROVE LoadCrudDataIfNeeded(b) # "panic"
    OBVIOUS
  <2>1. \A t \in NamesCrud \cup {"terms", "terms2"} : t \in b <=> t \in k
    BY <1>1 DEF ParseKeys, NamesFinishParseInternal, FromKeys, FinishParseApi, NamesCrud
  <2>2. Has(k, {"delete", "undelete", "remove"}) => Has(k, {"terms", "terms2"})
    BY DEF KnownToPart, Has, Lacks
  <2> QED BY <2>1, <2>2 DEF LoadCrudDataIfNeeded, Has, NamesCrud
<1>6. PICK a : a = Run(c, k)
  OBVIOUS
<1>7. "BadFlag" \in a /\ (c = "names" => a = {"BadFlag"})
  <2>1. CASE ~(k \subseteq Known(c))
    BY <1>6, <2>1 DEF Run, Known
  <2>2. CASE c = "init" /\ "args" \in k
    BY <1>6, <2>2 DEF Run, ParseArgs, initFinishParse, FinishParse
  <2>3. CASE c = "scrape" /\ "args2" \in k
    BY <1>6, <2>3 DEF Run, ParseArgs, scrapeFinishParse, FinishParse
  <2> QED BY <2>1, <2>2, <2>3
<1>8. c = "names" => LoadCrudDataIfNeeded(a) # "panic"
  BY <1>7 DEF LoadCrudDataIfNeeded, Has
<1>9. Parsed(c, "cli", k) = Sets(c, a)
  BY <1>6 DEF Parsed
<1> QED BY <1>2, <1>4, <1>5, <1>7, <1>8, <1>9, BadFlagRefused

\* The commands whose parsers do the same, but for the formats.
LEMMA ParsersAlike ==
  ASSUME NEW c \in Commands, NEW k, ~KnownToPart(c, k),
         c \in {"abis", "list", "monitors", "slurp", "state", "tokens"} =>
           "bad_addr" \notin k \/ Lacks(k, {"addrs", "addrs2"}),
         c = "init" => "args" \notin k, c = "scrape" => "args2" \notin k,
         c = "export" => "topics" \notin k
  PROVE  Alike(ParseArgs(c, k), Filled(c, k)) /\ Has(ParseArgs(c, k), Formats)
<1> USE FormatsAdded DEF Formats
<1>1. CASE c \in {"abis", "list", "monitors"}
  <2>1. ValidAddrs(k) = k
    BY <1>1 DEF ValidAddrs, Lacks
  <2> QED BY <1>1, <2>1 DEF ParseArgs, Filled, abisFinishParse, listFinishParse, monitorsFinishParse
<1>2. CASE c \in {"slurp", "state", "tokens"}
  <2>1. AddrsOrBlocks(k) = k
    BY <1>2 DEF AddrsOrBlocks, Has, Lacks
  <2> QED BY <1>2, <2>1 DEF ParseArgs, Filled, slurpFinishParse, stateFinishParse, tokensFinishParse
<1>3. CASE c \in {"chunks", "when"}
  <2>1. k \ {"truncate0"} = k
    BY <1>3 DEF KnownToPart
  <2> QED BY <1>3, <2>1 DEF ParseArgs, Filled, chunksFinishParse, whenFinishParse
<1>4. CASE c = "config"
  BY <1>4 DEF ParseArgs, Filled, configFinishParse, Alike, Has
<1>5. CASE c \in {"init", "scrape"}
  <2>1. ParseArgs(c, k) = FinishParse(k, "txt")
    BY <1>5 DEF ParseArgs, initFinishParse, scrapeFinishParse
  <2> QED BY <1>5, <2>1 DEF Filled
<1>6. CASE c = "status"
  BY <1>6 DEF ParseArgs, Filled, statusFinishParse
<1>7. CASE c \in {"blocks", "daemon", "explore", "logs", "names", "receipts", "traces", "transactions"}
  BY <1>7 DEF ParseArgs, Filled, blocksFinishParse, daemonFinishParse, exploreFinishParse,
       logsFinishParse, namesFinishParse, receiptsFinishParse, tracesFinishParse, transactionsFinishParse
<1>8. CASE c = "export"
  <2>1. ParseArgs(c, k) = FinishParse(k, "txt")
    BY <1>8 DEF ParseArgs, exportFinishParse
  <2> QED BY <1>8, <2>1 DEF Filled
<1> QED BY <1>1, <1>2, <1>3, <1>4, <1>5, <1>6, <1>7, <1>8 DEF Commands

\* An argument that is no address: what the command line makes of it is refused
\* as it is, or asked for nothing.
LEMMA BadAddress ==
  ASSUME NEW c \in {"abis", "list", "monitors", "slurp", "state", "tokens"},
         NEW k, Askable(k), ~KnownToPart(c, k), "bad_addr" \in k, Has(k, {"addrs", "addrs2"}),
         NEW a, a = ParseArgs(c, k), NEW b, b = FinishParseApi(Filled(c, k))
  PROVE  Outcome(c, Sets(c, a)) = Outcome(c, Sets(c, b))
<1>0. c \in Commands /\ Sets(c, a) = a /\ Sets(c, b) = b /\ c \notin {"names", "daemon", "chunks"}
  BY DEF Sets, Commands
<1>1. CASE c \in {"slurp", "tokens", "state"}
  <2>1. "bad_addr" \in a /\ "bad_addr" \in b
    BY <1>1 DEF ParseArgs, Filled, slurpFinishParse, tokensFinishParse, stateFinishParse, AddrsOrBlocks,
         FinishParse, FinishParseApi, TokensFill
  <2>2. c = "state" => {"blocks", "bad_ids"} \subseteq a /\ Lacks(b, {"file", "send"})
    <3>1. c = "state" => {"blocks", "bad_ids"} \subseteq a
      BY DEF ParseArgs, stateFinishParse, AddrsOrBlocks, FinishParse
    <3>2. c = "state" => Lacks(k, {"file", "send"})
      BY DEF KnownToPart, Has, Lacks
    <3>3. c = "state" => \A t \in {"file", "send"} : t \in b => t \in k
      BY DEF Filled, FinishParseApi
    <3> QED BY <3>1, <3>2, <3>3 DEF Lacks
  <2>3. ~Valid(c, a) /\ ~Valid(c, b)
    <3>1. CASE c \in {"slurp", "tokens"}
      BY <2>1, <3>1 DEF Valid, validateSlurp, validateTokens, AtLeastOneAddr
    <3>2. CASE c = "state"
      <4>1. ~Valid(c, a)
        BY <2>2, <3>2 DEF Valid, validateState, Identifiers
      <4>2. ~Valid(c, b)
        BY <2>1, <2>2, <3>2 DEF Valid, validateState, AtLeastOneAddr, Has, Lacks
      <4> QED BY <4>1, <4>2
    <3> QED BY <1>1, <3>1, <3>2
  <2> QED BY <1>0, <2>3, Refused
<1>2. CASE c \in {"abis", "list", "monitors"}
  <2>1. /\ a = FinishParse(k \ {"addrs", "addrs2"}, "txt") /\ b = FinishParseApi(k)
    BY <1>2 DEF ParseArgs, Filled, abisFinishParse, listFinishParse, monitorsFinishParse, ValidAddrs
  <2>2. \A t : t \notin {"json", "txt", "addrs", "addrs2"} => (t \in a) = (t \in b)
    BY <2>1 DEF FinishParse, FinishParseApi
  <2>3. "bad_addr" \in a /\ "bad_addr" \in b /\ Lacks(a, {"addrs", "addrs2"})
    BY <2>1 DEF FinishParse, FinishParseApi, Lacks
  <2>4. FirstOf(Chain(c), a) = FirstOf(Chain(c), b)
    BY <1>0, <2>2, SameHandler DEF NotInRows, Formats
  <2>5. Valid(c, a) <=> Valid(c, b)
    <3>1. Ready(a) <=> Ready(b)
      BY <2>2 DEF Ready, Lacks
    <3>2. Globals_Validate(a) <=> Globals_Validate(b)
      BY <2>2 DEF Globals_Validate, Lacks
    <3>3. ~AtLeastOneAddr(a) /\ ~AtLeastOneAddr(b)
      BY <2>3 DEF AtLeastOneAddr
    <3>4. Publisher(a) <=> Publisher(b)
      BY <2>2 DEF Publisher
    <3> HIDE DEF Ready, Globals_Validate, AtLeastOneAddr, Publisher
    <3>5. CASE c = "abis"
      <4>1. "proxyFor" \notin k
        BY <3>5 DEF KnownToPart
      <4>2. "proxyFor" \notin a /\ "proxyFor" \notin b
        BY <2>1, <4>1 DEF FinishParse, FinishParseApi
      <4> QED BY <2>2, <3>1, <3>2, <3>3, <3>5, <4>2 DEF Valid, validateAbis, Has, Lacks
    <3>6. CASE c = "list"
      BY <2>2, <3>1, <3>3, <3>4, <3>6 DEF Valid, validateList, Has, Lacks
    <3>7. CASE c = "monitors"
      <4>1. Lacks(k, {"list", "count", "file"})
        BY <3>7 DEF KnownToPart, Has, Lacks
      <4>2. Lacks(a, {"list", "count", "file"}) /\ Lacks(b, {"list", "count", "file"})
        BY <2>1, <4>1 DEF FinishParse, FinishParseApi, Lacks
      <4>3. "api" \notin a /\ "api" \notin b
        BY <2>1 DEF Askable, FinishParse, FinishParseApi
      <4> QED BY <4>3, <2>2, <2>3, <3>1, <3>2, <3>3, <3>7, <4>2 DEF Valid, validateMonitors, Has, Lacks
    <3> QED BY <1>2, <3>5, <3>6, <3>7
  <2> QED BY <1>0, <2>4, <2>5 DEF Outcome
<1> QED BY <1>1, <1>2

\* The validator of chifra chunks looks at the format for --belongs only.
LEMMA ValidChunksAlike ==
  ASSUME NEW o, NEW r, Alike(o, r), "api" \notin o,
         "belongs" \in o => ("json" \in o <=> "json" \in r), validateChunks(o)
  PROVE  validateChunks(r)
<1>1. Ready(r) /\ Globals_Validate(r)
  <2>1. Ready(o) /\ Globals_Validate(o)
    BY DEF validateChunks
  <2> QED BY <2>1 DEF Alike, Formats, Ready, Globals_Validate, Lacks
<1>2. Identifiers(r, "blocks") /\ Publisher(r)
  <2>1. Identifiers(o, "blocks") /\ Publisher(o)
    BY DEF validateChunks
  <2> QED BY <2>1 DEF Alike, Formats, Identifiers, Publisher
<1>3. \A S : S \cap Formats = {} => (Has(o, S) <=> Has(r, S)) /\ (Lacks(o, S) <=> Lacks(r, S))
  <2> SUFFICES ASSUME NEW S, S \cap Formats = {} PROVE o \cap S = r \cap S
    BY DEF Has, Lacks
  <2> QED BY AlikeSets
<1>4. ~isDisallowed(r, "api" \in r)
  BY DEF Alike, Formats, isDisallowed
<1>5. ~isDisallowed(r, ~Has(r, {"mode_index", "mode_manifest"}))
  <2>1. ~isDisallowed(o, ~Has(o, {"mode_index", "mode_manifest"}))
    BY DEF validateChunks
  <2>2. Has(o, {"mode_index", "mode_manifest"}) \/ ~Has(o, {"pin", "publish", "remote"} \cup Truncates)
    BY <2>1 DEF isDisallowed
  <2>3. Has(r, {"mode_index", "mode_manifest"}) \/ ~Has(r, {"pin", "publish", "remote"} \cup Truncates)
    BY <1>3, <2>2 DEF Formats, Truncates
  <2> QED BY <2>3 DEF isDisallowed
<1>6. "belongs" \in r => {"blocks", "json"} \subseteq r /\ Lacks(r, {"bad_addr", "verbose"})
  <2>1. "belongs" \in o => {"blocks", "json"} \subseteq o /\ Lacks(o, {"bad_addr", "verbose"})
    BY DEF validateChunks
  <2> QED BY <2>1 DEF Alike, Formats, Lacks
<1> HIDE DEF Ready, Globals_Validate, Identifiers, Publisher, isDisallowed
<1> QED BY <1>1, <1>2, <1>4, <1>5, <1>6
        DEF Alike, Formats, validateChunks, Has, Lacks, Truncates, ChunksModes

\* chifra chunks looks at the format when it is asked for --belongs, which is json
\* unless the user says something else.
LEMMA ChunksMeet ==
  ASSUME NEW k, Askable(k), ~KnownToPart("chunks", k),
         NEW a, a = chunksFinishParse(k), NEW b, b = FinishParseApi(k)
  PROVE  Outcome("chunks", Sets("chunks", a)) = Outcome("chunks", Sets("chunks", b))
<1>0. k \ {"truncate0"} = k
  BY DEF KnownToPart
<1>1. Alike(a, b)
  BY <1>0 DEF Alike, Formats, chunksFinishParse, FinishParse, FinishParseApi
<1>2. "belongs" \in k => ("json" \in a <=> "json" \in b)
  BY <1>0 DEF chunksFinishParse, FinishParse, FinishParseApi, Askable, Has
<1>3. "belongs" \in a <=> "belongs" \in k
  BY <1>0 DEF chunksFinishParse, FinishParse
<1>4. Valid("chunks", a) <=> Valid("chunks", b)
  <2>1. "api" \notin a /\ "api" \notin b
    BY <1>0 DEF Askable, chunksFinishParse, FinishParse, FinishParseApi
  <2>2. Alike(b, a) /\ ("belongs" \in b <=> "belongs" \in k)
    BY <1>1, <1>3 DEF Alike, Formats
  <2>3. validateChunks(a) <=> validateChunks(b)
    BY <1>1, <1>2, <1>3, <2>1, <2>2, ValidChunksAlike
  <2> QED BY <2>3 DEF Valid
<1>5. FirstOf(Chain("chunks"), a) = FirstOf(Chain("chunks"), b)
  BY <1>1, SameHandler DEF Alike, NotInRows, Commands
<1>6. Sets("chunks", a) = a /\ Sets("chunks", b) = b
  BY DEF Sets
<1> QED BY <1>4, <1>5, <1>6 DEF Outcome

\* A topic among the arguments of chifra export is looked for in the logs or the
\* approvals, as a topic that is given by its key.
LEMMA ExportMeet ==
  ASSUME NEW k, ~KnownToPart("export", k), "topics" \in k,
         NEW a, a = exportFinishParse(k), NEW b, b = FinishParseApi(k)
  PROVE  Outcome("export", Sets("export", a)) = Outcome("export", Sets("export", b))
<1>1. \A t : t \notin Formats \cup {"topic"} => (t \in a) = (t \in b)
  BY DEF Formats, exportFinishParse, FinishParse, FinishParseApi
<1>2. {"topic", "topics"} \subseteq a /\ "topics" \in b /\ "receipts" \notin a /\ "receipts" \notin b
  BY DEF exportFinishParse, FinishParse, FinishParseApi, KnownToPart
<1>3. PICK u, v : u = Sets("export", a) /\ v = Sets("export", b)
  OBVIOUS
<1>4. \A t : t \notin Formats \cup {"topic"} => (t \in u) = (t \in v)
  <2>1. IsAccounting(a) <=> IsAccounting(b)
    BY <1>1 DEF IsAccounting, Has, Formats
  <2>2. u = a \/ u = a \cup {"statements"}
    BY <1>3 DEF Sets, validateExport_sets
  <2>3. /\ u = IF "accounting" \in a /\ ~IsAccounting(a) THEN a \cup {"statements"} ELSE a
        /\ v = IF "accounting" \in b /\ ~IsAccounting(b) THEN b \cup {"statements"} ELSE b
    BY <1>3 DEF Sets, validateExport_sets
  <2>4. "accounting" \in a <=> "accounting" \in b
    BY <1>1 DEF Formats
  <2> HIDE DEF IsAccounting
  <2> QED BY <1>1, <2>1, <2>3, <2>4
<1>5. {"topic", "topics"} \subseteq u /\ "topics" \in v /\ "receipts" \notin u /\ "receipts" \notin v
  BY <1>2, <1>3 DEF Sets, validateExport_sets
<1>6. Valid("export", u) <=> Valid("export", v)
  <2>1. Ready(u) <=> Ready(v)
    BY <1>4 DEF Formats, Ready, Lacks
  <2>2. Globals_Validate(u) <=> Globals_Validate(v)
    BY <1>4 DEF Formats, Globals_Validate, Lacks
  <2>3. /\ AtLeastOneAddr(u) <=> AtLeastOneAddr(v)
        /\ ArticulationKey(u) <=> ArticulationKey(v)
    BY <1>4 DEF Formats, AtLeastOneAddr, ArticulationKey, Has
  <2>4. IsAccounting(u) <=> IsAccounting(v)
    BY <1>4 DEF Formats, IsAccounting, Has
  <2>5. u \cap {"statements", "transfers", "assets"} = v \cap {"statements", "transfers", "assets"}
    BY <1>4 DEF Formats
  <2>6. Export_tooMany(u) <=> Export_tooMany(v)
    <3>1. u \cap ToSet(ExportModes) = v \cap ToSet(ExportModes)
      BY <1>4 DEF ToSet, ExportModes, Formats
    <3> QED BY <3>1, Zenon DEF Export_tooMany
  <2> HIDE DEF Ready, Globals_Validate, AtLeastOneAddr, ArticulationKey, IsAccounting, Export_tooMany
  <2> QED BY <1>4, <1>5, <2>1, <2>2, <2>3, <2>4, <2>5, <2>6
          DEF Formats, Valid, validateExport, Has, Lacks
<1>7. FirstOf(Chain("export"), u) = FirstOf(Chain("export"), v)
  <2>1. ASSUME NEW i \in DOMAIN Chain("export")
        PROVE  Has(u, Chain("export")[i][1]) <=> Has(v, Chain("export")[i][1])
    <3>1. Chain("export")[i][1] \cap (Formats \cup {"topic"}) = {}
      BY <2>1 DEF Chain, ExportInternal, Formats
    <3> QED BY <1>4, <3>1 DEF Has
  <2> QED BY <2>1, SameRows
<1> QED BY <1>3, <1>6, <1>7 DEF Outcome

\* One request, asked for on the command line or through the SDK.
LEMMA FrontsMeet ==
  ASSUME NEW c \in Commands, NEW k, Askable(k), ~KnownToPart(c, k)
  PROVE  Outcome(c, Parsed(c, "cli", k)) = Outcome(c, Parsed(c, "sdk", k))
<1>1. CASE \/ ~(k \subseteq Known(c))
           \/ c = "init" /\ "args" \in k
           \/ c = "scrape" /\ "args2" \in k
  BY <1>1, NotUnderstood
<1>2. CASE /\ k \subseteq Known(c)
           /\ c = "init" => "args" \notin k
           /\ c = "scrape" => "args2" \notin k
  <2>1. PICK a, b : a = ParseArgs(c, k) /\ b = FinishParseApi(Filled(c, k))
    OBVIOUS
  <2>2. Parsed(c, "cli", k) = Sets(c, a)
    <3>1. ~(c = "init" /\ "file" \in k)
      BY DEF KnownToPart
    <3> QED BY <1>2, <2>1, <3>1 DEF Parsed, Run, Known
  <2>3. Parsed(c, "sdk", k) = Sets(c, b)
    <3>1. ParseKeys(c, k) = Filled(c, k)
      BY <1>2, SameKeys
    <3> QED BY <2>1, <3>1 DEF Parsed, Serve
  <2>4. CASE c = "chunks"
    BY <2>1, <2>2, <2>3, <2>4, ChunksMeet DEF ParseArgs, Filled
  <2>5. CASE c = "export" /\ "topics" \in k
    BY <2>1, <2>2, <2>3, <2>5, ExportMeet DEF ParseArgs, Filled
  <2>6. CASE /\ c \in {"abis", "list", "monitors", "slurp", "state", "tokens"}
             /\ "bad_addr" \in k /\ Has(k, {"addrs", "addrs2"})
    BY <2>1, <2>2, <2>3, <2>6, BadAddress
  <2>7. CASE /\ c # "chunks" /\ (c = "export" => "topics" \notin k)
             /\ c \in {"abis", "list", "monitors", "slurp", "state", "tokens"} =>
                  "bad_addr" \notin k \/ Lacks(k, {"addrs", "addrs2"})
    <3>1. Alike(a, Filled(c, k)) /\ Has(a, Formats)
      BY <1>2, <2>1, <2>7, ParsersAlike
    <3>2. Alike(Filled(c, k), b) /\ Has(b, Formats)
      BY <2>1, FormatsAdded DEF Formats
    <3>3. Alike(a, b)
      BY <3>1, <3>2 DEF Alike
    <3>4. Outcome(c, Sets(c, a)) = Outcome(c, Sets(c, b))
      BY <2>7, <3>1, <3>2, <3>3, OutcomeAlike
    <3> QED BY <2>2, <2>3, <3>4
  <2> QED BY <2>4, <2>5, <2>6, <2>7 DEF Has, Lacks
<1> QED BY <1>1, <1>2

-----------------------------------------------------------------------------
\* what is being put together may be asked for
AskInv ==
    /\ \A p \in Procs : DOMAIN job[p] = {"via", "keys", "opts", "does"}
    /\ DOMAIN job = Procs /\ DOMAIN cmd = Procs /\ DOMAIN pc = Procs
    /\ \A p \in Procs : pc[p] = "asking" =>
         cmd[p] \in Commands \cap DOMAIN Offered[p] /\ Askable(job[p].keys)

LEMMA AskStep ==
  ASSUME AskInv, [Next]_vars
  PROVE  AskInv'
<1>0. /\ \A p \in Procs : DOMAIN job[p] = {"via", "keys", "opts", "does"}
      /\ DOMAIN job = Procs /\ DOMAIN cmd = Procs /\ DOMAIN pc = Procs
  BY DEF AskInv
<1>1. ASSUME NEW p \in Procs, NEW c \in Commands, Ask(p, c) PROVE AskInv'
  <2>1. PICK b \in Base[c] : job' = [job EXCEPT ![p].keys = b]
    BY <1>1 DEF Ask
  <2>2. /\ pc' = [pc EXCEPT ![p] = "asking"] /\ cmd' = [cmd EXCEPT ![p] = c]
        /\ c \in DOMAIN Offered[p]
    BY <1>1 DEF Ask
  <2>3. /\ DOMAIN job' = Procs /\ \A q \in Procs : q # p => job'[q] = job[q]
        /\ DOMAIN job'[p] = {"via", "keys", "opts", "does"} /\ job'[p].keys = b
    BY <1>0, <2>1
  <2>4. Askable(b)
    BY OfferedAssumption
  <2> QED BY <1>0, <2>2, <2>3, <2>4 DEF AskInv
<1>2. ASSUME NEW p \in Procs, Add(p) PROVE AskInv'
  <2>1. PICK t \in Offered[p][cmd[p]] :
          /\ ~({"json", "txt"} \subseteq job[p].keys \cup {t})
          /\ job' = [job EXCEPT ![p].keys = job[p].keys \cup {t}]
    BY <1>2 DEF Add
  <2>2. pc' = pc /\ cmd' = cmd /\ pc[p] = "asking"
    BY <1>2 DEF Add
  <2>3. /\ DOMAIN job' = Procs /\ \A q \in Procs : q # p => job'[q] = job[q]
        /\ DOMAIN job'[p] = {"via", "keys", "opts", "does"} /\ job'[p].keys = job[p].keys \cup {t}
    BY <1>0, <2>1
  <2>4. t # "api"
    BY <2>2, OfferedAssumption DEF AskInv
  <2>5. Askable(job[p].keys \cup {t})
    BY <2>1, <2>2, <2>4 DEF AskInv, Askable
  <2> QED BY <1>0, <2>2, <2>3, <2>5 DEF AskInv
<1>3. ASSUME NEW p \in Procs, NEW via \in Fronts, Submit(p, via) PROVE AskInv'
  <2>1. PICK o : job' = [job EXCEPT ![p].via = via, ![p].opts = o]
    BY <1>3 DEF Submit
  <2>2. pc' = [pc EXCEPT ![p] = "parsed"] /\ cmd' = cmd
    BY <1>3 DEF Submit, To
  <2> QED BY <1>0, <2>1, <2>2 DEF AskInv
<1>4. ASSUME NEW p \in Procs, Internal(p) PROVE AskInv'
  <2>1. PICK o, d : job' = [job EXCEPT ![p].does = d, ![p].opts = o]
    BY <1>4 DEF Internal
  <2>2. PICK s : pc' = [pc EXCEPT ![p] = s] /\ s # "asking"
    <3> DEFINE opts == IF cmd[p] = "init" /\ inited THEN job[p].opts \cup {"inited"} ELSE job[p].opts
               does == Outcome(cmd[p], opts)
               s == IF does \in {"refused", "panic"} THEN does
                    ELSE IF cmd[p] = "scrape" THEN "pid_check" ELSE "running"
    <3>1. pc' = [pc EXCEPT ![p] = s]
      BY <1>4 DEF Internal, To
    <3> HIDE DEF does
    <3>2. s # "asking"
      OBVIOUS
    <3> HIDE DEF s
    <3> QED BY <3>1, <3>2
  <2>3. cmd' = cmd
    BY <1>4 DEF Internal, To
  <2> QED BY <1>0, <2>1, <2>2, <2>3 DEF AskInv
<1>5. ASSUME NEW p \in Procs, PidCheck(p) \/ PidRemove(p) \/ PidCreate(p) \/ PidWrite(p)
      PROVE  AskInv'
  <2>1. PICK s : pc' = [pc EXCEPT ![p] = s] /\ s # "asking"
    BY <1>5, Zenon DEF PidCheck, PidRemove, PidCreate, PidWrite, To
  <2>2. cmd' = cmd /\ job' = job
    BY <1>5 DEF PidCheck, PidRemove, PidCreate, PidWrite, To
  <2> QED BY <1>0, <2>1, <2>2 DEF AskInv
<1>6. ASSUME NEW p \in Procs, Finish(p) \/ Crash(p) PROVE AskInv'
  <2>1. /\ pc' = [pc EXCEPT ![p] = "idle"] /\ cmd' = [cmd EXCEPT ![p] = ""]
        /\ job' = [job EXCEPT ![p] = NoJob]
    BY <1>6 DEF Finish, Crash, Stop
  <2>2. DOMAIN NoJob = {"via", "keys", "opts", "does"}
    BY DEF NoJob
  <2> HIDE DEF NoJob
  <2> QED BY <1>0, <2>1, <2>2 DEF AskInv
<1>7. ASSUME Reuse \/ UserRemoves \/ UNCHANGED vars \/ \E p \in Procs : HandleInit(p) PROVE AskInv'
  <2>1. UNCHANGED <<pc, cmd, job>>
    BY <1>7 DEF Reuse, UserRemoves, vars, HandleInit
  <2> QED BY <2>1 DEF AskInv
<1> QED BY <1>1, <1>2, <1>3, <1>4, <1>5, <1>6, <1>7 DEF Next

\* cmd/x.go with xFinishParse, and XFinishParseInternal: whatever options are put
\* together, and however many, the command line and the SDK lead to the same
\* handler or the same refusal, but where KnownToPart says otherwise.
THEOREM FrontsTheSame == Spec => []FrontsAgree
<1>1. Init => AskInv
  BY DEF Init, AskInv, NoJob
<1>2. AskInv /\ [Next]_vars => AskInv'
  BY AskStep
<1>3. AskInv => FrontsAgree
  BY FrontsMeet DEF AskInv, FrontsAgree
<1> QED BY <1>1, <1>2, <1>3, PTL DEF Spec
=============================================================================
