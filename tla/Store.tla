------------------------------- MODULE Store -------------------------------
(***************************************************************************)
(* The binary cache (pkg/cache, pkg/cache/locations/fs.go, pkg/file/lock.go)*)
(* and the getters of pkg/rpc that go through it: a getter looks for the    *)
(* file of the item, asks the node when it is not there or not readable,    *)
(* and writes the answer back when the block is old enough to be final.     *)
(* Every thread handles one request of one process; the processes (command  *)
(* lines and the daemon) share the folder.  The questions are what a        *)
(* request is given when files are truncated, torn, removed or of an older  *)
(* release, and when the node forks or fails.                               *)
(*                                                                          *)
(* The requests are about one block (and one address, one transaction), so  *)
(* a type stands for the one item of that type.                             *)
(***************************************************************************)
EXTENDS Naturals, Sequences, FiniteSets

CONSTANTS
  Thread,          \* the requests
  Mixes,           \* the requests that run together: a set of functions from Thread to requests
  OldFiles,        \* the types of which an earlier release may have left a file
  Versions,        \* the releases that may have written it
  Current,         \* the version of this release
  Parts,           \* the parts of a State (balance, nonce...)
  MaxInode,        \* bound on the files that are in the folder or open
  MaxFork,         \* bound on the number of re-orgs
  MaxCrash,        \* bound on the number of processes that are killed
  HeaderMayFail,   \* TRUE: the query behind GetBlockTimestamp may fail
  Misreads         \* the reads of cached files that do not yield what was written (of Codec)

VARIABLES
  path,      \* the folder: the inode of every location, or 0
  dirs,      \* the locations whose folder exists
  inode,     \* the files: what is in them
  lock,      \* the fcntl lock of every file: the process that has it
  req,       \* the request of every thread
  th,        \* the threads
  proc,      \* the process of every thread
  fork,      \* which version of the block the node has
  aged,      \* the block is more than five minutes old
  crashes,
  misread    \* Misreads, which do not change

vars == <<path, dirs, inode, lock, req, th, proc, fork, aged, crashes, misread>>

-----------------------------------------------------------------------------
(***************************************************************************)
(* The statements of a getter.  "look" is ReadFromCache, "ask" a query of   *)
(* the node, "head" the query of GetBlockTimestamp (whose error is          *)
(* dropped), "save" WriteToCache, "forget" one location of Decache.  "return"  *)
(* ends a getter that put its answer together from cached items.  `ok` and  *)
(* `no` are the statements skipped after a success and a failure.          *)
(***************************************************************************)
Return == 99
Look(t, hit, miss) == [op |-> "look", t |-> t, ok |-> hit, no |-> miss]
LookParts(t) == [op |-> "parts", t |-> t, ok |-> Return, no |-> 0]
Ask(t) == [op |-> "ask", t |-> t, ok |-> 0, no |-> Return]
AskElse(t, no) == [op |-> "ask", t |-> t, ok |-> 0, no |-> no]
Head1 == [op |-> "head", t |-> "LightBlock", ok |-> 0, no |-> 1]
Save(t) == [op |-> "save", t |-> t, ok |-> 0, no |-> Return]
SaveElse(t, no) == [op |-> "save", t |-> t, ok |-> 0, no |-> no]
Forget(t) == [op |-> "forget", t |-> t, ok |-> 0, no |-> 0]
ReturnBlock == [op |-> "return", t |-> "LightBlock", ok |-> Return, no |-> Return]

\* conn.GetBlockTimestamp(bn): the header from the cache or from the node
GetBlockTimestamp == <<Look("LightBlock", 2, 0), Head1, SaveElse("LightBlock", 0)>>

\* The types whose cached items carry their own timestamp when the node sends them.
Stamped == {"LightBlock", "Block"}

Statement == [op : {"look", "parts", "ask", "head", "save", "forget", "return"}, t : STRING, ok : Nat, no : Nat]
Requests == [prog : Seq(Statement), parts : SUBSET Parts, filter : BOOLEAN, enabled : BOOLEAN]

(***************************************************************************)
(* A getter saves only what it has: wherever a Save stands, on every way    *)
(* that leads there, a cached item was read or the node has answered (for   *)
(* a header, has sent the header).  Known is that at each statement.        *)
(***************************************************************************)
To(prog, i, skip) == {j \in 1..Len(prog) : skip # Return /\ j = i + 1 + skip}
\* the ways that lead on when the statement has not succeeded
Otherwise(prog, i) ==
  To(prog, i, prog[i].no) \cup (IF prog[i].op \in {"parts", "forget"} THEN To(prog, i, 0) ELSE {})
Learnt(s) ==
  (IF s.op \in {"look", "parts", "ask"} THEN {"item"} ELSE {})
  \cup (IF s.op = "head" \/ (s.op = "ask" /\ s.t \in Stamped) THEN {"header"} ELSE {})

Known(prog) ==
  LET k[j \in 1..Len(prog)] ==
        IF j = 1 THEN {}
        ELSE {w \in {"item", "header"} : \A i \in 1..(j - 1) :
                /\ j \in To(prog, i, prog[i].ok) => w \in k[i] \cup Learnt(prog[i])
                /\ j \in Otherwise(prog, i) => w \in k[i]}
  IN k

SavesWhatItHas(prog, k) ==
  \A i \in 1..Len(prog) :
    /\ i = 1 => k[i] = {}
    /\ \A j \in To(prog, i, prog[i].ok) : k[j] \subseteq k[i] \cup Learnt(prog[i])
    /\ \A j \in Otherwise(prog, i) : k[j] \subseteq k[i]
    /\ prog[i].op = "save" => (IF prog[i].t = "LightBlock" THEN "header" ELSE "item") \in k[i]

ASSUME StoreAssumption ==
  /\ \A mix \in Mixes : mix \in [Thread -> Requests]
  /\ \A mix \in Mixes : \A x \in Thread : SavesWhatItHas(mix[x].prog, Known(mix[x].prog))
  /\ OldFiles \subseteq STRING /\ MaxInode \in Nat \ {0} /\ MaxFork \in Nat
  /\ HeaderMayFail \in BOOLEAN

-----------------------------------------------------------------------------
\* CacheLocations: a block and its light form have the same file.
Location(t) == IF t = "Block" THEN "LightBlock" ELSE t
Request(x) == req[x]
Prog(x) == Request(x).prog
Locations == UNION {{Location(Prog(x)[i].t) : i \in 1..Len(Prog(x))} : x \in Thread}

Inode == 1..MaxInode
NoProc == 0
Nothing == [t |-> "", v |-> 0, fork |-> {}, parts |-> {}, st |-> "empty"]

Start(w) ==
  [pc |-> IF w.prog = <<>> THEN "done" ELSE "connect", at |-> 1, ino |-> 0, tries |-> 0, got |-> "", buf |-> Nothing, src |-> "none",
   fork |-> {}, hfork |-> {}, parts |-> w.parts, ts |-> "none", latest |-> "none"]

\* The threads are of one process or of several.
OneProcess == [x \in Thread |-> 1]
OneEach == CHOOSE f \in [Thread -> 1..Cardinality(Thread)] : \A x, y \in Thread : f[x] = f[y] => x = y

\* An earlier release, or a write that was cut short, left a file (an earlier
\* release, for a request that is alone).
OldFile ==
  /\ aged
  /\ \E t \in OldFiles, v \in Versions, st \in {"whole", "torn", "empty"} :
       /\ \E x \in Thread : \E i \in 1..Len(Prog(x)) : Prog(x)[i].t = t /\ Prog(x)[i].op # "ask"
       /\ v = Current \/ (st = "whole" /\ \E x \in Thread : Prog(x) = <<>>)
       /\ path = [l \in Locations |-> IF l = Location(t) THEN 1 ELSE 0]
       /\ dirs = {Location(t)}
       /\ inode = [[i \in Inode |-> Nothing] EXCEPT ![1] = [t |-> t, v |-> v, fork |-> {0}, parts |-> Parts, st |-> st]]

Init ==
  /\ misread = Misreads
  /\ req \in Mixes
  /\ th = [x \in Thread |-> Start(Request(x))]
  /\ proc \in IF \A x \in Thread : Prog(x) # <<>> THEN {OneProcess, OneEach} ELSE {OneProcess}
  /\ aged \in BOOLEAN
  /\ fork = 0
  /\ crashes = 0
  /\ lock = [i \in Inode |-> NoProc]
  /\ \/ OldFile
     \/ path = [l \in Locations |-> 0] /\ dirs = {} /\ inode = [i \in Inode |-> Nothing]

-----------------------------------------------------------------------------
Stmt(x) == Prog(x)[th[x].at]
Loc(x) == Location(Stmt(x).t)
Go(x, pc) == th' = [th EXCEPT ![x].pc = pc]

\* The statement after the current one when `skip` of them are skipped
Jump(x, r, skip) ==
  IF skip = Return \/ r.at + 1 + skip > Len(Prog(x))
  THEN [r EXCEPT !.pc = "done", !.ino = 0, !.tries = 0, !.got = "", !.buf = Nothing]
  ELSE [r EXCEPT !.pc = "step", !.at = @ + 1 + skip, !.ino = 0, !.tries = 0, !.got = "", !.buf = Nothing]

\* What the getter knows when the statement has failed: of a query or of a write
\* the error is passed on, unless the getter goes on without it
Failing(x) ==
  [th[x] EXCEPT !.src = IF Stmt(x).op \in {"ask", "save"} /\ Stmt(x).no = Return THEN "error" ELSE @]

At(x, pc, op) == th[x].pc = pc /\ Stmt(x).op \in op
Files == <<path, dirs, inode, lock>>
World == <<req, proc, fork, aged, crashes, misread>>

\* newConnection: the store is told the time of the latest block
Connect(x) ==
  /\ th[x].pc = "connect"
  /\ \E l \in {"none", IF aged THEN "aged" ELSE "young"} :
       th' = [th EXCEPT ![x].latest = l, ![x].pc = "step"]
  /\ UNCHANGED <<Files, World>>

\* A getter that has all its parts from the cache
Finish(x) ==
  /\ At(x, "step", {"return"})
  /\ th' = [th EXCEPT ![x] = Jump(x, [th[x] EXCEPT !.src = "cache"], Return)]
  /\ UNCHANGED <<Files, World>>

\* A query of the node
Answered(x) ==
  [th[x] EXCEPT !.fork = @ \cup {fork}, !.src = "node",
                !.hfork = IF Stmt(x).t \in Stamped THEN {fork} ELSE @,
                !.ts = IF Stmt(x).t \in Stamped THEN "ts" ELSE @]

AskNode(x) ==
  /\ At(x, "step", {"ask"})
  /\ \/ th' = [th EXCEPT ![x] = Jump(x, Answered(x), Stmt(x).ok)]
     \/ th' = [th EXCEPT ![x] = Jump(x, Failing(x), Stmt(x).no)]
  /\ UNCHANGED <<Files, World>>

\* The query behind GetBlockTimestamp: a failure leaves the timestamp zero
AskHead(x) ==
  /\ At(x, "step", {"head"})
  /\ \/ th' = [th EXCEPT ![x] = Jump(x, [th[x] EXCEPT !.ts = "ts", !.hfork = {fork}], Stmt(x).ok)]
     \/ HeaderMayFail /\ th' = [th EXCEPT ![x] = Jump(x, [th[x] EXCEPT !.ts = "zero"], Stmt(x).no)]
  /\ UNCHANGED <<Files, World>>

-----------------------------------------------------------------------------
(***************************************************************************)
(* WaitOnLock: the file is open; three attempts half a second apart.  An    *)
(* fcntl lock belongs to the process: its own threads are not kept out.     *)
(***************************************************************************)
CanLock(x) == lock[th[x].ino] \in {NoProc, proc[x]}

TryLock(x, from, to) ==
  /\ th[x].pc = from
  /\ \/ CanLock(x) /\ lock' = [lock EXCEPT ![th[x].ino] = proc[x]] /\ Go(x, to)
     \/ ~CanLock(x) /\ th[x].tries < 2 /\ th' = [th EXCEPT ![x].tries = @ + 1] /\ UNCHANGED lock
     \/ ~CanLock(x) /\ th[x].tries = 2 /\ UNCHANGED lock
        /\ th' = [th EXCEPT ![x] = Jump(x, Failing(x), Stmt(x).no)]
  /\ UNCHANGED <<path, dirs, inode, World>>

\* fsReadWriteCloser.Close: the lock goes, whichever thread of the process took it
Unlocked(x) == [lock EXCEPT ![th[x].ino] = IF @ = proc[x] THEN NoProc ELSE @]

-----------------------------------------------------------------------------
\* ReadFromStore: Reader opens the file...
OpenRead(x) ==
  /\ At(x, "step", {"look", "parts"})
  /\ IF path[Loc(x)] = 0 THEN th' = [th EXCEPT ![x] = Jump(x, th[x], Stmt(x).no)]
     ELSE th' = [th EXCEPT ![x].ino = path[Loc(x)], ![x].tries = 0, ![x].pc = "rlock"]
  /\ UNCHANGED <<Files, World>>

LockRead(x) == TryLock(x, "rlock", "read")

\* ... takes what is in it and decodes it...
Decoded(x) ==
  LET f == inode[th[x].ino]
      wrong == {m.got : m \in {n \in misread : n.as = Stmt(x).t /\ n.t = f.t /\ n.v = f.v /\ n.st = f.st}}
  IN IF wrong # {} THEN wrong ELSE {IF f.st = "whole" THEN "whole" ELSE "failed"}

ReadFile(x) ==
  /\ th[x].pc = "read"
  /\ \E d \in Decoded(x) :
       th' = [th EXCEPT ![x].got = d, ![x].buf = inode[th[x].ino],
                        ![x].pc = IF d = "failed" THEN "remove" ELSE "rclose"]
  /\ UNCHANGED <<Files, World>>

\* [mutant] the file is read again rather than removed
RemoveUnreadable_Bug(x) ==
  /\ th[x].pc = "remove"
  /\ Go(x, "step")
  /\ UNCHANGED <<Files, World>>

\* ... and removes the path, whatever is there by now, when that fails.
RemoveUnreadable(x) ==
  /\ th[x].pc = "remove"
  /\ path' = [path EXCEPT ![Loc(x)] = 0]
  /\ Go(x, "rclose")
  /\ UNCHANGED <<dirs, inode, lock, World>>

\* What the getter does with an item it read.  GetState goes on to the node,
\* for the cached parts too, unless they are enough and a filter is given.
Hit(x, r) ==
  LET seen == [r EXCEPT !.ts = IF Stmt(x).t = "LightBlock" THEN "ts" ELSE @, !.fork = @ \cup r.buf.fork]
      enough == Request(x).filter /\ Request(x).parts \subseteq r.buf.parts
      answer == [seen EXCEPT !.src = "cache", !.fork = r.buf.fork, !.parts = r.buf.parts]
  IN IF Stmt(x).op = "look"
     THEN IF Stmt(x).ok = Return THEN Jump(x, answer, Return) ELSE Jump(x, seen, Stmt(x).ok)
     ELSE IF enough THEN Jump(x, answer, Return)
          ELSE Jump(x, [seen EXCEPT !.parts = @ \cup r.buf.parts], 0)

CloseRead(x) ==
  /\ th[x].pc = "rclose"
  /\ lock' = Unlocked(x)
  /\ th' = [th EXCEPT ![x] = IF th[x].got = "failed" THEN Jump(x, th[x], Stmt(x).no) ELSE Hit(x, th[x])]
  /\ UNCHANGED <<path, dirs, inode, World>>

-----------------------------------------------------------------------------
\* [mutant] the five minutes are not waited for
IsFinal_Bug(latest, ts) == latest # "none"

\* base.IsFinal, with the time of the latest block the connection started with
IsFinal(latest, ts) == latest # "none" /\ (ts = "zero" \/ latest = "aged")

\* WriteToStore: nothing is written while the block may still change; Writer
\* makes the folder...
MakeFolder(x) ==
  /\ At(x, "step", {"save"})
  /\ IF ~Request(x).enabled \/ ~IsFinal(th[x].latest, th[x].ts)
     THEN th' = [th EXCEPT ![x] = Jump(x, th[x], Stmt(x).ok)] /\ UNCHANGED dirs
     ELSE dirs' = dirs \cup {Loc(x)} /\ Go(x, "wopen")
  /\ UNCHANGED <<path, inode, lock, World>>

\* ... opens the file, creating or truncating it before it has the lock...
OpenWrite(x) ==
  /\ th[x].pc = "wopen"
  /\ \/ /\ Loc(x) \notin dirs
        /\ th' = [th EXCEPT ![x] = Jump(x, Failing(x), Stmt(x).no)]
        /\ UNCHANGED <<path, inode>>
     \/ /\ Loc(x) \in dirs
        /\ \E i \in Inode :
             /\ IF path[Loc(x)] # 0 THEN i = path[Loc(x)]
                ELSE /\ \A j \in 1..(i - 1) : \/ \E l \in DOMAIN path : path[l] = j
                                              \/ \E y \in Thread : th[y].ino = j
                     /\ \A l \in DOMAIN path : path[l] # i
                     /\ \A y \in Thread : th[y].ino # i
             /\ path' = [path EXCEPT ![Loc(x)] = i]
             /\ inode' = [inode EXCEPT ![i] = Nothing]
             /\ th' = [th EXCEPT ![x].ino = i, ![x].tries = 0, ![x].pc = "wlock"]
  /\ UNCHANGED <<dirs, lock, World>>

LockWrite(x) == TryLock(x, "wlock", "write")

\* ... and writes all of it, or what the disk has room for.
Written(x) == [t |-> Stmt(x).t, v |-> Current, fork |-> IF Stmt(x).t = "LightBlock" THEN th[x].hfork ELSE th[x].fork,
                parts |-> th[x].parts, st |-> "whole"]

WriteFile(x) ==
  /\ th[x].pc = "write"
  /\ \/ inode' = [inode EXCEPT ![th[x].ino] = Written(x)] /\ th' = [th EXCEPT ![x].got = "ok", ![x].pc = "wclose"]
     \/ /\ inode[th[x].ino].st # "whole"
        /\ inode' = [inode EXCEPT ![th[x].ino] = [Written(x) EXCEPT !.st = "torn"]]
        /\ th' = [th EXCEPT ![x].got = "failed", ![x].pc = "wclose"]
  /\ UNCHANGED <<path, dirs, lock, World>>

CloseWrite(x) ==
  /\ th[x].pc = "wclose"
  /\ lock' = Unlocked(x)
  /\ th' = [th EXCEPT ![x] = IF th[x].got = "ok" THEN Jump(x, th[x], Stmt(x).ok)
                             ELSE Jump(x, Failing(x), Stmt(x).no)]
  /\ UNCHANGED <<path, dirs, inode, World>>

-----------------------------------------------------------------------------
\* Store.Decache: an item that is there is removed, without its lock...
ForgetItem(x) ==
  /\ At(x, "step", {"forget"})
  /\ path' = [path EXCEPT ![Loc(x)] = 0]
  /\ th' = [th EXCEPT ![x] = IF path[Loc(x)] = 0 THEN Jump(x, th[x], 0) ELSE [th[x] EXCEPT !.pc = "isempty"]]
  /\ UNCHANGED <<dirs, inode, lock, World>>

\* ... and, when its folder is found empty...
FolderEmpty(x) ==
  /\ th[x].pc = "isempty"
  /\ th' = [th EXCEPT ![x] = IF path[Loc(x)] = 0 THEN [th[x] EXCEPT !.pc = "rmdir"] ELSE Jump(x, th[x], 0)]
  /\ UNCHANGED <<Files, World>>

\* ... the folder, with whatever was put there since.
RemoveFolder(x) ==
  /\ th[x].pc = "rmdir"
  /\ dirs' = dirs \ {Loc(x)}
  /\ path' = [path EXCEPT ![Loc(x)] = 0]
  /\ th' = [th EXCEPT ![x] = Jump(x, th[x], 0)]
  /\ UNCHANGED <<inode, lock, World>>

-----------------------------------------------------------------------------
\* The node: a young block may be replaced, and gets old.
Reorg ==
  /\ ~aged
  /\ fork < MaxFork
  /\ fork' = fork + 1
  /\ UNCHANGED <<Files, req, th, proc, aged, crashes, misread>>

Age ==
  /\ ~aged
  /\ aged' = TRUE
  /\ UNCHANGED <<Files, req, th, proc, fork, crashes, misread>>

\* A process is killed in the middle of its work on a file: its threads are gone
\* and its locks released.  (Elsewhere it just takes no more steps.)  A write is
\* one system call, so it is there or it is not.
Kill(p) ==
  /\ crashes < MaxCrash
  /\ \E x \in Thread : proc[x] = p /\ th[x].pc \in {"wopen", "wlock", "write", "wclose", "remove", "rmdir"}
  /\ crashes' = crashes + 1
  /\ lock' = [i \in Inode |-> IF lock[i] = p THEN NoProc ELSE lock[i]]
  /\ th' = [x \in Thread |-> IF proc[x] = p /\ th[x].pc # "done" THEN [th[x] EXCEPT !.pc = "killed", !.ino = 0] ELSE th[x]]
  /\ UNCHANGED <<path, dirs, inode, req, proc, fork, aged, misread>>

Step(x) ==
  \/ Connect(x) \/ Finish(x) \/ AskNode(x) \/ AskHead(x)
  \/ OpenRead(x) \/ LockRead(x) \/ ReadFile(x) \/ RemoveUnreadable(x) \/ CloseRead(x)
  \/ MakeFolder(x) \/ OpenWrite(x) \/ LockWrite(x) \/ WriteFile(x) \/ CloseWrite(x)
  \/ ForgetItem(x) \/ FolderEmpty(x) \/ RemoveFolder(x)

Next == (\E x \in Thread : Step(x)) \/ Reorg \/ Age \/ (\E p \in 1..Cardinality(Thread) : Kill(p))

\* A thread that can go on does; nothing obliges the node or the chain.
Spec == Init /\ [][Next]_vars /\ \A x \in Thread : WF_vars(Step(x))

-----------------------------------------------------------------------------
TypeOK ==
  /\ \A l \in DOMAIN path : path[l] \in 0..MaxInode
  /\ dirs \subseteq DOMAIN path
  /\ \A i \in Inode : inode[i].st \in {"empty", "torn", "whole"} /\ inode[i].parts \subseteq Parts
  /\ \A i \in Inode : lock[i] \in 0..Cardinality(Thread)
  /\ \A x \in Thread :
       /\ th[x].ino \in Inode \cup {0} /\ th[x].tries \in 0..2 /\ th[x].parts \subseteq Parts
       /\ th[x].src \in {"none", "cache", "node", "error"}
  /\ fork \in 0..MaxFork /\ crashes \in 0..MaxCrash

\* A request that is given an item by the cache is given what was written, every
\* field in its place: a file that was cut short, that another request has just
\* truncated, that is of an older release or that holds the other form of a
\* block is either read back whole or not taken at all (UnmarshalCache against
\* MarshalCache of every type, base.ReadValue, Item.Decode).
HitIsWhole == \A x \in Thread : th[x].pc = "rclose" => th[x].got \in {"whole", "failed"}

\* What all of a release wrote, this one reads: no whole file is thrown away as
\* unreadable (the version branches of UnmarshalCache, ReadFromStore).
WholeIsReadable ==
  \A x \in Thread : th[x].pc = "remove" => th[x].buf.st # "whole"

\* What is in the cache is of the block the node has for good: no answer about a
\* block that could still be replaced is kept, whatever replaces it between the
\* query and the write (WriteToStore, IsFinal, newConnection).
OnlyFinalCached ==
  \A l \in DOMAIN path : path[l] # 0 => inode[path[l]].st = "empty" \/ inode[path[l]].fork = {fork}

\* Every request comes to an end: no attempt at a lock and no damaged file
\* makes it wait or try for ever (WaitOnLock, ReadFromStore).
RequestsReturn == \A x \in Thread : <>(th[x].pc \in {"done", "killed"})
=============================================================================
