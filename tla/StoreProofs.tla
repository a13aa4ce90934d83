---------------------------- MODULE StoreProofs ----------------------------
(***************************************************************************)
(* Proofs about the binary cache: for any number of requests, of threads   *)
(* and processes, any getters, re-orgs and crashes, what a file of the     *)
(* cache holds is of the block the node has for good.                      *)
(***************************************************************************)
EXTENDS Store, TLAPS

\* What the theorem about final blocks needs: the node gives the time of a block when
\* it is asked (the getters drop that error, and a time of zero counts as final), and
\* a file with nothing in it is not taken for an item.
NodeTellsTime == ~HeaderMayFail
EmptyIsUnreadable == \A m \in Misreads : m.st # "empty"

Reading == {"rlock", "read", "remove", "rclose"}
Writing == {"wopen", "wlock", "write", "wclose"}
Forgetting == {"isempty", "rmdir"}
Ended == {"done", "killed"}
Places == {"connect", "step"} \cup Reading \cup Writing \cup Forgetting \cup Ended

Items == [t : STRING \cup {""}, v : Versions \cup {Current, 0}, fork : SUBSET Nat, parts : SUBSET Parts,
          st : {"whole", "torn", "empty"}]
Gots == {"", "ok", "failed", "whole"} \cup {m.got : m \in Misreads}
Threads == [pc : Places, at : Nat, ino : 0..MaxInode, tries : Nat, got : Gots, buf : Items,
            src : {"none", "cache", "node", "error"}, fork : SUBSET Nat, hfork : SUBSET Nat, parts : SUBSET Parts,
            ts : {"none", "ts", "zero"}, latest : {"none", "young", "aged"}]

TypeInv ==
  /\ req \in Mixes /\ misread = Misreads
  /\ path \in [Locations -> 0..MaxInode]
  /\ inode \in [Inode -> Items]
  /\ th \in [Thread -> Threads]
  /\ fork \in Nat /\ aged \in BOOLEAN

\* of a file: there is nothing in it, or what the node has for good
Final(f) == f.st = "empty" \/ (aged /\ f.fork = {fork})

\* of a thread: one that knows that the block is final has it of no other fork, what it
\* has read is final, it writes only when it knows that, and only what it has
ThreadOf(x, r) ==
  /\ r.ts # "zero"
  /\ r.pc = "connect" => r.fork = {} /\ r.hfork = {}
  /\ r.latest = "aged" => aged /\ r.fork \subseteq {fork} /\ r.hfork \subseteq {fork}
  /\ r.pc \in {"remove", "rclose"} => Final(r.buf)
  /\ r.pc = "remove" => r.got = "failed"
  /\ r.pc = "rclose" /\ r.got # "failed" => r.buf.st # "empty"
  /\ r.pc \in {"rlock", "read", "wlock", "write"} => r.ino \in Inode
  /\ r.pc \in Writing => r.latest = "aged"
  /\ r.pc \notin Ended =>
       /\ r.at \in 1..Len(Prog(x))
       /\ r.pc \in Reading => Prog(x)[r.at].op \in {"look", "parts"}
       /\ r.pc \in Writing => Prog(x)[r.at].op = "save"
       /\ r.pc \in Forgetting => Prog(x)[r.at].op = "forget"
       /\ "item" \in Known(Prog(x))[r.at] => r.fork # {}
       /\ "header" \in Known(Prog(x))[r.at] => r.hfork # {}

FinalInv ==
  /\ \A i \in Inode : Final(inode[i])
  /\ \A x \in Thread : ThreadOf(x, th[x])

StoreInv == TypeInv /\ FinalInv

-----------------------------------------------------------------------------
(* Requests and their statements.                                          *)

\* A request has a program, every statement of which has a location.
LEMMA RequestIs ==
  ASSUME TypeInv, NEW x \in Thread
  PROVE  /\ req[x] \in Requests /\ Prog(x) \in Seq(Statement) /\ Len(Prog(x)) \in Nat
         /\ \A i \in 1..Len(Prog(x)) : /\ Prog(x)[i] \in Statement
                                       /\ Location(Prog(x)[i].t) \in Locations
         /\ SavesWhatItHas(Prog(x), Known(Prog(x)))
<1>1. req \in [Thread -> Requests]
  BY StoreAssumption DEF TypeInv
<1>2. req[x] \in Requests /\ Prog(x) \in Seq(Statement)
  BY <1>1 DEF Requests, Prog, Request
<1>3. \A i \in 1..Len(Prog(x)) : Prog(x)[i] \in Statement
  BY <1>2
<1>4. \A i \in 1..Len(Prog(x)) : Location(Prog(x)[i].t) \in Locations
  BY DEF Locations
<1>5. SavesWhatItHas(Prog(x), Known(Prog(x)))
  BY StoreAssumption DEF TypeInv, Prog, Request
<1> QED BY <1>2, <1>3, <1>4, <1>5

\* An empty file is one of the files.
LEMMA NothingIs == Nothing \in Items /\ Nothing.st = "empty"
BY DEF Nothing, Items

\* What a getter goes on with is as good as what it had.
LEMMA JumpIs ==
  ASSUME TypeInv, NEW x \in Thread, NEW r \in Threads, NEW skip \in Nat,
         r.at \in 1..Len(Prog(x)), r.ts # "zero",
         r.latest = "aged" => aged /\ r.fork \subseteq {fork} /\ r.hfork \subseteq {fork},
         \A j \in To(Prog(x), r.at, skip) :
            /\ "item" \in Known(Prog(x))[j] => r.fork # {}
            /\ "header" \in Known(Prog(x))[j] => r.hfork # {}
  PROVE  Jump(x, r, skip) \in Threads /\ ThreadOf(x, Jump(x, r, skip))
<1>0. Len(Prog(x)) \in Nat /\ r.at \in Nat
  BY RequestIs DEF Threads
<1>t. /\ 0 \in 0..MaxInode /\ "" \in Gots /\ "done" \in Places /\ "step" \in Places
      /\ 0 \in Nat /\ Nothing \in Items
  BY NothingIs, StoreAssumption DEF Gots, Places, Ended
<1> DEFINE n == r.at + 1 + skip
<1>1. CASE skip = Return \/ n > Len(Prog(x))
  <2>1. Jump(x, r, skip) = [r EXCEPT !.pc = "done", !.ino = 0, !.tries = 0, !.got = "", !.buf = Nothing]
    BY <1>1 DEF Jump
  <2>2. Jump(x, r, skip) \in Threads
    BY <2>1, <1>t DEF Threads
  <2>3. /\ Jump(x, r, skip).pc = "done" /\ Jump(x, r, skip).ts = r.ts
        /\ Jump(x, r, skip).latest = r.latest /\ Jump(x, r, skip).fork = r.fork
        /\ Jump(x, r, skip).hfork = r.hfork
    BY <2>1 DEF Threads
  <2> QED BY <2>2, <2>3 DEF ThreadOf, Writing, Ended
<1>2. CASE ~ (skip = Return \/ n > Len(Prog(x)))
  <2>1. Jump(x, r, skip) = [r EXCEPT !.pc = "step", !.at = n, !.ino = 0, !.tries = 0,
                                     !.got = "", !.buf = Nothing]
    BY <1>2 DEF Jump
  <2>2. n \in 1..Len(Prog(x)) /\ n \in To(Prog(x), r.at, skip)
    BY <1>0, <1>2 DEF To
  <2>3. Jump(x, r, skip) \in Threads
    <3>1. n \in Nat
      BY <1>0
    <3> HIDE DEF n
    <3> QED BY <2>1, <3>1, <1>t DEF Threads
  <2>4. /\ Jump(x, r, skip).pc = "step" /\ Jump(x, r, skip).at = n /\ Jump(x, r, skip).ts = r.ts
        /\ Jump(x, r, skip).latest = r.latest /\ Jump(x, r, skip).fork = r.fork
        /\ Jump(x, r, skip).hfork = r.hfork
    BY <2>1 DEF Threads
  <2> QED BY <2>2, <2>3, <2>4 DEF ThreadOf, Reading, Writing, Forgetting, Ended
<1> QED BY <1>1, <1>2

\* The statement that a thread is at.
LEMMA AtStmt ==
  ASSUME StoreInv, NEW x \in Thread, th[x].pc \notin Ended
  PROVE  /\ th[x] \in Threads /\ ThreadOf(x, th[x]) /\ th[x].at \in 1..Len(Prog(x))
         /\ Stmt(x) = Prog(x)[th[x].at] /\ Stmt(x) \in Statement
         /\ Stmt(x).ok \in Nat /\ Stmt(x).no \in Nat /\ Loc(x) \in Locations
         /\ \A j \in To(Prog(x), th[x].at, Stmt(x).ok) :
              Known(Prog(x))[j] \subseteq Known(Prog(x))[th[x].at] \cup Learnt(Stmt(x))
         /\ \A j \in To(Prog(x), th[x].at, Stmt(x).no) :
              Known(Prog(x))[j] \subseteq Known(Prog(x))[th[x].at]
         /\ Stmt(x).op \in {"parts", "forget"} =>
              \A j \in To(Prog(x), th[x].at, 0) : Known(Prog(x))[j] \subseteq Known(Prog(x))[th[x].at]
         /\ Stmt(x).op = "save" =>
              (IF Stmt(x).t = "LightBlock" THEN "header" ELSE "item") \in Known(Prog(x))[th[x].at]
<1>1. th[x] \in Threads /\ ThreadOf(x, th[x]) /\ th[x].at \in 1..Len(Prog(x))
  BY DEF StoreInv, TypeInv, FinalInv, ThreadOf
<1>2. Stmt(x) = Prog(x)[th[x].at]
  BY DEF Stmt
<1>3. Stmt(x) \in Statement /\ Loc(x) \in Locations /\ SavesWhatItHas(Prog(x), Known(Prog(x)))
  BY <1>1, <1>2, RequestIs DEF StoreInv, Loc
<1>4. Stmt(x).ok \in Nat /\ Stmt(x).no \in Nat
  BY <1>3 DEF Statement
<1> QED BY <1>1, <1>2, <1>3, <1>4 DEF SavesWhatItHas, Otherwise

\* A step of one thread, which may change the files.
LEMMA Moves ==
  ASSUME StoreInv, NEW x \in Thread, NEW r \in Threads, ThreadOf(x, r),
         th' = [th EXCEPT ![x] = r], UNCHANGED <<req, misread, fork, aged>>,
         path' \in [Locations -> 0..MaxInode], inode' \in [Inode -> Items],
         \A i \in Inode : Final(inode'[i])
  PROVE  StoreInv'
<1>1. \A y \in Thread : Prog(y)' = Prog(y)
  BY DEF Prog, Request
<1>2. Locations' = Locations
  BY <1>1 DEF Locations
<1>3. \A f : Final(f)' = Final(f)
  BY DEF Final
<1>4. th' \in [Thread -> Threads] /\ th'[x] = r /\ \A y \in Thread : y # x => th'[y] = th[y]
  BY DEF StoreInv, TypeInv
<1>5. TypeInv'
  BY <1>2, <1>4 DEF StoreInv, TypeInv
<1>6. ASSUME NEW y \in Thread PROVE ThreadOf(y, th[y])'
  <2>1. th'[y] = (IF y = x THEN r ELSE th[y]) /\ ThreadOf(y, th'[y])
    BY <1>4 DEF StoreInv, FinalInv
  <2>2. ThreadOf(y, th'[y]) => ThreadOf(y, th[y])'
    BY <1>1, <1>3 DEF ThreadOf, Final
  <2> QED BY <2>1, <2>2
<1> QED BY <1>3, <1>5, <1>6 DEF StoreInv, FinalInv

\* A step of one thread that changes no file and forgets none.
LEMMA Thinks ==
  ASSUME StoreInv, NEW x \in Thread, NEW r \in Threads, ThreadOf(x, r),
         th' = [th EXCEPT ![x] = r], UNCHANGED <<req, misread, fork, aged, inode>>,
         path' = path \/ path' = [path EXCEPT ![Loc(x)] = 0]
  PROVE  StoreInv'
<1>1. path' \in [Locations -> 0..MaxInode]
  BY StoreAssumption DEF StoreInv, TypeInv
<1>2. inode' \in [Inode -> Items] /\ \A i \in Inode : Final(inode'[i])
  BY DEF StoreInv, TypeInv, FinalInv
<1> QED BY <1>1, <1>2, Moves

-----------------------------------------------------------------------------
(* The statements.                                                        *)

\* What was known stays known: a jump after a failure, or after a statement that
\* taught nothing.
LEMMA JumpNo ==
  ASSUME StoreInv, NEW x \in Thread, th[x].pc \notin Ended
  PROVE  /\ Jump(x, th[x], Stmt(x).no) \in Threads /\ ThreadOf(x, Jump(x, th[x], Stmt(x).no))
         /\ Jump(x, Failing(x), Stmt(x).no) \in Threads /\ ThreadOf(x, Jump(x, Failing(x), Stmt(x).no))
         /\ Stmt(x).op = "forget" => Jump(x, th[x], 0) \in Threads /\ ThreadOf(x, Jump(x, th[x], 0))
         /\ Stmt(x).op = "save" =>
              Jump(x, th[x], Stmt(x).ok) \in Threads /\ ThreadOf(x, Jump(x, th[x], Stmt(x).ok))
<1> DEFINE r == th[x]
           k == Known(Prog(x))
<1>1. /\ r \in Threads /\ r.at \in 1..Len(Prog(x)) /\ r.ts # "zero"
      /\ r.latest = "aged" => aged /\ r.fork \subseteq {fork} /\ r.hfork \subseteq {fork}
      /\ "item" \in k[r.at] => r.fork # {}
      /\ "header" \in k[r.at] => r.hfork # {}
  BY AtStmt DEF ThreadOf
<1>2. /\ Failing(x) \in Threads /\ Failing(x).at = r.at /\ Failing(x).ts = r.ts
      /\ Failing(x).latest = r.latest /\ Failing(x).fork = r.fork /\ Failing(x).hfork = r.hfork
  <2>1. Failing(x) = [r EXCEPT !.src = "error"] \/ Failing(x) = [r EXCEPT !.src = r.src]
    BY DEF Failing
  <2> QED BY <1>1, <2>1 DEF Threads
<1>3. \A j \in To(Prog(x), r.at, Stmt(x).no) : k[j] \subseteq k[r.at]
  BY AtStmt
<1>4. Stmt(x).op = "forget" => \A j \in To(Prog(x), r.at, 0) : k[j] \subseteq k[r.at]
  BY AtStmt
<1>5. Stmt(x).op = "save" => \A j \in To(Prog(x), r.at, Stmt(x).ok) : k[j] \subseteq k[r.at]
  BY AtStmt DEF Learnt
<1>6. Stmt(x).no \in Nat /\ Stmt(x).ok \in Nat /\ 0 \in Nat /\ TypeInv
  BY AtStmt DEF StoreInv
<1> HIDE DEF r, k
<1>k. k = Known(Prog(x)) /\ r = th[x]
  BY DEF k, r
<1>7. \A s \in Threads : s.at = r.at /\ s.ts = r.ts /\ s.latest = r.latest /\ s.fork = r.fork /\ s.hfork = r.hfork
        => \A skip \in Nat : (\A j \in To(Prog(x), r.at, skip) : k[j] \subseteq k[r.at])
             => Jump(x, s, skip) \in Threads /\ ThreadOf(x, Jump(x, s, skip))
  BY <1>1, <1>6, <1>k, JumpIs
<1> QED BY <1>1, <1>2, <1>3, <1>4, <1>5, <1>6, <1>7, <1>k

\* newConnection, with or without the time of the latest block.
LEMMA ConnectStep == ASSUME StoreInv, NEW x \in Thread, Connect(x) PROVE StoreInv'
<1>1. PICK l \in {"none", IF aged THEN "aged" ELSE "young"} :
        th' = [th EXCEPT ![x].latest = l, ![x].pc = "step"]
  BY DEF Connect
<1> DEFINE r == [th[x] EXCEPT !.latest = l, !.pc = "step"]
<1>2. th[x] \in Threads /\ ThreadOf(x, th[x]) /\ th[x].pc = "connect"
  BY DEF StoreInv, TypeInv, FinalInv, Connect
<1>3. th' = [th EXCEPT ![x] = r]
  BY <1>1 DEF StoreInv, TypeInv
<1>4. l \in {"none", "young", "aged"} /\ (l = "aged" => aged)
  OBVIOUS
<1>5. r \in Threads /\ r.pc = "step" /\ r.latest = l /\ r.ts = th[x].ts /\ r.at = th[x].at
      /\ r.fork = th[x].fork /\ r.hfork = th[x].hfork
  BY <1>2, <1>4 DEF Threads, Places
<1> HIDE DEF r
<1>6. ThreadOf(x, r)
  BY <1>2, <1>4, <1>5 DEF ThreadOf, Reading, Writing, Forgetting, Ended
<1> QED BY <1>3, <1>5, <1>6, Thinks DEF Connect, Files, World

\* A getter has all its parts from the cache.
LEMMA FinishStep == ASSUME StoreInv, NEW x \in Thread, Finish(x) PROVE StoreInv'
<1> DEFINE s == [th[x] EXCEPT !.src = "cache"]
<1>1. th[x].pc = "step" /\ th[x] \in Threads /\ ThreadOf(x, th[x]) /\ th[x].at \in 1..Len(Prog(x))
  BY AtStmt DEF Finish, At, Ended
<1>2. s \in Threads /\ s.at = th[x].at /\ s.ts = th[x].ts /\ s.latest = th[x].latest
      /\ s.fork = th[x].fork /\ s.hfork = th[x].hfork
  BY <1>1 DEF Threads
<1> HIDE DEF s
<1>3. To(Prog(x), s.at, Return) = {} /\ Return \in Nat
  BY DEF To, Return
<1>4. Jump(x, s, Return) \in Threads /\ ThreadOf(x, Jump(x, s, Return))
  BY <1>1, <1>2, <1>3, JumpIs DEF ThreadOf, StoreInv
<1>5. th' = [th EXCEPT ![x] = Jump(x, s, Return)]
  BY DEF Finish, s
<1> QED BY <1>4, <1>5, Thinks DEF Finish, Files, World

\* The node has answered: of the block as it is now.
LEMMA AskStep == ASSUME StoreInv, NEW x \in Thread, AskNode(x) PROVE StoreInv'
<1>1. th[x].pc = "step" /\ th[x].pc \notin Ended /\ Stmt(x).op = "ask"
  BY DEF AskNode, At, Ended
<1>2. CASE th' = [th EXCEPT ![x] = Jump(x, Failing(x), Stmt(x).no)]
  BY <1>1, <1>2, JumpNo, Thinks DEF AskNode, Files, World
<1>3. CASE th' = [th EXCEPT ![x] = Jump(x, Answered(x), Stmt(x).ok)]
  <2>1. th[x] \in Threads /\ ThreadOf(x, th[x]) /\ fork \in Nat
    BY <1>1, AtStmt DEF StoreInv, TypeInv
  <2> DEFINE h == IF Stmt(x).t \in Stamped THEN {fork} ELSE th[x].hfork
             w == IF Stmt(x).t \in Stamped THEN "ts" ELSE th[x].ts
  <2>2. h \in SUBSET Nat /\ w \in {"none", "ts", "zero"} /\ (w = "zero" => th[x].ts = "zero")
    BY <2>1 DEF Threads
  <2>3. Answered(x) = [th[x] EXCEPT !.fork = th[x].fork \cup {fork}, !.src = "node",
                                    !.hfork = h, !.ts = w]
    BY DEF Answered
  <2>h. h = IF Stmt(x).t \in Stamped THEN {fork} ELSE th[x].hfork
    OBVIOUS
  <2> HIDE DEF h, w
  <2>4. Answered(x) \in Threads /\ Answered(x).at = th[x].at /\ Answered(x).ts = w
        /\ Answered(x).latest = th[x].latest /\ Answered(x).fork = th[x].fork \cup {fork}
        /\ Answered(x).hfork = h
    <3> DEFINE g == th[x].fork \cup {fork}
    <3>1. g \in SUBSET Nat
      BY <2>1 DEF Threads
    <3> HIDE DEF g
    <3>2. Answered(x) = [th[x] EXCEPT !.fork = g, !.src = "node", !.hfork = h, !.ts = w]
      BY <2>3 DEF g
    <3>3. Answered(x) \in Threads
      BY <2>1, <2>2, <3>1, <3>2 DEF Threads
    <3>4. Answered(x).at = th[x].at /\ Answered(x).ts = w /\ Answered(x).latest = th[x].latest
          /\ Answered(x).fork = g /\ Answered(x).hfork = h
      BY <2>1, <3>2 DEF Threads
    <3> QED BY <3>3, <3>4 DEF g
  <2>5. \A j \in To(Prog(x), th[x].at, Stmt(x).ok) :
          "header" \in Known(Prog(x))[j] => h # {}
    <3> TAKE j \in To(Prog(x), th[x].at, Stmt(x).ok)
    <3>1. Known(Prog(x))[j] \subseteq Known(Prog(x))[th[x].at] \cup Learnt(Stmt(x))
      BY <1>1, AtStmt
    <3>2. "header" \in Learnt(Stmt(x)) => Stmt(x).t \in Stamped
      BY <1>1 DEF Learnt
    <3>3. "header" \in Known(Prog(x))[th[x].at] => th[x].hfork # {}
      BY <1>1, <2>1 DEF ThreadOf
    <3> QED BY <3>1, <3>2, <3>3, <2>h
  <2>6. th[x].latest = "aged" => aged /\ th[x].fork \cup {fork} \subseteq {fork} /\ h \subseteq {fork}
    BY <2>1, <2>h DEF ThreadOf
  <2>7. w # "zero" /\ Stmt(x).ok \in Nat /\ th[x].at \in 1..Len(Prog(x)) /\ TypeInv
    BY <1>1, <2>1, <2>2, AtStmt DEF ThreadOf, StoreInv
  <2>8. Jump(x, Answered(x), Stmt(x).ok) \in Threads /\ ThreadOf(x, Jump(x, Answered(x), Stmt(x).ok))
    BY <2>4, <2>5, <2>6, <2>7, JumpIs
  <2> QED BY <1>3, <2>8, Thinks DEF AskNode, Files, World
<1> QED BY <1>2, <1>3 DEF AskNode

\* The query of the node for a timestamp, which may leave it zero.
LEMMA HeadStep == ASSUME NodeTellsTime, StoreInv, NEW x \in Thread, AskHead(x) PROVE StoreInv'
<1> DEFINE s == [th[x] EXCEPT !.ts = "ts", !.hfork = {fork}]
<1>1. th[x].pc = "step" /\ th[x].pc \notin Ended /\ Stmt(x).op = "head"
      /\ th' = [th EXCEPT ![x] = Jump(x, s, Stmt(x).ok)]
  BY DEF AskHead, At, Ended, NodeTellsTime
<1>2. th[x] \in Threads /\ ThreadOf(x, th[x]) /\ fork \in Nat /\ TypeInv
      /\ th[x].at \in 1..Len(Prog(x)) /\ Stmt(x).ok \in Nat
  BY <1>1, AtStmt DEF StoreInv, TypeInv
<1>3. s \in Threads /\ s.at = th[x].at /\ s.ts = "ts" /\ s.latest = th[x].latest
      /\ s.fork = th[x].fork /\ s.hfork = {fork}
  BY <1>2 DEF Threads
<1> HIDE DEF s
<1>4. \A j \in To(Prog(x), th[x].at, Stmt(x).ok) : "item" \in Known(Prog(x))[j] => th[x].fork # {}
  <2> TAKE j \in To(Prog(x), th[x].at, Stmt(x).ok)
  <2>1. Known(Prog(x))[j] \subseteq Known(Prog(x))[th[x].at] \cup Learnt(Stmt(x))
    BY <1>1, AtStmt
  <2>2. "item" \notin Learnt(Stmt(x))
    BY <1>1 DEF Learnt
  <2> QED BY <1>1, <1>2, <2>1, <2>2 DEF ThreadOf
<1>5. Jump(x, s, Stmt(x).ok) \in Threads /\ ThreadOf(x, Jump(x, s, Stmt(x).ok))
  BY <1>2, <1>3, <1>4, JumpIs DEF ThreadOf
<1> QED BY <1>1, <1>5, Thinks DEF AskHead, Files, World

-----------------------------------------------------------------------------
(* Reading.                                                               *)

\* A thread that goes on with the statement it is at.
LEMMA Stays ==
  ASSUME StoreInv, NEW x \in Thread, th[x].pc \notin Ended, NEW r \in Threads,
         r.at = th[x].at, r.ts = th[x].ts, r.latest = th[x].latest,
         r.fork = th[x].fork, r.hfork = th[x].hfork, r.pc # "connect",
         r.pc \in {"rlock", "read", "wlock", "write"} => r.ino \in Inode,
         r.pc \in {"remove", "rclose"} => Final(r.buf),
         r.pc = "remove" => r.got = "failed",
         r.pc = "rclose" /\ r.got # "failed" => r.buf.st # "empty",
         r.pc \in Writing => r.latest = "aged" /\ Stmt(x).op = "save",
         r.pc \in Reading => Stmt(x).op \in {"look", "parts"},
         r.pc \in Forgetting => Stmt(x).op = "forget"
  PROVE  ThreadOf(x, r)
<1>1. ThreadOf(x, th[x]) /\ Stmt(x) = Prog(x)[th[x].at]
  BY AtStmt
<1> QED BY <1>1 DEF ThreadOf

\* Store.Read opens the file.
LEMMA OpenReadStep == ASSUME StoreInv, NEW x \in Thread, OpenRead(x) PROVE StoreInv'
<1>1. th[x].pc = "step" /\ th[x].pc \notin Ended /\ Stmt(x).op \in {"look", "parts"}
  BY DEF OpenRead, At, Ended
<1>2. CASE path[Loc(x)] = 0
  BY <1>1, <1>2, JumpNo, Thinks DEF OpenRead, Files, World
<1>3. CASE path[Loc(x)] # 0
  <2> DEFINE i == path[Loc(x)]
             r == [th[x] EXCEPT !.ino = i, !.tries = 0, !.pc = "rlock"]
  <2>1. i \in Inode /\ i \in 0..MaxInode /\ th[x] \in Threads /\ th \in [Thread -> Threads]
    BY <1>1, <1>3, AtStmt, StoreAssumption DEF StoreInv, TypeInv, Inode
  <2>2. th' = [th EXCEPT ![x] = r]
    BY <1>3, <2>1 DEF OpenRead
  <2> HIDE DEF i
  <2>3. r \in Threads /\ r.pc = "rlock" /\ r.ino = i /\ r.at = th[x].at /\ r.ts = th[x].ts
        /\ r.latest = th[x].latest /\ r.fork = th[x].fork /\ r.hfork = th[x].hfork
    BY <2>1 DEF Threads, Places, Reading
  <2> HIDE DEF r
  <2>4. ThreadOf(x, r)
    BY <1>1, <2>1, <2>3, Stays DEF Reading, Writing, Forgetting
  <2> QED BY <2>2, <2>3, <2>4, Thinks DEF OpenRead, Files, World
<1> QED BY <1>2, <1>3

\* file.Lock, for reading and for writing.
LEMMA LockStep ==
  ASSUME StoreInv, NEW x \in Thread, LockRead(x) \/ LockWrite(x)
  PROVE  StoreInv'
<1>1. PICK from \in {"rlock", "wlock"}, to \in {"read", "write"} :
        TryLock(x, from, to) /\ (from = "rlock" <=> to = "read")
  BY DEF LockRead, LockWrite
<1>2. th[x].pc = from /\ th[x].pc \notin Ended /\ th[x] \in Threads /\ ThreadOf(x, th[x])
      /\ th \in [Thread -> Threads] /\ Stmt(x) = Prog(x)[th[x].at]
  BY <1>1, AtStmt DEF TryLock, Ended, StoreInv, TypeInv
<1>3. UNCHANGED <<req, misread, fork, aged, inode, path>>
  BY <1>1 DEF TryLock, World
<1>4. CASE Go(x, to)
  <2> DEFINE r == [th[x] EXCEPT !.pc = to]
  <2>1. th' = [th EXCEPT ![x] = r]
    BY <1>2, <1>4 DEF Go
  <2>2. r \in Threads /\ r.pc = to /\ r.ino = th[x].ino /\ r.at = th[x].at /\ r.ts = th[x].ts
        /\ r.latest = th[x].latest /\ r.fork = th[x].fork /\ r.hfork = th[x].hfork
    BY <1>2 DEF Threads, Places, Reading, Writing
  <2> HIDE DEF r
  <2>3. ThreadOf(x, r)
    BY <1>1, <1>2, <2>2, Stays DEF ThreadOf, Reading, Writing, Forgetting, Ended
  <2> QED BY <1>3, <2>1, <2>2, <2>3, Thinks
<1>5. CASE th' = [th EXCEPT ![x].tries = @ + 1]
  <2> DEFINE r == [th[x] EXCEPT !.tries = @ + 1]
  <2>1. th' = [th EXCEPT ![x] = r]
    BY <1>2, <1>5
  <2>2. r \in Threads /\ r.pc = from /\ r.ino = th[x].ino /\ r.at = th[x].at /\ r.ts = th[x].ts
        /\ r.latest = th[x].latest /\ r.fork = th[x].fork /\ r.hfork = th[x].hfork
    BY <1>2 DEF Threads, Places, Reading, Writing
  <2> HIDE DEF r
  <2>3. ThreadOf(x, r)
    BY <1>1, <1>2, <2>2, Stays DEF ThreadOf, Reading, Writing, Forgetting, Ended
  <2> QED BY <1>3, <2>1, <2>2, <2>3, Thinks
<1>6. CASE th' = [th EXCEPT ![x] = Jump(x, Failing(x), Stmt(x).no)]
  BY <1>2, <1>3, <1>6, JumpNo, Thinks
<1> QED BY <1>1, <1>4, <1>5, <1>6 DEF TryLock

\* What is read is what is in the file at that moment: an empty file is not an item.
LEMMA ReadStep == ASSUME EmptyIsUnreadable, StoreInv, NEW x \in Thread, ReadFile(x) PROVE StoreInv'
<1>1. th[x].pc = "read" /\ th[x].pc \notin Ended /\ th[x] \in Threads /\ ThreadOf(x, th[x])
      /\ th \in [Thread -> Threads] /\ Stmt(x) = Prog(x)[th[x].at]
  BY AtStmt DEF ReadFile, Ended, StoreInv, TypeInv
<1> DEFINE f == inode[th[x].ino]
<1>2. th[x].ino \in Inode /\ f \in Items /\ Final(f)
  BY <1>1 DEF ThreadOf, StoreInv, TypeInv, FinalInv
<1>3. PICK d \in Decoded(x) :
        th' = [th EXCEPT ![x].got = d, ![x].buf = f,
                         ![x].pc = IF d = "failed" THEN "remove" ELSE "rclose"]
  BY DEF ReadFile
<1>4. d \in Gots /\ (d = "failed" \/ f.st # "empty")
  <2> DEFINE hits == {n \in misread : n.as = Stmt(x).t /\ n.t = f.t /\ n.v = f.v /\ n.st = f.st}
             wrong == {m.got : m \in hits}
  <2>1. Decoded(x) = IF wrong # {} THEN wrong ELSE {IF f.st = "whole" THEN "whole" ELSE "failed"}
    BY DEF Decoded
  <2>2. CASE wrong # {}
    <3>1. PICK m \in hits : d = m.got
      BY <2>1, <2>2
    <3>2. m \in Misreads /\ m.st = f.st
      BY <3>1 DEF StoreInv, TypeInv
    <3> QED BY <3>1, <3>2 DEF EmptyIsUnreadable, Gots
  <2>3. CASE wrong = {}
    BY <2>1, <2>3 DEF Gots
  <2> QED BY <2>2, <2>3
<1> DEFINE at == IF d = "failed" THEN "remove" ELSE "rclose"
           r == [th[x] EXCEPT !.got = d, !.buf = f, !.pc = at]
<1>5. th' = [th EXCEPT ![x] = r]
  BY <1>1, <1>3
<1>6. at \in {"remove", "rclose"} /\ (at = "remove" <=> d = "failed")
  OBVIOUS
<1> HIDE DEF f, at
<1>7. r \in Threads /\ r.pc = at /\ r.got = d /\ r.buf = f /\ r.at = th[x].at /\ r.ts = th[x].ts
      /\ r.latest = th[x].latest /\ r.fork = th[x].fork /\ r.hfork = th[x].hfork
  BY <1>1, <1>2, <1>4, <1>6 DEF Threads, Places, Reading
<1> HIDE DEF r
<1>8. Stmt(x).op \in {"look", "parts"}
  BY <1>1 DEF ThreadOf, Reading, Ended
<1>9. ThreadOf(x, r)
  BY <1>1, <1>2, <1>4, <1>6, <1>7, <1>8, Stays DEF Reading, Writing, Forgetting
<1> QED BY <1>5, <1>7, <1>9, Thinks DEF ReadFile, Files, World

\* Store.Read removes what it cannot read.
LEMMA RemoveStep == ASSUME StoreInv, NEW x \in Thread, RemoveUnreadable(x) PROVE StoreInv'
<1>1. th[x].pc = "remove" /\ th[x].pc \notin Ended /\ th[x] \in Threads /\ ThreadOf(x, th[x])
      /\ th \in [Thread -> Threads] /\ Stmt(x) = Prog(x)[th[x].at]
  BY AtStmt DEF RemoveUnreadable, Ended, StoreInv, TypeInv
<1> DEFINE r == [th[x] EXCEPT !.pc = "rclose"]
<1>2. th' = [th EXCEPT ![x] = r]
  BY <1>1 DEF RemoveUnreadable, Go
<1>3. r \in Threads /\ r.pc = "rclose" /\ r.got = "failed" /\ r.buf = th[x].buf /\ r.at = th[x].at
      /\ r.ts = th[x].ts
      /\ r.latest = th[x].latest /\ r.fork = th[x].fork /\ r.hfork = th[x].hfork
  BY <1>1 DEF ThreadOf, Threads, Places, Reading
<1> HIDE DEF r
<1>4. ThreadOf(x, r)
  BY <1>1, <1>3, Stays DEF ThreadOf, Reading, Writing, Forgetting, Ended
<1> QED BY <1>2, <1>3, <1>4, Thinks DEF RemoveUnreadable, World

\* An item that was read is of the block as it is for good.
LEMMA CloseReadStep == ASSUME StoreInv, NEW x \in Thread, CloseRead(x) PROVE StoreInv'
<1>1. th[x].pc = "rclose" /\ th[x].pc \notin Ended /\ th[x] \in Threads /\ ThreadOf(x, th[x])
      /\ Stmt(x).op \in {"look", "parts"} /\ TypeInv /\ fork \in Nat
      /\ th[x].at \in 1..Len(Prog(x)) /\ Stmt(x).ok \in Nat
  BY AtStmt DEF CloseRead, Ended, StoreInv, TypeInv, ThreadOf, Reading
<1>u. UNCHANGED <<path, inode, req, misread, fork, aged>>
  BY DEF CloseRead, World
<1>2. CASE th[x].got = "failed"
  <2>1. th' = [th EXCEPT ![x] = Jump(x, th[x], Stmt(x).no)]
    BY <1>2 DEF CloseRead
  <2> QED BY <1>1, <1>u, <2>1, JumpNo, Thinks
<1>3. CASE th[x].got # "failed"
  <2>1. th' = [th EXCEPT ![x] = Hit(x, th[x])]
    BY <1>3 DEF CloseRead
  <2> DEFINE b == th[x].buf
             w == IF Stmt(x).t = "LightBlock" THEN "ts" ELSE th[x].ts
             g == th[x].fork \cup b.fork
             p == th[x].parts \cup b.parts
             seen == [th[x] EXCEPT !.ts = w, !.fork = g]
             answer == [seen EXCEPT !.src = "cache", !.fork = b.fork, !.parts = b.parts]
             more == [seen EXCEPT !.parts = p]
  <2>2. \/ Hit(x, th[x]) = Jump(x, answer, Return)
        \/ Stmt(x).op = "look" /\ Hit(x, th[x]) = Jump(x, seen, Stmt(x).ok)
        \/ Stmt(x).op = "parts" /\ Hit(x, th[x]) = Jump(x, more, 0)
    BY <1>1 DEF Hit
  <2>3. b \in Items /\ aged /\ b.fork = {fork}
    BY <1>1, <1>3 DEF ThreadOf, Final, Threads
  <2>4. w \in {"none", "ts", "zero"} /\ w # "zero" /\ g \in SUBSET Nat /\ fork \in g
        /\ p \in SUBSET Parts /\ b.parts \in SUBSET Parts /\ b.fork \in SUBSET Nat
    BY <1>1, <2>3 DEF ThreadOf, Threads, Items
  <2>5. th[x].latest = "aged" => aged /\ g \subseteq {fork} /\ th[x].hfork \subseteq {fork}
    BY <1>1, <2>3 DEF ThreadOf
  <2> HIDE DEF b, w, g, p
  <2>6. /\ seen \in Threads /\ seen.at = th[x].at /\ seen.ts = w /\ seen.latest = th[x].latest
        /\ seen.fork = g /\ seen.hfork = th[x].hfork
    BY <1>1, <2>4 DEF Threads
  <2> HIDE DEF seen
  <2>7. /\ answer \in Threads /\ answer.at = th[x].at /\ answer.ts = w /\ answer.latest = th[x].latest
        /\ answer.fork = b.fork /\ answer.hfork = th[x].hfork
    BY <2>4, <2>6 DEF Threads
  <2>8. /\ more \in Threads /\ more.at = th[x].at /\ more.ts = w /\ more.latest = th[x].latest
        /\ more.fork = g /\ more.hfork = th[x].hfork
    BY <2>4, <2>6 DEF Threads
  <2> HIDE DEF answer, more
  <2>9. Jump(x, answer, Return) \in Threads /\ ThreadOf(x, Jump(x, answer, Return))
    <3>1. To(Prog(x), answer.at, Return) = {} /\ Return \in Nat
      BY DEF To, Return
    <3> QED BY <1>1, <2>3, <2>4, <2>5, <2>7, <3>1, JumpIs
  <2>10. ASSUME Stmt(x).op = "look"
         PROVE  Jump(x, seen, Stmt(x).ok) \in Threads /\ ThreadOf(x, Jump(x, seen, Stmt(x).ok))
    <3>1. \A j \in To(Prog(x), th[x].at, Stmt(x).ok) : "header" \in Known(Prog(x))[j] => th[x].hfork # {}
      <4> TAKE j \in To(Prog(x), th[x].at, Stmt(x).ok)
      <4>1. Known(Prog(x))[j] \subseteq Known(Prog(x))[th[x].at] \cup Learnt(Stmt(x))
        BY <1>1, AtStmt
      <4>2. "header" \notin Learnt(Stmt(x))
        BY <2>10 DEF Learnt
      <4> QED BY <1>1, <4>1, <4>2 DEF ThreadOf
    <3> QED BY <1>1, <2>4, <2>5, <2>6, <3>1, JumpIs
  <2>11. ASSUME Stmt(x).op = "parts"
         PROVE  Jump(x, more, 0) \in Threads /\ ThreadOf(x, Jump(x, more, 0))
    <3>1. \A j \in To(Prog(x), th[x].at, 0) : "header" \in Known(Prog(x))[j] => th[x].hfork # {}
      <4> TAKE j \in To(Prog(x), th[x].at, 0)
      <4>1. Known(Prog(x))[j] \subseteq Known(Prog(x))[th[x].at]
        BY <1>1, <2>11, AtStmt
      <4> QED BY <1>1, <4>1 DEF ThreadOf
    <3> QED BY <1>1, <2>4, <2>5, <2>8, <3>1, JumpIs
  <2>12. Hit(x, th[x]) \in Threads /\ ThreadOf(x, Hit(x, th[x]))
    BY <2>2, <2>9, <2>10, <2>11
  <2> QED BY <1>u, <2>1, <2>12, Thinks
<1> QED BY <1>2, <1>3

-----------------------------------------------------------------------------
(* Writing.                                                               *)

\* Nothing is written unless the block was old enough when the connection was made.
LEMMA MakeFolderStep == ASSUME StoreInv, NEW x \in Thread, MakeFolder(x) PROVE StoreInv'
<1>1. th[x].pc = "step" /\ th[x].pc \notin Ended /\ th[x] \in Threads /\ ThreadOf(x, th[x])
      /\ th \in [Thread -> Threads] /\ Stmt(x).op = "save"
  BY AtStmt DEF MakeFolder, At, Ended, StoreInv, TypeInv
<1>u. UNCHANGED <<path, inode, req, misread, fork, aged>>
  BY DEF MakeFolder, World
<1>2. CASE th' = [th EXCEPT ![x] = Jump(x, th[x], Stmt(x).ok)]
  BY <1>1, <1>2, <1>u, JumpNo, Thinks
<1>3. CASE IsFinal(th[x].latest, th[x].ts) /\ Go(x, "wopen")
  <2> DEFINE r == [th[x] EXCEPT !.pc = "wopen"]
  <2>1. th' = [th EXCEPT ![x] = r]
    BY <1>3 DEF Go
  <2>2. th[x].latest = "aged"
    BY <1>1, <1>3 DEF IsFinal, ThreadOf
  <2>3. r \in Threads /\ r.pc = "wopen" /\ r.at = th[x].at /\ r.ts = th[x].ts
        /\ r.latest = th[x].latest /\ r.fork = th[x].fork /\ r.hfork = th[x].hfork
    BY <1>1 DEF Threads, Places, Writing
  <2> HIDE DEF r
  <2>4. ThreadOf(x, r)
    BY <1>1, <2>2, <2>3, Stays DEF Reading, Writing, Forgetting
  <2> QED BY <1>u, <2>1, <2>3, <2>4, Thinks
<1> QED BY <1>2, <1>3 DEF MakeFolder

\* Store.Write opens the file, which empties it before the lock is taken.
LEMMA OpenWriteStep == ASSUME StoreInv, NEW x \in Thread, OpenWrite(x) PROVE StoreInv'
<1>1. th[x].pc = "wopen" /\ th[x].pc \notin Ended /\ th[x] \in Threads /\ ThreadOf(x, th[x])
      /\ th \in [Thread -> Threads] /\ Stmt(x) = Prog(x)[th[x].at] /\ Loc(x) \in Locations
  BY AtStmt DEF OpenWrite, Ended, StoreInv, TypeInv
<1>u. UNCHANGED <<req, misread, fork, aged>>
  BY DEF OpenWrite, World
<1>2. CASE th' = [th EXCEPT ![x] = Jump(x, Failing(x), Stmt(x).no)] /\ UNCHANGED <<path, inode>>
  BY <1>1, <1>2, <1>u, JumpNo, Thinks
<1>3. CASE \E i \in Inode : /\ path' = [path EXCEPT ![Loc(x)] = i]
                            /\ inode' = [inode EXCEPT ![i] = Nothing]
                            /\ th' = [th EXCEPT ![x].ino = i, ![x].tries = 0, ![x].pc = "wlock"]
  <2>1. PICK i \in Inode : /\ path' = [path EXCEPT ![Loc(x)] = i]
                           /\ inode' = [inode EXCEPT ![i] = Nothing]
                           /\ th' = [th EXCEPT ![x].ino = i, ![x].tries = 0, ![x].pc = "wlock"]
    BY <1>3
  <2> DEFINE r == [th[x] EXCEPT !.ino = i, !.tries = 0, !.pc = "wlock"]
  <2>2. th' = [th EXCEPT ![x] = r]
    BY <1>1, <2>1
  <2>3. i \in 0..MaxInode
    BY StoreAssumption DEF Inode
  <2>4. r \in Threads /\ r.pc = "wlock" /\ r.ino = i /\ r.at = th[x].at /\ r.ts = th[x].ts
        /\ r.latest = th[x].latest /\ r.fork = th[x].fork /\ r.hfork = th[x].hfork
    BY <1>1, <2>3 DEF Threads, Places, Writing
  <2> HIDE DEF r
  <2>5. ThreadOf(x, r)
    BY <1>1, <2>4, Stays DEF ThreadOf, Reading, Writing, Forgetting, Ended
  <2>6. path' \in [Locations -> 0..MaxInode]
    BY <2>1, <2>3 DEF StoreInv, TypeInv
  <2>7. inode' \in [Inode -> Items] /\ \A j \in Inode : Final(inode'[j])
    BY <2>1, NothingIs DEF StoreInv, TypeInv, FinalInv, Final
  <2> QED BY <1>u, <2>2, <2>4, <2>5, <2>6, <2>7, Moves
<1> QED BY <1>2, <1>3 DEF OpenWrite

\* The bytes are written, all of them or some.
LEMMA WriteStep == ASSUME StoreInv, NEW x \in Thread, WriteFile(x) PROVE StoreInv'
<1>1. th[x].pc = "write" /\ th[x].pc \notin Ended /\ th[x] \in Threads /\ ThreadOf(x, th[x])
      /\ th \in [Thread -> Threads] /\ Stmt(x) = Prog(x)[th[x].at] /\ Stmt(x) \in Statement
      /\ Stmt(x).op = "save"
      /\ (IF Stmt(x).t = "LightBlock" THEN "header" ELSE "item") \in Known(Prog(x))[th[x].at]
  BY AtStmt DEF WriteFile, Ended, StoreInv, TypeInv, ThreadOf, Writing
<1>2. Written(x).fork = {fork} /\ aged
  <2>1. th[x].latest = "aged"
    BY <1>1 DEF ThreadOf, Writing
  <2>2. /\ "item" \in Known(Prog(x))[th[x].at] => th[x].fork # {}
        /\ "header" \in Known(Prog(x))[th[x].at] => th[x].hfork # {}
        /\ aged /\ th[x].fork \subseteq {fork} /\ th[x].hfork \subseteq {fork}
    BY <1>1, <2>1 DEF ThreadOf
  <2>3. Written(x).fork = IF Stmt(x).t = "LightBlock" THEN th[x].hfork ELSE th[x].fork
    BY DEF Written
  <2> QED BY <1>1, <2>2, <2>3
<1>3. Written(x) \in Items /\ [Written(x) EXCEPT !.st = "torn"] \in Items
      /\ [Written(x) EXCEPT !.st = "torn"].fork = {fork}
  <2>1. Written(x) \in Items
    BY <1>1 DEF Written, Items, Threads, Statement
  <2> QED BY <1>2, <2>1 DEF Items
<1>4. PICK f \in Items, g \in {"ok", "failed"} :
        /\ f.fork = {fork}
        /\ inode' = [inode EXCEPT ![th[x].ino] = f]
        /\ th' = [th EXCEPT ![x].got = g, ![x].pc = "wclose"]
  BY <1>2, <1>3 DEF WriteFile
<1> DEFINE r == [th[x] EXCEPT !.got = g, !.pc = "wclose"]
<1>5. th' = [th EXCEPT ![x] = r]
  BY <1>1, <1>4
<1>6. r \in Threads /\ r.pc = "wclose" /\ r.ino = th[x].ino /\ r.at = th[x].at /\ r.ts = th[x].ts
      /\ r.latest = th[x].latest /\ r.fork = th[x].fork /\ r.hfork = th[x].hfork
  BY <1>1 DEF Threads, Places, Writing, Gots
<1> HIDE DEF r
<1>7. ThreadOf(x, r)
  BY <1>1, <1>6, Stays DEF ThreadOf, Reading, Writing, Forgetting, Ended
<1>8. inode' \in [Inode -> Items] /\ \A j \in Inode : Final(inode'[j])
  BY <1>2, <1>4 DEF StoreInv, TypeInv, FinalInv, Final
<1>9. UNCHANGED <<path, req, misread, fork, aged>> /\ path' \in [Locations -> 0..MaxInode]
  BY DEF WriteFile, World, StoreInv, TypeInv
<1> QED BY <1>5, <1>6, <1>7, <1>8, <1>9, Moves

\* The file is closed and the lock is released.
LEMMA CloseWriteStep == ASSUME StoreInv, NEW x \in Thread, CloseWrite(x) PROVE StoreInv'
<1>1. th[x].pc = "wclose" /\ th[x].pc \notin Ended /\ Stmt(x).op = "save"
  BY AtStmt DEF CloseWrite, Ended, ThreadOf, Writing
<1>2. UNCHANGED <<path, inode, req, misread, fork, aged>>
  BY DEF CloseWrite, World
<1>3. \/ th' = [th EXCEPT ![x] = Jump(x, th[x], Stmt(x).ok)]
      \/ th' = [th EXCEPT ![x] = Jump(x, Failing(x), Stmt(x).no)]
  BY DEF CloseWrite
<1> QED BY <1>1, <1>2, <1>3, JumpNo, Thinks

-----------------------------------------------------------------------------
(* Removing, and what happens around the requests.                        *)

\* Decache removes a file and the folders that it empties.
LEMMA ForgetStep ==
  ASSUME StoreInv, NEW x \in Thread, ForgetItem(x) \/ FolderEmpty(x) \/ RemoveFolder(x)
  PROVE  StoreInv'
<1>1. th[x].pc \notin Ended /\ th[x] \in Threads /\ ThreadOf(x, th[x]) /\ Stmt(x).op = "forget"
  <2>1. th[x].pc \notin Ended
    BY DEF ForgetItem, FolderEmpty, RemoveFolder, At, Ended
  <2> QED BY <2>1, AtStmt
          DEF ForgetItem, FolderEmpty, RemoveFolder, At, ThreadOf, Forgetting
<1>2. UNCHANGED <<inode, req, misread, fork, aged>>
      /\ (path' = path \/ path' = [path EXCEPT ![Loc(x)] = 0])
  BY DEF ForgetItem, FolderEmpty, RemoveFolder, Files, World
<1>3. CASE th' = [th EXCEPT ![x] = Jump(x, th[x], 0)]
  BY <1>1, <1>2, <1>3, JumpNo, Thinks
<1>4. CASE \E at \in Forgetting : th' = [th EXCEPT ![x] = [th[x] EXCEPT !.pc = at]]
  <2>1. PICK at \in Forgetting : th' = [th EXCEPT ![x] = [th[x] EXCEPT !.pc = at]]
    BY <1>4
  <2> DEFINE r == [th[x] EXCEPT !.pc = at]
  <2>2. r \in Threads /\ r.pc = at /\ r.at = th[x].at /\ r.ts = th[x].ts
        /\ r.latest = th[x].latest /\ r.fork = th[x].fork /\ r.hfork = th[x].hfork
    BY <1>1 DEF Threads, Places
  <2>3. th' = [th EXCEPT ![x] = r]
    BY <2>1
  <2> HIDE DEF r
  <2>4. ThreadOf(x, r)
    BY <1>1, <2>2, Stays DEF Reading, Writing, Forgetting
  <2> QED BY <1>2, <2>2, <2>3, <2>4, Thinks
<1>5. "isempty" \in Forgetting /\ "rmdir" \in Forgetting
  BY DEF Forgetting
<1> QED BY <1>3, <1>4, <1>5 DEF ForgetItem, FolderEmpty, RemoveFolder

\* Every step of a thread keeps the invariant.
LEMMA StepStep ==
  ASSUME NodeTellsTime, EmptyIsUnreadable, StoreInv, NEW x \in Thread, Step(x)
  PROVE  StoreInv'
BY ConnectStep, FinishStep, AskStep, HeadStep, OpenReadStep, LockStep, ReadStep, RemoveStep,
   CloseReadStep, MakeFolderStep, OpenWriteStep, WriteStep, CloseWriteStep, ForgetStep DEF Step

\* A block that may still be replaced is in no file, and nobody takes it for final.
LEMMA ChainStep == ASSUME StoreInv, Reorg \/ Age PROVE StoreInv'
<1>1. UNCHANGED <<path, inode, req, misread, th>> /\ ~aged /\ fork' \in Nat /\ aged' \in BOOLEAN
  <2>1. fork \in Nat /\ aged \in BOOLEAN
    BY DEF StoreInv, TypeInv
  <2>2. CASE Reorg
    BY <2>1, <2>2 DEF Reorg, Files
  <2>3. CASE Age
    BY <2>1, <2>3 DEF Age, Files
  <2> QED BY <2>2, <2>3
<1>2. \A y \in Thread : Prog(y)' = Prog(y)
  BY <1>1 DEF Prog, Request
<1>3. TypeInv'
  <2>1. Locations' = Locations
    BY <1>2 DEF Locations
  <2> QED BY <1>1, <2>1 DEF StoreInv, TypeInv
<1>4. \A f : Final(f) => Final(f)'
  BY <1>1 DEF Final
<1>5. ASSUME NEW y \in Thread PROVE ThreadOf(y, th[y])'
  <2>1. ThreadOf(y, th[y]) /\ th[y].latest # "aged"
    BY <1>1 DEF StoreInv, FinalInv, ThreadOf
  <2> QED BY <1>1, <1>2, <1>4, <2>1 DEF ThreadOf
<1> QED BY <1>1, <1>3, <1>4, <1>5 DEF StoreInv, FinalInv

\* A process is killed, also in the middle of a write.
LEMMA KillStep == ASSUME StoreInv, NEW p, Kill(p) PROVE StoreInv'
<1>1. UNCHANGED <<path, inode, req, misread, fork, aged>>
  BY DEF Kill
<1>2. \A y \in Thread : Prog(y)' = Prog(y)
  BY <1>1 DEF Prog, Request
<1>3. \A y \in Thread : th'[y] = th[y] \/ th'[y] = [th[y] EXCEPT !.pc = "killed", !.ino = 0]
  BY DEF Kill
<1>4. \A y \in Thread : [th[y] EXCEPT !.pc = "killed", !.ino = 0] \in Threads
  <2>1. 0 \in 0..MaxInode /\ "killed" \in Places
    BY StoreAssumption DEF Places, Ended
  <2> QED BY <2>1 DEF StoreInv, TypeInv, Threads
<1>5. TypeInv'
  <2>1. Locations' = Locations
    BY <1>2 DEF Locations
  <2>2. \A y \in Thread : th'[y] \in Threads
    BY <1>3, <1>4 DEF StoreInv, TypeInv
  <2>3. th' \in [Thread -> Threads]
    BY <2>2 DEF Kill
  <2> QED BY <1>1, <2>1, <2>3 DEF StoreInv, TypeInv
<1>6. \A f : Final(f)' = Final(f)
  BY <1>1 DEF Final
<1>7. ASSUME NEW y \in Thread PROVE ThreadOf(y, th[y])'
  <2>1. ThreadOf(y, th[y]) /\ th[y] \in Threads
    BY DEF StoreInv, TypeInv, FinalInv
  <2>2. CASE th'[y] = th[y]
    BY <1>1, <1>2, <1>6, <2>1, <2>2 DEF ThreadOf
  <2>3. CASE th'[y] = [th[y] EXCEPT !.pc = "killed", !.ino = 0]
    <3>1. th'[y].pc = "killed" /\ th'[y].ts = th[y].ts /\ th'[y].latest = th[y].latest
          /\ th'[y].fork = th[y].fork /\ th'[y].hfork = th[y].hfork
      BY <2>1, <2>3 DEF Threads
    <3> QED BY <1>1, <2>1, <3>1 DEF ThreadOf, Reading, Writing, Ended
  <2> QED BY <1>3, <2>2, <2>3
<1> QED BY <1>1, <1>5, <1>6, <1>7 DEF StoreInv, FinalInv

\* The cache at the start is empty or holds one file, of a final block.
LEMMA InitStore == Init => StoreInv
<1> SUFFICES ASSUME Init PROVE StoreInv
  OBVIOUS
<1>1. req \in Mixes /\ req \in [Thread -> Requests] /\ fork = 0 /\ aged \in BOOLEAN
      /\ misread = Misreads /\ th = [x \in Thread |-> Start(req[x])]
  BY StoreAssumption DEF Init, Request
<1>2. path \in [Locations -> 0..MaxInode]
  BY StoreAssumption DEF Init, OldFile
<1>3. /\ inode \in [Inode -> Items]
      /\ \A i \in Inode : inode[i].st = "empty" \/ (aged /\ inode[i].fork = {0})
  <2>1. CASE inode = [i \in Inode |-> Nothing]
    BY <2>1, NothingIs
  <2>2. CASE OldFile
    <3>1. aged /\ \E f \in Items : /\ f.fork = {0}
                                   /\ inode = [[i \in Inode |-> Nothing] EXCEPT ![1] = f]
      <4>1. PICK t \in OldFiles, v \in Versions, st \in {"whole", "torn", "empty"} :
              inode = [[i \in Inode |-> Nothing] EXCEPT
                         ![1] = [t |-> t, v |-> v, fork |-> {0}, parts |-> Parts, st |-> st]]
        BY <2>2 DEF OldFile
      <4>2. [t |-> t, v |-> v, fork |-> {0}, parts |-> Parts, st |-> st] \in Items
        <5>1. t \in STRING
          BY StoreAssumption
        <5>2. v \in Versions \cup {Current, 0} /\ {0} \in SUBSET Nat /\ Parts \in SUBSET Parts
          OBVIOUS
        <5> QED BY <5>1, <5>2 DEF Items
      <4> QED BY <2>2, <4>1, <4>2 DEF OldFile
    <3> QED BY <3>1, NothingIs
  <2> QED BY <2>1, <2>2 DEF Init
<1>4. ASSUME NEW x \in Thread
      PROVE  /\ th[x] \in Threads /\ th[x].pc \in {"connect", "done"} /\ th[x].at = 1
             /\ th[x].fork = {} /\ th[x].hfork = {} /\ th[x].ts = "none" /\ th[x].latest = "none"
             /\ th[x].pc = "connect" => Prog(x) # <<>>
  <2>1. th[x] = Start(req[x]) /\ req[x] \in Requests
    BY <1>1
  <2>2. /\ Start(req[x]).pc \in {"connect", "done"} /\ Start(req[x]).pc \in Places
        /\ req[x].parts \in SUBSET Parts /\ 0 \in 0..MaxInode /\ "" \in Gots
    <3>1. req[x].parts \in SUBSET Parts
      BY <2>1 DEF Requests
    <3>2. 0 \in 0..MaxInode /\ "" \in Gots
      BY StoreAssumption DEF Gots
    <3>3. Start(req[x]).pc = IF req[x].prog = <<>> THEN "done" ELSE "connect"
      BY DEF Start
    <3> QED BY <3>1, <3>2, <3>3 DEF Places, Ended
  <2> DEFINE from == IF req[x].prog = <<>> THEN "done" ELSE "connect"
             ps == req[x].parts
             r == Start(req[x])
  <2>3. r = [pc |-> from, at |-> 1, ino |-> 0, tries |-> 0, got |-> "", buf |-> Nothing,
             src |-> "none", fork |-> {}, hfork |-> {}, parts |-> ps, ts |-> "none",
             latest |-> "none"]
    BY DEF Start
  <2>4. from \in Places /\ ps \in SUBSET Parts /\ from \in {"connect", "done"}
        /\ (from = "connect" => Prog(x) # <<>>)
    <3>1. Prog(x) = req[x].prog
      BY DEF Prog, Request
    <3> QED BY <2>2, <3>1 DEF Places, Ended
  <2>5. r = th[x]
    BY <2>1
  <2> HIDE DEF from, ps, r
  <2>6. r \in Threads
    BY <2>2, <2>3, <2>4, NothingIs DEF Threads
  <2>7. /\ r.pc = from /\ r.at = 1 /\ r.fork = {} /\ r.hfork = {} /\ r.ts = "none"
        /\ r.latest = "none"
    BY <2>3
  <2> QED BY <2>4, <2>5, <2>6, <2>7
<1>5. TypeInv
  BY <1>1, <1>2, <1>3, <1>4 DEF TypeInv
<1>6. ASSUME NEW x \in Thread PROVE ThreadOf(x, th[x])
  <2>1. Prog(x) \in Seq(Statement) /\ SavesWhatItHas(Prog(x), Known(Prog(x)))
    BY <1>5, RequestIs
  <2>2. Prog(x) # <<>> => 1 \in 1..Len(Prog(x)) /\ Known(Prog(x))[1] = {}
    BY <2>1 DEF SavesWhatItHas
  <2> QED BY <1>4, <2>2 DEF ThreadOf, Reading, Writing, Forgetting, Ended
<1> QED BY <1>1, <1>3, <1>5, <1>6 DEF StoreInv, FinalInv, Final

-----------------------------------------------------------------------------
\* A file of the cache that has something in it has what the node has for good, whoever
\* writes, reads, removes and truncates it, whatever replaces the block between a query
\* and the write, and whichever process dies (WriteToStore, IsFinal, newConnection).
THEOREM FinalOnly ==
  ASSUME NodeTellsTime, EmptyIsUnreadable
  PROVE  Spec => []OnlyFinalCached
<1>1. StoreInv /\ [Next]_vars => StoreInv'
  <2> SUFFICES ASSUME StoreInv, [Next]_vars PROVE StoreInv'
    OBVIOUS
  <2>1. CASE Next
    BY <2>1, StepStep, ChainStep, KillStep DEF Next
  <2>2. CASE UNCHANGED vars
    <3>1. \A y \in Thread : Prog(y)' = Prog(y)
      BY <2>2 DEF vars, Prog, Request
    <3>2. Locations' = Locations
      BY <3>1 DEF Locations
    <3>3. TypeInv'
      BY <2>2, <3>2 DEF vars, StoreInv, TypeInv
    <3>4. \A f : Final(f)' = Final(f)
      BY <2>2 DEF vars, Final
    <3>5. \A y \in Thread : ThreadOf(y, th[y])'
      BY <2>2, <3>1, <3>4 DEF vars, StoreInv, FinalInv, ThreadOf
    <3> QED BY <2>2, <3>3, <3>4, <3>5 DEF vars, StoreInv, FinalInv
  <2> QED BY <2>1, <2>2
<1>2. StoreInv => OnlyFinalCached
  <2> SUFFICES ASSUME StoreInv, NEW l \in DOMAIN path, path[l] # 0
        PROVE  inode[path[l]].st = "empty" \/ inode[path[l]].fork = {fork}
    BY DEF OnlyFinalCached
  <2>1. path[l] \in Inode
    BY StoreAssumption DEF StoreInv, TypeInv, Inode
  <2> QED BY <2>1 DEF StoreInv, FinalInv, Final
<1> QED BY InitStore, <1>1, <1>2, PTL DEF Spec
=============================================================================
