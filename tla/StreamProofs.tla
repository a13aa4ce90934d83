---------------------------- MODULE StreamProofs ----------------------------
(***************************************************************************)
(* No failure of a query is silent, nothing blank is shown unexplained,    *)
(* and healthy answers never bring the process down, for any handlers      *)
(* whose arms are as HandlersAssumption says, any number of items, maps    *)
(* and goroutines and any answers.  The last section is about what is      *)
(* written: the output of the writers (Render) is well formed.             *)
(***************************************************************************)
EXTENDS Stream, Render, FiniteSetTheorems, SequenceTheorems, WellFoundedInduction, TLAPS

\* what a fetcher executes
Ops == ArmOps \cup {"group", "check", "drain", "collect", "visit"}
Walks == {[op |-> "walk", files |-> n] : n \in Nat}
Statements ==
    {Stmt(op) : op \in Ops}
      \cup {Send(i, v) : i \in Items, v \in {"fetched", "blank"}}
      \cup {[op |-> "iterate", keys |-> K] : K \in SUBSET Items}
      \cup Walks

\* a map is iterated over, then drained, and only then collected
Ordered(s) ==
    \A k \in DOMAIN s :
       /\ s[k].op = "check" => /\ k + 3 \in DOMAIN s
                               /\ s[k + 1].op = "iterate" /\ s[k + 2].op = "drain" /\ s[k + 3].op = "collect"
       /\ s[k].op = "iterate" => k + 1 \in DOMAIN s /\ s[k + 1].op = "drain"

\* a blank record is behind an error
IsBlank(t) == t.op = "item" /\ t.rec[2] = "blank"
Explained(s) == \A k \in DOMAIN s : IsBlank(s[k]) => \E j \in 1 .. k - 1 : s[j].op = "err"

Programs == {s \in Seq(Statements) : Ordered(s) /\ Explained(s)}

-----------------------------------------------------------------------------
\* A nonempty set of numbers has a least one.
LEMMA LeastOf ==
  ASSUME NEW S \in SUBSET Nat, S # {}
  PROVE  \E m \in S : \A i \in S : m <= i
<1> DEFINE R == OpToRel(<, Nat)
<1>1. PICK x \in S : \A y \in S : ~ (<<y, x>> \in R)
  <2> HIDE DEF R
  <2> QED BY NatLessThanWellFounded, WFMin DEF R
<1>2. \A y \in S : y \in Nat /\ x \in Nat /\ ~ (y < x)
  BY <1>1 DEF OpToRel
<1>3. \A y \in S : x <= y
  BY <1>2
<1> HIDE DEF R
<1> QED BY <1>3

Flattens(f, seqs, n) == f = [i \in 1 .. n |-> IF i = 1 THEN seqs[i] ELSE f[i - 1] \o seqs[i]]

\* The concatenation of any number of sequences: D[m] holds what those up to the m-th can give.
LEMMA FlattenFrom ==
  ASSUME NEW n \in Nat, NEW seqs, DOMAIN seqs = 1 .. n, seqs = [i \in 1 .. n |-> seqs[i]], NEW D,
         n = 0 => <<>> \in D[0], n # 0 => seqs[1] \in D[1],
         \A i \in 2 .. n : \A a \in D[i - 1] : a \o seqs[i] \in D[i]
  PROVE  FlattenSeq(seqs) \in D[n]
<1>1. \A m \in 0 .. n : \E f : Flattens(f, seqs, m)
  <2> DEFINE Bad == {m \in 0 .. n : ~ \E f : Flattens(f, seqs, m)}
  <2> SUFFICES ASSUME Bad # {} PROVE FALSE
    OBVIOUS
  <2>1. PICK m \in Bad : \A i \in Bad : m <= i
    <3>1. Bad \in SUBSET Nat
      OBVIOUS
    <3> HIDE DEF Bad
    <3> QED BY <3>1, LeastOf
  <2>2. m # 0
    <3>1. Flattens([i \in 1 .. 0 |-> seqs[i]], seqs, 0)
      BY DEF Flattens
    <3> QED BY <3>1
  <2>3. m - 1 \in 0 .. n /\ m - 1 \notin Bad /\ m \in 1 .. n
    <3>1. m \in 0 .. n
      OBVIOUS
    <3> HIDE DEF Bad
    <3> QED BY <2>1, <2>2, <3>1
  <2>4. PICK f : Flattens(f, seqs, m - 1)
    BY <2>3
  <2> DEFINE g == [i \in 1 .. m |-> IF i = m THEN (IF m = 1 THEN seqs[1] ELSE f[m - 1] \o seqs[m]) ELSE f[i]]
  <2>5. \A i \in 1 .. m : g[i] = IF i = 1 THEN seqs[i] ELSE g[i - 1] \o seqs[i]
    <3> SUFFICES ASSUME NEW i \in 1 .. m
          PROVE  g[i] = IF i = 1 THEN seqs[i] ELSE g[i - 1] \o seqs[i]
      OBVIOUS
    <3>1. i # 1 => g[i - 1] = f[i - 1]
      BY <2>3
    <3>2. CASE i = m
      BY <2>3, <3>1, <3>2
    <3>3. CASE i # m
      <4>1. i \in 1 .. m - 1 /\ g[i] = f[i]
        BY <2>3, <3>3
      <4>2. f[i] = IF i = 1 THEN seqs[i] ELSE f[i - 1] \o seqs[i]
        BY <2>4, <4>1 DEF Flattens
      <4> HIDE DEF g
      <4> QED BY <3>1, <4>1, <4>2
    <3> QED BY <3>2, <3>3
  <2>6. Flattens(g, seqs, m)
    <3>1. g = [i \in 1 .. m |-> g[i]]
      OBVIOUS
    <3> HIDE DEF g
    <3> QED BY <2>5, <3>1 DEF Flattens
  <2> QED BY <2>1, <2>6
<1>2. ASSUME NEW f, Flattens(f, seqs, n) PROVE \A i \in 1 .. n : f[i] \in D[i]
  <2> DEFINE Bad == {i \in 1 .. n : f[i] \notin D[i]}
  <2> SUFFICES ASSUME Bad # {} PROVE FALSE
    OBVIOUS
  <2>1. PICK i \in Bad : \A j \in Bad : i <= j
    <3>1. Bad \in SUBSET Nat
      OBVIOUS
    <3> HIDE DEF Bad
    <3> QED BY <3>1, LeastOf
  <2>2. i \in 1 .. n /\ f[i] = IF i = 1 THEN seqs[i] ELSE f[i - 1] \o seqs[i]
    BY <1>2 DEF Flattens
  <2>3. i # 1 => i \in 2 .. n /\ f[i - 1] \in D[i - 1]
    BY <2>1
  <2> QED BY <2>1, <2>2, <2>3
<1>3. Len(seqs) = n
  OBVIOUS
<1>4. FlattenSeq(seqs) = IF n = 0 THEN seqs ELSE (CHOOSE f : Flattens(f, seqs, n))[n]
  BY <1>3 DEF FlattenSeq, Flattens
<1>5. n = 0 => seqs = <<>>
  OBVIOUS
<1> DEFINE c == CHOOSE f : Flattens(f, seqs, n)
<1>6. Flattens(c, seqs, n)
  BY <1>1
<1> HIDE DEF c
<1> QED BY <1>2, <1>4, <1>5, <1>6 DEF c

\* What is closed under concatenation contains the concatenation of any number.
LEMMA FlattenIn ==
  ASSUME NEW C, <<>> \in C, \A a, b \in C : a \o b \in C,
         NEW n \in Nat, NEW seqs \in [1 .. n -> C]
  PROVE  FlattenSeq(seqs) \in C
<1> DEFINE D == [i \in 0 .. n |-> C]
<1>1. \A i \in 0 .. n : D[i] = C
  OBVIOUS
<1>2. n = 0 => <<>> \in D[0]
  BY <1>1
<1>3. n # 0 => seqs[1] \in D[1]
  BY <1>1
<1>4. ASSUME NEW i \in 2 .. n, NEW a \in D[i - 1] PROVE a \o seqs[i] \in D[i]
  BY <1>1
<1>5. DOMAIN seqs = 1 .. n /\ seqs = [i \in 1 .. n |-> seqs[i]]
  OBVIOUS
<1> HIDE DEF D
<1>6. FlattenSeq(seqs) \in D[n]
  BY <1>2, <1>3, <1>4, <1>5, FlattenFrom
<1> QED BY <1>1, <1>6

\* The same for sequences, from the empty one on.
LEMMA FlattenUp ==
  ASSUME NEW S, NEW n \in Nat, NEW seqs \in [1 .. n -> Seq(S)], NEW D,
         <<>> \in D[0], \A i \in 1 .. n : \A a \in D[i - 1] : a \o seqs[i] \in D[i]
  PROVE  FlattenSeq(seqs) \in D[n]
<1>1. DOMAIN seqs = 1 .. n /\ seqs = [i \in 1 .. n |-> seqs[i]]
  OBVIOUS
<1>2. ASSUME n # 0 PROVE seqs[1] \in D[1]
  <2>1. 1 \in 1 .. n /\ seqs[1] \in Seq(S)
    BY <1>2
  <2>2. <<>> \o seqs[1] \in D[1]
    <3>1. \A a \in D[1 - 1] : a \o seqs[1] \in D[1]
      BY <2>1
    <3>2. 1 - 1 = 0
      OBVIOUS
    <3>3. <<>> \in D[1 - 1]
      BY <3>2
    <3> QED BY <3>1, <3>3
  <2>3. <<>> \o seqs[1] = seqs[1]
    BY <2>1
  <2> QED BY <2>2, <2>3
<1>3. \A i \in 2 .. n : \A a \in D[i - 1] : a \o seqs[i] \in D[i]
  OBVIOUS
<1> QED BY <1>1, <1>2, <1>3, FlattenFrom

-----------------------------------------------------------------------------
(* What a handler's fetchData is made of *)

\* The statements that the constructors give.
LEMMA StatementFacts ==
  /\ \A op \in Ops : Stmt(op) \in Statements /\ Stmt(op).op = op
  /\ \A i \in Items, v \in {"fetched", "blank"} :
       Send(i, v) \in Statements /\ Send(i, v).op = "item" /\ Send(i, v).rec = <<i, v>>
  /\ \A K \in SUBSET Items : [op |-> "iterate", keys |-> K] \in Statements
  /\ \A n \in Nat : [op |-> "walk", files |-> n] \in Statements
  /\ \A t \in Statements :
       /\ t.op = "iterate" => t.keys \subseteq Items
       /\ t.op = "item" => t.rec \in Items \X {"fetched", "blank"}
       /\ t.op = "walk" => t.files \in Nat
<1>1. \A op \in Ops : Stmt(op) \in Statements /\ Stmt(op).op = op
  BY DEF Statements, Stmt
<1>2. \A i \in Items, v \in {"fetched", "blank"} :
        Send(i, v) \in Statements /\ Send(i, v).op = "item" /\ Send(i, v).rec = <<i, v>>
  BY DEF Statements, Send
<1>3. \A K \in SUBSET Items : [op |-> "iterate", keys |-> K] \in Statements
  BY DEF Statements
<1>4. ASSUME NEW n \in Nat PROVE [op |-> "walk", files |-> n] \in Statements
  <2>1. [op |-> "walk", files |-> n] \in Walks
    BY DEF Walks
  <2> QED BY <2>1 DEF Statements
<1>5. ASSUME NEW t \in Statements
      PROVE  /\ t.op = "iterate" => t.keys \subseteq Items
             /\ t.op = "item" => t.rec \in Items \X {"fetched", "blank"}
             /\ t.op = "walk" => t.files \in Nat
  <2>1. CASE t \in {Stmt(op) : op \in Ops}
    <3>1. t.op \in Ops
      BY <2>1 DEF Stmt
    <3> QED BY <3>1 DEF Ops, ArmOps
  <2>2. CASE t \in {Send(i, v) : i \in Items, v \in {"fetched", "blank"}}
    BY <2>2 DEF Send
  <2>3. CASE t \in {[op |-> "iterate", keys |-> K] : K \in SUBSET Items}
    BY <2>3
  <2>4. CASE t \in Walks
    BY <2>4 DEF Walks
  <2> QED BY <2>1, <2>2, <2>3, <2>4 DEF Statements
<1> QED BY <1>1, <1>2, <1>3, <1>4, <1>5

\* Both properties of programs survive concatenation.
LEMMA ExplainedConcat ==
  ASSUME NEW a \in Seq(Statements), NEW b \in Seq(Statements), Explained(a), Explained(b)
  PROVE  Explained(a \o b)
<1> SUFFICES ASSUME NEW k \in DOMAIN (a \o b), IsBlank((a \o b)[k])
      PROVE  \E j \in 1 .. k - 1 : (a \o b)[j].op = "err"
  BY DEF Explained
<1>1. CASE k \in DOMAIN a
  <2>1. (a \o b)[k] = a[k]
    BY <1>1
  <2>2. PICK j \in 1 .. k - 1 : a[j].op = "err"
    BY <1>1, <2>1 DEF Explained
  <2> QED BY <1>1, <2>2
<1>2. CASE k \notin DOMAIN a
  <2>1. k - Len(a) \in DOMAIN b /\ (a \o b)[k] = b[k - Len(a)]
    BY <1>2
  <2>2. PICK j \in 1 .. k - Len(a) - 1 : b[j].op = "err"
    BY <2>1 DEF Explained
  <2>3. j + Len(a) \in 1 .. k - 1 /\ (a \o b)[j + Len(a)] = b[j]
    BY <2>1, <2>2
  <2> QED BY <2>2, <2>3
<1> QED BY <1>1, <1>2

\* Two ordered programs in a row are an ordered program.
LEMMA OrderedConcat ==
  ASSUME NEW a \in Seq(Statements), NEW b \in Seq(Statements), Ordered(a), Ordered(b)
  PROVE  Ordered(a \o b)
<1> DEFINE c == a \o b
<1>1. \A k \in DOMAIN a : k \in DOMAIN c /\ c[k] = a[k]
  OBVIOUS
<1>2. \A k \in DOMAIN b : k + Len(a) \in DOMAIN c /\ c[k + Len(a)] = b[k]
  OBVIOUS
<1>3. \A k \in DOMAIN c : k \in DOMAIN a \/ k - Len(a) \in DOMAIN b
  OBVIOUS
<1>4. DOMAIN a \subseteq Nat /\ DOMAIN b \subseteq Nat /\ DOMAIN c \subseteq Nat /\ Len(a) \in Nat
  OBVIOUS
<1> HIDE DEF c
<1> SUFFICES ASSUME NEW k \in DOMAIN c
      PROVE  /\ c[k].op = "check" => /\ k + 3 \in DOMAIN c
                                     /\ c[k + 1].op = "iterate" /\ c[k + 2].op = "drain" /\ c[k + 3].op = "collect"
             /\ c[k].op = "iterate" => k + 1 \in DOMAIN c /\ c[k + 1].op = "drain"
  BY DEF Ordered, c
<1>5. CASE k \in DOMAIN a
  <2>1. /\ a[k].op = "check" => /\ k + 3 \in DOMAIN a /\ k + 1 \in DOMAIN a /\ k + 2 \in DOMAIN a
                                /\ a[k + 1].op = "iterate" /\ a[k + 2].op = "drain" /\ a[k + 3].op = "collect"
        /\ a[k].op = "iterate" => k + 1 \in DOMAIN a /\ a[k + 1].op = "drain"
    BY <1>5 DEF Ordered
  <2> QED BY <1>1, <1>5, <2>1
<1>6. CASE k \notin DOMAIN a
  <2>1. PICK m \in DOMAIN b : k = m + Len(a)
    BY <1>3, <1>4, <1>6
  <2>2. /\ b[m].op = "check" => /\ m + 3 \in DOMAIN b /\ m + 1 \in DOMAIN b /\ m + 2 \in DOMAIN b
                                /\ b[m + 1].op = "iterate" /\ b[m + 2].op = "drain" /\ b[m + 3].op = "collect"
        /\ b[m].op = "iterate" => m + 1 \in DOMAIN b /\ b[m + 1].op = "drain"
    BY DEF Ordered
  <2>3. c[k] = b[m]
    BY <1>2, <2>1
  <2>4. ASSUME NEW d \in 1 .. 3, m + d \in DOMAIN b PROVE k + d \in DOMAIN c /\ c[k + d] = b[m + d]
    <3>1. /\ (m + d) + Len(a) \in DOMAIN c
          /\ c[(m + d) + Len(a)] = b[m + d]
      BY <1>2, <2>4
    <3>2. (m + d) + Len(a) = k + d
      BY <1>4, <2>1
    <3> QED BY <3>1, <3>2
  <2> QED BY <2>2, <2>3, <2>4
<1> QED BY <1>5, <1>6

\* The programs are closed under concatenation.
LEMMA ProgramsConcat == <<>> \in Programs /\ \A a, b \in Programs : a \o b \in Programs
<1>1. <<>> \in Programs
  BY DEF Programs, Ordered, Explained
<1>2. ASSUME NEW a \in Programs, NEW b \in Programs PROVE a \o b \in Programs
  <2>1. a \in Seq(Statements) /\ b \in Seq(Statements) /\ a \o b \in Seq(Statements)
    BY DEF Programs
  <2> QED BY <2>1, ExplainedConcat, OrderedConcat DEF Programs
<1> QED BY <1>1, <1>2

\* Statements of which none is a check, an iteration or a blank record.
LEMMA PlainIs ==
  ASSUME NEW s \in Seq(Statements),
         \A k \in DOMAIN s : s[k].op \notin {"check", "iterate"} /\ ~IsBlank(s[k])
  PROVE  s \in Programs
BY DEF Programs, Ordered, Explained

\* An arm of an if is a program.
LEMMA ArmIs == ASSUME NEW ops \in Seq(ArmOps) PROVE Arm(ops) \in Programs
<1>1. \A k \in DOMAIN ops : ops[k] \in Ops /\ Stmt(ops[k]) \in Statements /\ Stmt(ops[k]).op = ops[k]
  BY StatementFacts DEF Ops
<1>2. Arm(ops) = [k \in 1 .. Len(ops) |-> Stmt(ops[k])]
  BY DEF Arm
<1>3. Arm(ops) \in Seq(Statements) /\ DOMAIN Arm(ops) = DOMAIN ops
  BY <1>1, <1>2
<1>4. \A k \in DOMAIN ops : Arm(ops)[k].op = ops[k] /\ ops[k] \in ArmOps
  BY <1>1, <1>2
<1> QED BY <1>3, <1>4, PlainIs DEF ArmOps, IsBlank

\* So is a single statement that explains itself.
LEMMA OneIs ==
  ASSUME NEW t \in Statements, t.op \notin {"check", "iterate"}, ~IsBlank(t)
  PROVE  << t >> \in Programs
<1>1. << t >> \in Seq(Statements) /\ DOMAIN << t >> = {1} /\ << t >>[1] = t
  OBVIOUS
<1> QED BY <1>1, PlainIs

\* So are any number of programs in a row.
LEMMA FlattenPrograms ==
  ASSUME NEW n \in Nat, NEW seqs \in [1 .. n -> Programs]
  PROVE  FlattenSeq(seqs) \in Programs
BY FlattenIn, ProgramsConcat

\* The arm of a failed item.
LEMMA BlankArm ==
  ASSUME NEW i \in Items, NEW arm \in Seq(ArmOps \cup {"item"}),
         \A k \in DOMAIN arm : arm[k] = "item" => \E j \in 1 .. k - 1 : arm[j] = "err"
  PROVE  [k \in DOMAIN arm |-> IF arm[k] = "item" THEN Send(i, "blank") ELSE Stmt(arm[k])] \in Programs
<1> DEFINE s == [k \in DOMAIN arm |-> IF arm[k] = "item" THEN Send(i, "blank") ELSE Stmt(arm[k])]
<1>1. /\ Send(i, "blank") \in Statements /\ Send(i, "blank").op = "item"
      /\ \A op \in ArmOps : Stmt(op) \in Statements /\ Stmt(op).op = op
  BY StatementFacts DEF Ops
<1>2. \A k \in DOMAIN arm : s[k] \in Statements /\ s[k].op = arm[k]
  BY <1>1
<1>3. s \in Seq(Statements) /\ DOMAIN s = DOMAIN arm
  <2>1. DOMAIN arm = 1 .. Len(arm) /\ Len(arm) \in Nat
    OBVIOUS
  <2>2. s \in [1 .. Len(arm) -> Statements]
    BY <1>2, <2>1
  <2> HIDE DEF s
  <2> QED BY <2>1, <2>2
<1> HIDE DEF s
<1>4. Ordered(s)
  BY <1>2, <1>3 DEF Ordered, ArmOps
<1>5. Explained(s)
  <2> SUFFICES ASSUME NEW k \in DOMAIN s, IsBlank(s[k]) PROVE \E j \in 1 .. k - 1 : s[j].op = "err"
    BY DEF Explained
  <2>1. arm[k] = "item"
    BY <1>2, <1>3 DEF IsBlank
  <2>2. PICK j \in 1 .. k - 1 : arm[j] = "err"
    BY <1>3, <2>1
  <2>3. j \in DOMAIN arm
    BY <1>3
  <2> QED BY <1>2, <2>2, <2>3
<1> QED BY <1>3, <1>4, <1>5 DEF Programs, s

\* What a handler does with one answer of the node.
LEMMA OneItemIs ==
  ASSUME NEW h \in Handlers, NEW i \in Items, NEW ans \in [Items -> Answers]
  PROVE  OneItem(h, i, ans) \in Programs
<1>1. << Send(i, "fetched") >> \in Programs
  BY StatementFacts, OneIs DEF IsBlank
<1>2. Arm(h.onGarbled) \in Programs /\ Arm(h.onEmpty) \in Programs
  BY HandlersAssumption, ArmIs
<1>3. \A arm \in {h.onItem, h.onMissing} :
        [k \in DOMAIN arm |-> IF arm[k] = "item" THEN Send(i, "blank") ELSE Stmt(arm[k])] \in Programs
  BY HandlersAssumption, BlankArm
<1>4. Arm(h.onGarbled) \o << Send(i, "fetched") >> \in Programs
  BY <1>1, <1>2, ProgramsConcat
<1> QED BY <1>1, <1>2, <1>3, <1>4, Zenon DEF OneItem

\* A map is checked, iterated over, drained and collected.
LEMMA OneMap ==
  ASSUME NEW K \in SUBSET Items
  PROVE  << Stmt("check"), [op |-> "iterate", keys |-> K], Stmt("drain"), Stmt("collect") >> \in Programs
<1>1. /\ Stmt("check") \in Statements /\ Stmt("check").op = "check"
      /\ Stmt("drain") \in Statements /\ Stmt("drain").op = "drain"
      /\ Stmt("collect") \in Statements /\ Stmt("collect").op = "collect"
      /\ [op |-> "iterate", keys |-> K] \in Statements
  BY StatementFacts DEF Ops
<1>2. PICK a, b, c, d \in Statements :
        /\ a = Stmt("check") /\ b = [op |-> "iterate", keys |-> K]
        /\ c = Stmt("drain") /\ d = Stmt("collect")
  BY <1>1
<1>3. a.op = "check" /\ b.op = "iterate" /\ c.op = "drain" /\ d.op = "collect"
  BY <1>1, <1>2
<1> DEFINE s == << a, b, c, d >>
<1>4. s \in Seq(Statements) /\ DOMAIN s = {1, 2, 3, 4} /\ s[1] = a /\ s[2] = b /\ s[3] = c /\ s[4] = d
  OBVIOUS
<1> HIDE DEF s
<1>5. Ordered(s) /\ Explained(s)
  BY <1>3, <1>4 DEF Ordered, Explained, IsBlank
<1> QED BY <1>2, <1>4, <1>5 DEF Programs, s

\* What it does with items in batches.
LEMMA BatchesIs == ASSUME NEW is \in Seq(Items) PROVE Batches(is) \in Programs
<1> DEFINE maps == AsSliceOfMaps(is)
           n == (Len(is) + AppMapSize - 1) \div AppMapSize
           N == IF n \in Nat THEN n ELSE 0
<1>1. n \in Int
  BY StreamAssumption
<1>2. DOMAIN maps = 1 .. n /\ \A k \in 1 .. n : maps[k] \subseteq Items
  BY DEF AsSliceOfMaps
<1> HIDE DEF maps, n
<1>3. N \in Nat /\ 1 .. n = 1 .. N
  BY <1>1
<1> DEFINE seqs == [k \in DOMAIN maps |-> << Stmt("check"), [op |-> "iterate", keys |-> maps[k]],
                                             Stmt("drain"), Stmt("collect") >>]
<1>4. seqs \in [1 .. N -> Programs]
  BY <1>2, <1>3, OneMap
<1>5. Batches(is) = FlattenSeq(seqs)
  BY DEF Batches, maps
<1> HIDE DEF N, seqs
<1> QED BY <1>3, <1>4, <1>5, FlattenPrograms

\* What it does in a loop, or on a walk over files.
LEMMA LoopIs ==
  ASSUME NEW h \in Handlers, NEW is \in Seq(Items), NEW ans \in [Items -> Answers]
  PROVE  /\ FlattenSeq([k \in DOMAIN is |-> OneItem(h, is[k], ans)]) \in Programs
         /\ WalkFiles(h, is, ans) \in Programs
<1>1. Len(is) \in Nat /\ DOMAIN is = 1 .. Len(is) /\ \A k \in DOMAIN is : is[k] \in Items
  OBVIOUS
<1>2. << Stmt("visit") >> \in Programs
  <2>1. Stmt("visit") \in Statements /\ Stmt("visit").op = "visit"
    BY StatementFacts DEF Ops
  <2> QED BY <2>1, OneIs DEF IsBlank
<1>3. << [op |-> "walk", files |-> Len(is)] >> \in Programs
  <2>1. PICK t \in Statements : t = [op |-> "walk", files |-> Len(is)]
    BY <1>1, StatementFacts
  <2>2. t.op = "walk"
    BY <2>1
  <2> QED BY <2>1, <2>2, OneIs DEF IsBlank
<1> DEFINE loop == [k \in DOMAIN is |-> OneItem(h, is[k], ans)]
           walk == [k \in DOMAIN is |-> << Stmt("visit") >> \o OneItem(h, is[k], ans)]
<1>4. loop \in [1 .. Len(is) -> Programs] /\ walk \in [1 .. Len(is) -> Programs]
  BY <1>1, <1>2, OneItemIs, ProgramsConcat
<1>5. WalkFiles(h, is, ans) =
        << [op |-> "walk", files |-> Len(is)] >> \o FlattenSeq(walk) \o << Stmt("visit") >>
  BY DEF WalkFiles
<1> HIDE DEF loop, walk
<1>6. FlattenSeq(loop) \in Programs /\ FlattenSeq(walk) \in Programs
  BY <1>1, <1>4, FlattenPrograms
<1>7. << [op |-> "walk", files |-> Len(is)] >> \o FlattenSeq(walk) \o << Stmt("visit") >> \in Programs
  BY <1>2, <1>3, <1>6, ProgramsConcat
<1> QED BY <1>5, <1>6, <1>7 DEF loop

\* What it does for one group of identifiers.
LEMMA GroupIs ==
  ASSUME NEW h \in Handlers, NEW is \in Seq(Items), NEW res, NEW ans \in [Items -> Answers]
  PROVE  OneGroup(h, is, res, ans) \in Programs
<1>1. << Stmt("group") >> \in Programs
  <2>1. Stmt("group") \in Statements /\ Stmt("group").op = "group"
    BY StatementFacts DEF Ops
  <2> QED BY <2>1, OneIs DEF IsBlank
<1>2. PICK work \in Programs :
        work = CASE h.shape = "batched" -> Batches(is)
                 [] h.shape = "walk"    -> WalkFiles(h, is, ans)
                 [] OTHER -> FlattenSeq([k \in DOMAIN is |-> OneItem(h, is[k], ans)])
  BY BatchesIs, LoopIs
<1>3. << Stmt("group") >> \o work \in Programs
  BY <1>1, ProgramsConcat
<1>4. Arm(h.onResolve) \in Programs /\ Arm(h.onNotFound) \in Programs /\ Arm(h.onNone) \in Programs
  BY HandlersAssumption, ArmIs
<1> QED BY <1>2, <1>3, <1>4, Zenon DEF OneGroup

\* A handler's fetchData, whatever its arms are and whatever the node answers.
LEMMA FetchDataIs ==
  ASSUME NEW h \in Handlers, NEW res, NEW ans \in [Items -> Answers]
  PROVE  FetchData(h, res, ans) \in Programs
<1> DEFINE all == [k \in Items |-> k]
           grouped == IF h.groups = "each" /\ NItems > 1
                      THEN << SubSeq(all, 1, NItems - 1), << NItems >> >>
                      ELSE << all >>
           groups == [g \in DOMAIN grouped |-> OneGroup(h, grouped[g], res[g], ans)]
           body == FlattenSeq(groups)
<1>1. all \in Seq(Items) /\ Len(all) = NItems
  BY StreamAssumption DEF Items
<1>2. NItems > 1 => SubSeq(all, 1, NItems - 1) \in Seq(Items)
  BY <1>1, StreamAssumption
<1>3. << NItems >> \in Seq(Items)
  BY StreamAssumption DEF Items
<1> HIDE DEF all
<1>4. PICK n \in Nat : grouped \in [1 .. n -> Seq(Items)]
  <2>1. CASE h.groups = "each" /\ NItems > 1
    <3>1. PICK a, b \in Seq(Items) : a = SubSeq(all, 1, NItems - 1) /\ b = << NItems >>
      BY <1>2, <1>3, <2>1
    <3>2. grouped = << a, b >>
      BY <2>1, <3>1
    <3> HIDE DEF grouped
    <3>3. grouped \in [1 .. 2 -> Seq(Items)]
      BY <3>2
    <3> QED BY <3>3
  <2>2. CASE ~(h.groups = "each" /\ NItems > 1)
    BY <1>1, <2>2
  <2> QED BY <2>1, <2>2
<1> HIDE DEF grouped
<1>5. groups \in [1 .. n -> Programs]
  BY <1>4, GroupIs
<1> HIDE DEF groups
<1>6. body \in Programs
  BY <1>5, FlattenPrograms
<1>7. body \o Arm(h.atEnd) \in Programs
  BY <1>6, HandlersAssumption, ArmIs, ProgramsConcat
<1>8. FetchData(h, res, ans) \in {body, body \o Arm(h.atEnd)}
  BY Zenon DEF FetchData, groups, grouped, all
<1> QED BY <1>6, <1>7, <1>8

-----------------------------------------------------------------------------
(* The invariant *)

Next1(op) == todo # <<>> /\ todo[1].op = op

\* item i is on its way through the iteration
Under(i) ==
    \/ i \in dist.left
    \/ \E k \in DOMAIN dist.payload : dist.payload[k] = i
    \/ \E s \in Slots : /\ workers[s].pc # "idle"
                        /\ \E k \in DOMAIN workers[s].args : workers[s].args[k] = i

TypeInv ==
    /\ todo \in Seq(Statements) /\ Ordered(todo)
    /\ answer \in [Items -> Answers]
    /\ thisMap \in [DOMAIN thisMap -> {"blank", "fetched"}] /\ DOMAIN thisMap \subseteq Items
    /\ items \subseteq Items
    /\ counter \in [seen : Nat, exported : 0 .. MaxRecords, finished : BOOLEAN]
    /\ DOMAIN dist = {"pc", "left", "payload", "per"}
    /\ dist.pc \in {"idle", "range", "wait", "done"}
    /\ dist.left \subseteq Items /\ dist.payload \in Seq(Items)
    /\ workers \in [Slots -> [pc : {"idle", "start", "step", "append", "delete", "failed", "send"},
                              args : Seq(Items), snap : SUBSET Items]]
    /\ closed \in 0 .. 2 /\ reported \in Nat
    /\ shown \in Seq(Items \X {"fetched", "blank"})
    /\ how.missingIsSent => how.collect # "append"

\* Where the goroutines of an iteration are.
WorkInv ==
    /\ dist.pc \in {"idle", "done"} => \A s \in Slots : workers[s].pc = "idle"
    /\ dist.pc # "range" => dist.left = {} /\ dist.payload = <<>>
    /\ \A s \in Slots :
         LET w == workers[s]
         IN  /\ w.pc \in {"append", "send", "delete"} => w.args # <<>>
             /\ w.pc \in {"append", "send"} /\ w.args[1] \in DOMAIN thisMap =>
                  thisMap[w.args[1]] = "fetched" \/ (w.pc = "send" /\ answer[w.args[1]] = "notFound")
             /\ w.pc \in {"delete", "failed"} => Failed # {}

\* While an iteration is under way the fetcher drains it, or has met an error
\* after which it goes on draining or returns.
Waiting ==
    \/ todo = <<>> \/ Next1("return")
    \/ Next1("err") /\ Len(todo) >= 2 /\ todo[2].op \in {"drain", "return"}
ActiveInv == dist.pc \in {"range", "wait"} => Next1("drain") \/ (Failed # {} /\ Waiting)

\* An item of the map that has not been fetched is on its way, or an error was
\* reported or is about to be.
MapInv ==
    \A i \in DOMAIN thisMap :
       /\ Failing(i) => thisMap[i] = "blank"
       /\ thisMap[i] = "blank" =>
            \/ Next1("drain") /\ Under(i)
            \/ Failed # {} /\ (reported > 0 \/ Next1("err"))

\* What the fetcher and the renderer may have said.
SaidInv ==
    /\ closed > 0 => todo = <<>>
    /\ renderer = "done" => closed > 0
    /\ crashed => Failed # {}
    /\ reported = 0 => Explained(todo) /\ \A k \in DOMAIN shown : shown[k][2] # "blank"

StreamInv == TypeInv /\ WorkInv /\ ActiveInv /\ MapInv /\ SaidInv

-----------------------------------------------------------------------------
(* What a step takes from the fetcher's statements, and what it adds *)

\* What is left of a program when its first statement is done.
LEMMA TailIs ==
  ASSUME NEW s \in Seq(Statements), s # <<>>, Ordered(s)
  PROVE  /\ Head(s) = s[1] /\ s[1] \in Statements
         /\ Tail(s) \in Seq(Statements) /\ Ordered(Tail(s))
         /\ Len(Tail(s)) = Len(s) - 1 /\ \A k \in DOMAIN Tail(s) : Tail(s)[k] = s[k + 1]
         /\ Explained(s) /\ s[1].op # "err" => Explained(Tail(s))
<1>1. /\ Tail(s) \in Seq(Statements) /\ Len(Tail(s)) = Len(s) - 1
      /\ \A k \in DOMAIN Tail(s) : k + 1 \in DOMAIN s /\ Tail(s)[k] = s[k + 1]
  OBVIOUS
<1>2. /\ \A k \in DOMAIN s : k # 1 => k - 1 \in DOMAIN Tail(s)
      /\ DOMAIN s = 1 .. Len(s) /\ DOMAIN Tail(s) = 1 .. Len(s) - 1 /\ Len(s) \in Nat
  OBVIOUS
<1>3. PICK t : t = Tail(s)
  OBVIOUS
<1>4. Ordered(t)
  <2> SUFFICES ASSUME NEW k \in DOMAIN t
        PROVE  /\ t[k].op = "check" => /\ k + 3 \in DOMAIN t
                                       /\ t[k + 1].op = "iterate" /\ t[k + 2].op = "drain" /\ t[k + 3].op = "collect"
               /\ t[k].op = "iterate" => k + 1 \in DOMAIN t /\ t[k + 1].op = "drain"
    BY DEF Ordered
  <2>1. k + 1 \in DOMAIN s /\ t[k] = s[k + 1]
    BY <1>1, <1>3
  <2>2. /\ s[k + 1].op = "check" => /\ k + 1 + 3 \in DOMAIN s
                                    /\ s[k + 1 + 1].op = "iterate" /\ s[k + 1 + 2].op = "drain"
                                    /\ s[k + 1 + 3].op = "collect"
        /\ s[k + 1].op = "iterate" => k + 1 + 1 \in DOMAIN s /\ s[k + 1 + 1].op = "drain"
    BY <2>1 DEF Ordered
  <2>3. \A d \in 1 .. 3 : k + 1 + d \in DOMAIN s => k + d \in DOMAIN t /\ t[k + d] = s[k + 1 + d]
    BY <1>1, <1>2, <1>3
  <2>4. /\ k + 1 + 3 \in DOMAIN s => k + 1 + 1 \in DOMAIN s /\ k + 1 + 2 \in DOMAIN s
    BY <1>2, <1>3
  <2> QED BY <2>1, <2>2, <2>3, <2>4
<1>5. ASSUME Explained(s), s[1].op # "err" PROVE Explained(t)
  <2> SUFFICES ASSUME NEW k \in DOMAIN t, IsBlank(t[k]) PROVE \E j \in 1 .. k - 1 : t[j].op = "err"
    BY DEF Explained
  <2>1. k + 1 \in DOMAIN s /\ t[k] = s[k + 1]
    BY <1>1, <1>3
  <2>2. PICK j \in 1 .. k : s[j].op = "err"
    <3>1. PICK j \in 1 .. (k + 1) - 1 : s[j].op = "err"
      BY <1>3, <1>5, <2>1 DEF Explained
    <3>2. k \in Nat
      BY <1>2, <1>3
    <3> QED BY <3>1, <3>2
  <2>3. PICK m \in 1 .. k - 1 : j = m + 1
    <3>1. j # 1
      BY <1>5, <2>2
    <3>2. k \in Nat
      BY <1>2, <1>3
    <3>3. j - 1 \in 1 .. k - 1 /\ j = (j - 1) + 1
      BY <2>2, <3>1, <3>2
    <3> QED BY <3>3
  <2>4. m \in DOMAIN t /\ t[m] = s[m + 1]
    BY <1>1, <1>2, <1>3, <2>3
  <2> QED BY <2>2, <2>3, <2>4
<1>6. Head(s) = s[1] /\ s[1] \in Statements
  OBVIOUS
<1> QED BY <1>1, <1>3, <1>4, <1>5, <1>6

\* A map that is passed over: its check, iteration, drain and collection.
LEMMA SkipIs ==
  ASSUME NEW s \in Seq(Statements), s # <<>>, Ordered(s), s[1].op = "check"
  PROVE  /\ SubSeq(s, 5, Len(s)) \in Seq(Statements) /\ Ordered(SubSeq(s, 5, Len(s)))
         /\ Explained(s) => Explained(SubSeq(s, 5, Len(s)))
<1>0. 1 \in DOMAIN s
  OBVIOUS
<1>1. 4 \in DOMAIN s /\ s[2].op = "iterate" /\ s[3].op = "drain" /\ s[4].op = "collect"
  BY <1>0 DEF Ordered
<1>2. Len(s) \in Nat /\ 4 <= Len(s)
  BY <1>1
<1>3. PICK a, b, c : a = Tail(s) /\ b = Tail(a) /\ c = Tail(b)
  OBVIOUS
<1>4. /\ a = SubSeq(s, 2, Len(s)) /\ b = SubSeq(s, 3, Len(s)) /\ c = SubSeq(s, 4, Len(s))
      /\ SubSeq(s, 5, Len(s)) = Tail(c)
  <2>1. a = SubSeq(s, 2, Len(s))
    BY <1>3, TailIsSubSeq
  <2>2. \A m \in 1 .. Len(s) : Tail(SubSeq(s, m, Len(s))) = SubSeq(s, m + 1, Len(s))
    BY <1>2, HeadTailOfSubSeq
  <2>3. 2 \in 1 .. Len(s) /\ 3 \in 1 .. Len(s) /\ 4 \in 1 .. Len(s)
        /\ 2 + 1 = 3 /\ 3 + 1 = 4 /\ 4 + 1 = 5
    BY <1>2
  <2> QED BY <1>3, <2>1, <2>2, <2>3
<1>9. /\ a \in Seq(Statements) /\ a # <<>> /\ a[1] = s[2]
      /\ b \in Seq(Statements) /\ b # <<>> /\ b[1] = s[3]
      /\ c \in Seq(Statements) /\ c # <<>> /\ c[1] = s[4]
  <2>1. ASSUME NEW m \in 1 .. 4
        PROVE  /\ SubSeq(s, m, Len(s)) \in Seq(Statements) /\ SubSeq(s, m, Len(s)) # <<>>
               /\ SubSeq(s, m, Len(s))[1] = s[m]
    <3>1. \A i \in m .. Len(s) : s[i] \in Statements
      OBVIOUS
    <3>2. /\ SubSeq(s, m, Len(s)) \in Seq(Statements)
          /\ Len(SubSeq(s, m, Len(s))) = IF m <= Len(s) THEN Len(s) - m + 1 ELSE 0
          /\ \A i \in 1 .. Len(s) - m + 1 : SubSeq(s, m, Len(s))[i] = s[m + i - 1]
      BY <1>2, <3>1, SubSeqProperties
    <3>3. PICK q : q = SubSeq(s, m, Len(s))
      OBVIOUS
    <3>4. q \in Seq(Statements) /\ Len(q) >= 1
      BY <1>2, <3>2, <3>3
    <3>5. 1 \in 1 .. Len(s) - m + 1 /\ m + 1 - 1 = m
      BY <1>2
    <3>6. q[1] = s[m]
      BY <3>2, <3>3, <3>5
    <3>7. q # <<>>
      BY <3>4
    <3> QED BY <3>3, <3>4, <3>6, <3>7, Zenon
  <2> QED BY <1>4, <2>1
<1>5. Ordered(a) /\ (Explained(s) => Explained(a))
  BY <1>3, TailIs
<1>6. Ordered(b) /\ (Explained(s) => Explained(b))
  BY <1>1, <1>3, <1>5, <1>9, TailIs
<1>7. Ordered(c) /\ (Explained(s) => Explained(c))
  BY <1>1, <1>3, <1>6, <1>9, TailIs
<1>8. Tail(c) \in Seq(Statements) /\ Ordered(Tail(c)) /\ (Explained(s) => Explained(Tail(c)))
  BY <1>1, <1>7, <1>9, TailIs
<1> QED BY <1>4, <1>8

\* The records of a map are items of it, and a limit only leaves some out.
LEMMA InOrderIs ==
  ASSUME NEW K \in SUBSET Items
  PROVE  InOrder(K) \in Seq(K)
<1> DEFINE seqs == [i \in Items |-> IF i \in K THEN <<i>> ELSE <<>>]
           C == Seq(K)
<1>1. <<>> \in C /\ \A a, b \in C : a \o b \in C
  OBVIOUS
<1>2. NItems \in Nat /\ seqs \in [1 .. NItems -> C]
  BY StreamAssumption DEF Items
<1> HIDE DEF seqs, C
<1>3. FlattenSeq(seqs) \in C
  BY <1>1, <1>2, FlattenIn
<1> QED BY <1>3 DEF seqs, C, InOrder

\* What a handler takes out of the map is what was put there.
LEMMA CollectedIs ==
  ASSUME TypeInv
  PROVE  /\ Collected \in Seq(Items)
         /\ how.collect # "append" => \A k \in DOMAIN Collected : Collected[k] \in DOMAIN thisMap
<1>1. PICK keep : keep = CASE how.collect = "append" -> items
                           [] how.collect = "values" -> {i \in DOMAIN thisMap : answer[i] # "empty"}
                           [] OTHER -> {i \in DOMAIN thisMap : thisMap[i] = "fetched" /\ answer[i] # "empty"}
  OBVIOUS
<1>2. keep \subseteq Items /\ (how.collect # "append" => keep \subseteq DOMAIN thisMap)
  BY <1>1 DEF TypeInv
<1>3. PICK blank \in SUBSET keep : blank = {i \in keep : how.collect # "append" /\ thisMap[i] = "blank"}
  OBVIOUS
<1>4. Collected = InOrder(blank) \o InOrder(keep \ blank)
  BY <1>1, <1>3, Zenon DEF Collected
<1>5. InOrder(blank) \in Seq(blank) /\ InOrder(keep \ blank) \in Seq(keep \ blank)
  BY <1>2, InOrderIs
<1>6. Collected \in Seq(keep)
  BY <1>4, <1>5
<1> QED BY <1>2, <1>6

\* The counter of --max_records passes a part of the records.
LEMMA CountedIs ==
  ASSUME NEW K, NEW recs \in Seq(K), counter \in [seen : Nat, exported : 0 .. MaxRecords, finished : BOOLEAN]
  PROVE  /\ Counted(recs).pass \in Seq(K)
         /\ Counted(recs).counter \in [seen : Nat, exported : 0 .. MaxRecords, finished : BOOLEAN]
<1>1. PICK seen \in Nat, exported \in 0 .. MaxRecords :
        /\ seen = IF how.limit = "map" THEN 0 ELSE counter.seen
        /\ exported = IF how.limit = "map" THEN 0 ELSE counter.exported
  BY StreamAssumption
<1>2. PICK before : before = {k \in DOMAIN recs : seen + k < FirstRecord}
  OBVIOUS
<1>3. PICK c \in 0 .. Len(recs) : c = Cardinality(before)
  <2>1. Len(recs) \in Nat
    OBVIOUS
  <2>2. PICK n \in Nat : n = Len(recs) /\ DOMAIN recs = 1 .. n
    OBVIOUS
  <2>3. IsFiniteSet(1 .. n) /\ Cardinality(1 .. n) = n
    <3>1. Cardinality(1 .. n) = IF 1 > n THEN 0 ELSE n - 1 + 1
      BY FS_Interval
    <3> QED BY <3>1, FS_Interval
  <2>4. before \in SUBSET (1 .. n)
    BY <1>2, <2>2
  <2>5. Cardinality(before) \in Nat /\ Cardinality(before) <= n
    BY <2>3, <2>4, FS_Subset, FS_CardinalityType
  <2> QED BY <2>2, <2>5
<1>4. PICK room \in 0 .. MaxRecords : room = MaxRecords - exported
  BY <1>1, StreamAssumption
<1>5. PICK wanted \in Seq(K) : wanted = SubSeq(recs, c + 1, Len(recs))
  <2>1. Len(recs) \in Nat /\ c \in Nat /\ \A i \in c + 1 .. Len(recs) : recs[i] \in K
    BY <1>3
  <2>2. SubSeq(recs, c + 1, Len(recs)) \in Seq(K)
    BY <2>1, SubSeqProperties
  <2> QED BY <2>2
<1>6. PICK pass \in Seq(K) : /\ pass = IF Len(wanted) > room THEN SubSeq(wanted, 1, room) ELSE wanted
                             /\ Len(pass) <= room
  <2>1. Len(wanted) \in Nat /\ room \in Nat
    BY StreamAssumption
  <2>2. CASE Len(wanted) > room
    <3>1. \A i \in 1 .. room : wanted[i] \in K
      BY <2>1, <2>2
    <3>2. SubSeq(wanted, 1, room) \in Seq(K) /\ Len(SubSeq(wanted, 1, room)) <= room
      BY <2>1, <3>1, SubSeqProperties
    <3> QED BY <2>2, <3>2
  <2>3. CASE ~(Len(wanted) > room)
    BY <2>1, <2>3
  <2> QED BY <2>2, <2>3
<1>7. Counted(recs) = IF how.limit = "none" THEN [pass |-> recs, counter |-> counter]
                      ELSE [pass |-> pass,
                            counter |-> [seen |-> seen + (IF Len(wanted) > room THEN c + room + 1 ELSE Len(recs)),
                                         exported |-> exported + Len(pass),
                                         finished |-> how.limit = "query" /\ Len(wanted) > room]]
  BY <1>1, <1>2, <1>3, <1>4, <1>5, <1>6, Zenon DEF Counted
<1>8. /\ seen + (IF Len(wanted) > room THEN c + room + 1 ELSE Len(recs)) \in Nat
      /\ exported + Len(pass) \in 0 .. MaxRecords
  <2>1. Len(recs) \in Nat /\ Len(pass) \in Nat /\ room \in Nat /\ c \in Nat /\ MaxRecords \in Nat
    BY StreamAssumption
  <2>2. exported + Len(pass) \in 0 .. MaxRecords
    BY <1>4, <1>6, <2>1
  <2> QED BY <2>1, <2>2
<1>9. (how.limit = "query" /\ Len(wanted) > room) \in BOOLEAN
  OBVIOUS
<1> QED BY <1>7, <1>8, <1>9

\* What follows the collection: one send for each record.
LEMMA SendsIs ==
  ASSUME TypeInv, NEW recs \in Seq(Items),
         how.collect # "append" => \A k \in DOMAIN recs : recs[k] \in DOMAIN thisMap
  PROVE  /\ Sends(recs) \in Seq(Statements) /\ Ordered(Sends(recs))
         /\ (\A i \in DOMAIN thisMap : thisMap[i] # "blank") => Explained(Sends(recs))
<1> DEFINE Calm == \A i \in DOMAIN thisMap : thisMap[i] # "blank"
           C == {s \in Seq(Statements) :
                   \A k \in DOMAIN s : /\ s[k].op \notin {"check", "iterate"}
                                       /\ Calm => ~IsBlank(s[k])}
           one(k) == (IF how.articulate = "fetcher" /\ answer[recs[k]] = "garbled"
                      THEN Arm(<<"err">>) ELSE <<>>)
                     \o << Send(recs[k], IF how.collect = "append" THEN "fetched" ELSE thisMap[recs[k]]) >>
           seqs == [k \in DOMAIN recs |-> one(k)]
<1>0. PICK calm \in BOOLEAN : calm = Calm
  OBVIOUS
<1> HIDE DEF Calm
<1>1. <<>> \in C /\ \A a, b \in C : a \o b \in C
  <2>1. <<>> \in C
    OBVIOUS
  <2>2. ASSUME NEW a \in C, NEW b \in C PROVE a \o b \in C
    <3>1. a \o b \in Seq(Statements)
      OBVIOUS
    <3>2. \A k \in DOMAIN (a \o b) : \/ k \in DOMAIN a /\ (a \o b)[k] = a[k]
                                     \/ k - Len(a) \in DOMAIN b /\ (a \o b)[k] = b[k - Len(a)]
      OBVIOUS
    <3> QED BY <3>1, <3>2
  <2> HIDE DEF C
  <2> QED BY <2>1, <2>2
<1>2. ASSUME NEW k \in DOMAIN recs PROVE one(k) \in C
  <2>1. Arm(<<"err">>) \in C
    <3>1. Stmt("err") \in Statements /\ Stmt("err").op = "err"
      BY StatementFacts DEF Ops, ArmOps
    <3>2. Arm(<<"err">>) = << Stmt("err") >>
      BY DEF Arm
    <3>3. DOMAIN << Stmt("err") >> = {1} /\ << Stmt("err") >>[1] = Stmt("err")
          /\ << Stmt("err") >> \in Seq(Statements)
      BY <3>1
    <3> QED BY <3>1, <3>2, <3>3 DEF IsBlank
  <2>2. PICK v \in {"fetched", "blank"} :
          /\ v = IF how.collect = "append" THEN "fetched" ELSE thisMap[recs[k]]
          /\ Calm => v = "fetched"
    BY DEF Calm, TypeInv
  <2>3. << Send(recs[k], v) >> \in C
    <3>1. recs[k] \in Items
      OBVIOUS
    <3>2. Send(recs[k], v) \in Statements /\ Send(recs[k], v).op = "item" /\ Send(recs[k], v).rec[2] = v
      BY <3>1, StatementFacts
    <3>3. PICK t \in Statements : t = Send(recs[k], v)
      BY <3>2
    <3>4. t.op = "item" /\ t.rec[2] = v
      BY <3>2, <3>3
    <3>5. DOMAIN << t >> = {1} /\ << t >>[1] = t /\ << t >> \in Seq(Statements)
      OBVIOUS
    <3>6. << t >> \in C
      BY <2>2, <3>4, <3>5 DEF IsBlank
    <3> QED BY <3>3, <3>6
  <2> HIDE DEF C
  <2> QED BY <1>1, <2>1, <2>2, <2>3
<1>3. Sends(recs) = FlattenSeq(seqs)
  BY DEF Sends
<1>4. Len(recs) \in Nat /\ seqs \in [1 .. Len(recs) -> C]
  BY <1>2
<1> HIDE DEF seqs, C
<1>5. Sends(recs) \in C
  BY <1>1, <1>3, <1>4, FlattenIn
<1>6. PICK s : s = Sends(recs)
  OBVIOUS
<1>7. /\ s \in Seq(Statements)
      /\ \A k \in DOMAIN s : s[k].op \notin {"check", "iterate"} /\ (Calm => ~IsBlank(s[k]))
  BY <1>5, <1>6 DEF C
<1>8. Ordered(s)
  BY <1>7 DEF Ordered
<1>9. Calm => Explained(s)
  BY <1>7 DEF Explained
<1> QED BY <1>6, <1>7, <1>8, <1>9 DEF Calm

-----------------------------------------------------------------------------
(* The invariant holds at the start *)

\* Before the fetcher starts.
LEMMA InitStream == Init => StreamInv
<1> SUFFICES ASSUME Init PROVE StreamInv
  OBVIOUS
<1>0. PICK h \in Handlers, res \in [1 .. 2 -> {"ok", "notFound", "fail", "empty"}], ans \in [Items -> Answers] :
        /\ \E ready \in IF h.mayRefuse THEN BOOLEAN ELSE {TRUE} : Start(h, res, ans, ready)
        /\ answer = ans /\ how = h.how
  BY DEF Init
<1>1. PICK ready \in BOOLEAN : Start(h, res, ans, ready)
  BY <1>0
<1>2. todo \in Programs /\ (closed > 0 => todo = <<>>) /\ closed \in 0 .. 2 /\ reported \in Nat
      /\ renderer # "done"
  BY <1>1, FetchDataIs, ProgramsConcat DEF Start
<1>3. thisMap = [i \in {} |-> "blank"] /\ items = {} /\ dist = NoIteration
      /\ workers = [s \in Slots |-> Idle]
      /\ counter = [seen |-> 0, exported |-> 0, finished |-> FALSE]
      /\ shown = <<>> /\ crashed = FALSE
  BY DEF Init
<1>4. TypeInv
  <2>1. how.missingIsSent => how.collect # "append"
    BY <1>0, HandlersAssumption
  <2>2. counter \in [seen : Nat, exported : 0 .. MaxRecords, finished : BOOLEAN]
    BY <1>3, StreamAssumption
  <2>3. thisMap \in [DOMAIN thisMap -> {"blank", "fetched"}] /\ DOMAIN thisMap \subseteq Items
    BY <1>3
  <2>4. /\ DOMAIN dist = {"pc", "left", "payload", "per"} /\ dist.pc = "idle"
        /\ dist.left \subseteq Items /\ dist.payload \in Seq(Items)
    BY <1>3 DEF NoIteration
  <2>5. workers \in [Slots -> [pc : {"idle", "start", "step", "append", "delete", "failed", "send"},
                               args : Seq(Items), snap : SUBSET Items]]
    BY <1>3 DEF Idle
  <2>6. shown \in Seq(Items \X {"fetched", "blank"}) /\ answer \in [Items -> Answers]
    BY <1>0, <1>3
  <2> QED BY <1>2, <1>3, <2>1, <2>2, <2>3, <2>4, <2>5, <2>6 DEF TypeInv, Programs
<1>5. DOMAIN thisMap = {} /\ dist.pc = "idle" /\ dist.left = {} /\ dist.payload = <<>>
      /\ \A s \in Slots : workers[s].pc = "idle"
  BY <1>3 DEF NoIteration, Idle
<1>6. WorkInv /\ ActiveInv /\ MapInv
  BY <1>5 DEF WorkInv, ActiveInv, MapInv
<1>7. SaidInv
  BY <1>2, <1>3 DEF SaidInv, Programs
<1> QED BY <1>4, <1>6, <1>7 DEF StreamInv

-----------------------------------------------------------------------------
(* The steps of the fetcher *)

\* A statement that neither drains nor starts anything: only what was said and
\* what is left to do changes.
LEMMA FetcherKeeps ==
  ASSUME StreamInv, todo # <<>>, todo[1].op # "drain",
         UNCHANGED <<answer, how, thisMap, items, dist, workers, closed, crashed>>,
         todo' \in Seq(Statements), Ordered(todo'),
         todo[1].op = "err" => todo' = Tail(todo) /\ reported' > 0,
         todo[1].op = "return" => todo' = <<>>,
         counter' \in [seen : Nat, exported : 0 .. MaxRecords, finished : BOOLEAN],
         reported' \in Nat, reported' >= reported,
         shown' \in Seq(Items \X {"fetched", "blank"}),
         renderer' = "done" => renderer = "done",
         reported' = 0 => Explained(todo') /\ \A k \in DOMAIN shown' : shown'[k][2] # "blank"
  PROVE  StreamInv'
<1>0. /\ Failed' = Failed /\ \A i : Failing(i)' <=> Failing(i)
      /\ \A i : Under(i)' <=> Under(i)
  BY DEF Failed, Failing, Under
<1>1. TypeInv'
  BY DEF StreamInv, TypeInv
<1>2. WorkInv'
  BY <1>0 DEF StreamInv, WorkInv
<1>3. ~Next1("drain") /\ (Next1("err") => reported' > 0)
  BY DEF Next1
<1>4. ActiveInv'
  <2> SUFFICES ASSUME dist.pc \in {"range", "wait"} PROVE Next1("drain")' \/ (Failed # {} /\ Waiting')
    BY <1>0 DEF ActiveInv
  <2>1. Failed # {} /\ Waiting
    BY <1>3 DEF StreamInv, ActiveInv
  <2>2. CASE Next1("return")
    BY <2>1, <2>2 DEF Next1, Waiting
  <2>3. CASE Next1("err") /\ Len(todo) >= 2 /\ todo[2].op \in {"drain", "return"}
    <3>1. todo' = Tail(todo) /\ todo \in Seq(Statements)
      BY <2>3 DEF Next1, StreamInv, TypeInv
    <3>2. todo' # <<>> /\ todo'[1] = todo[2]
      <4>1. PICK t : t = Tail(todo)
        OBVIOUS
      <4>2. t \in Seq(Statements) /\ Len(t) = Len(todo) - 1 /\ \A k \in DOMAIN t : t[k] = todo[k + 1]
        BY <3>1, <4>1, TailIs DEF StreamInv, TypeInv
      <4>3. Len(todo) \in Nat /\ Len(t) >= 1 /\ 1 \in DOMAIN t
        BY <2>3, <3>1, <4>2
      <4>4. t # <<>>
        BY <4>2, <4>3
      <4>5. t[1] = todo[2]
        <5>1. 1 + 1 = 2
          OBVIOUS
        <5> QED BY <4>2, <4>3, <5>1
      <4> QED BY <3>1, <4>1, <4>4, <4>5, Zenon
    <3> QED BY <2>1, <2>3, <3>2 DEF Next1, Waiting
  <2> QED BY <2>1, <2>2, <2>3 DEF Waiting
<1>5. MapInv'
  <2> SUFFICES ASSUME NEW i \in DOMAIN thisMap
        PROVE  /\ Failing(i) => thisMap[i] = "blank"
               /\ thisMap[i] = "blank" => Failed # {} /\ reported' > 0
    BY <1>0 DEF MapInv
  <2> QED BY <1>3 DEF StreamInv, MapInv, TypeInv
<1>6. SaidInv'
  BY <1>0 DEF StreamInv, SaidInv, TypeInv
<1> QED BY <1>1, <1>2, <1>4, <1>5, <1>6 DEF StreamInv
\* The statement at the head, and what follows it.
LEMMA HeadIs ==
  ASSUME TypeInv, NEW op, Is(op)
  PROVE  /\ todo \in Seq(Statements) /\ todo # <<>> /\ Ordered(todo)
         /\ Head(todo) = todo[1] /\ todo[1] \in Statements /\ todo[1].op = op
         /\ Tail(todo) \in Seq(Statements) /\ Ordered(Tail(todo))
         /\ Explained(todo) /\ op # "err" => Explained(Tail(todo))
<1>1. todo \in Seq(Statements) /\ todo # <<>> /\ Ordered(todo)
  BY DEF TypeInv, Is
<1>2. Head(todo) = todo[1]
  BY <1>1, TailIs
<1>3. todo[1].op = op
  BY <1>2 DEF Is
<1> QED BY <1>1, <1>2, <1>3, TailIs

\* errorChan <- err.
LEMMA KeepsSendError == StreamInv /\ SendError => StreamInv'
<1> SUFFICES ASSUME StreamInv, SendError PROVE StreamInv'
  OBVIOUS
<1>1. /\ todo \in Seq(Statements) /\ todo # <<>> /\ todo[1].op = "err"
      /\ Tail(todo) \in Seq(Statements) /\ Ordered(Tail(todo))
  BY HeadIs DEF SendError, StreamInv
<1>2. /\ todo' = Tail(todo) /\ counter' = counter
      /\ UNCHANGED <<answer, how, thisMap, items, dist, workers, closed, crashed>>
      /\ reported' = reported + 1 /\ renderer' = renderer /\ shown' = shown
  BY DEF SendError, FetcherOnly, ReceiveError
<1>3. /\ reported' \in Nat /\ reported' >= reported /\ reported' > 0
      /\ counter' \in [seen : Nat, exported : 0 .. MaxRecords, finished : BOOLEAN]
      /\ shown' \in Seq(Items \X {"fetched", "blank"})
  BY <1>2 DEF StreamInv, TypeInv
<1> QED BY <1>1, <1>2, <1>3, FetcherKeeps

\* modelChan <- item.
LEMMA KeepsSendItem == StreamInv /\ SendItem => StreamInv'
<1> SUFFICES ASSUME StreamInv, SendItem PROVE StreamInv'
  OBVIOUS
<1>1. /\ todo \in Seq(Statements) /\ todo # <<>> /\ todo[1] \in Statements /\ todo[1].op = "item"
      /\ Head(todo) = todo[1]
      /\ Tail(todo) \in Seq(Statements) /\ Ordered(Tail(todo))
      /\ Explained(todo) => Explained(Tail(todo))
  BY HeadIs DEF SendItem, StreamInv
<1>2. PICK rec \in Items \X {"fetched", "blank"} : rec = Head(todo).rec
  BY <1>1, StatementFacts
<1>3. /\ todo' = Tail(todo) /\ counter' = counter
      /\ UNCHANGED <<answer, how, thisMap, items, dist, workers, closed, crashed>>
      /\ reported' = reported /\ renderer' # "done" /\ shown' = Append(shown, rec)
  BY <1>2 DEF SendItem, FetcherOnly, Receive
<1>4. /\ reported' \in Nat /\ reported' >= reported
      /\ counter' \in [seen : Nat, exported : 0 .. MaxRecords, finished : BOOLEAN]
      /\ shown \in Seq(Items \X {"fetched", "blank"})
  BY <1>3 DEF StreamInv, TypeInv
<1>5. shown' \in Seq(Items \X {"fetched", "blank"})
  BY <1>3, <1>4
<1>6. ASSUME reported' = 0
      PROVE  Explained(todo') /\ \A k \in DOMAIN shown' : shown'[k][2] # "blank"
  <2>1. Explained(todo) /\ \A k \in DOMAIN shown : shown[k][2] # "blank"
    BY <1>3, <1>6 DEF StreamInv, SaidInv
  <2>2. rec[2] # "blank"
    <3>1. 1 \in DOMAIN todo
      BY <1>1
    <3>2. ~IsBlank(todo[1])
      BY <2>1, <3>1 DEF Explained
    <3> QED BY <1>1, <1>2, <3>2 DEF IsBlank
  <2>3. \A k \in DOMAIN Append(shown, rec) :
          Append(shown, rec)[k] = rec \/ (k \in DOMAIN shown /\ Append(shown, rec)[k] = shown[k])
    BY <1>4
  <2>4. PICK s : s = Append(shown, rec)
    OBVIOUS
  <2>5. \A k \in DOMAIN s : s[k][2] # "blank"
    BY <2>1, <2>2, <2>3, <2>4
  <2> QED BY <1>1, <1>3, <2>1, <2>4, <2>5
<1> QED BY <1>1, <1>3, <1>4, <1>5, <1>6, FetcherKeeps

\* Statements of which only what is left to do, and the counters, are changed.
LEMMA QuietKeeps ==
  ASSUME StreamInv, todo # <<>>, todo[1].op \notin {"drain", "err"},
         UNCHANGED <<answer, how, thisMap, items, dist, workers, closed, crashed,
                     renderer, shown, reported>>,
         todo' \in Seq(Statements), Ordered(todo'), Explained(todo) => Explained(todo'),
         todo[1].op = "return" => todo' = <<>>,
         counter' \in [seen : Nat, exported : 0 .. MaxRecords, finished : BOOLEAN]
  PROVE  StreamInv'
<1>1. /\ reported' \in Nat /\ reported' >= reported
      /\ shown' \in Seq(Items \X {"fetched", "blank"})
  BY DEF StreamInv, TypeInv
<1>2. reported' = 0 => Explained(todo') /\ \A k \in DOMAIN shown' : shown'[k][2] # "blank"
  BY DEF StreamInv, SaidInv
<1> QED BY <1>1, <1>2, FetcherKeeps

\* The context is canceled, a warning is given, or the fetcher returns.
LEMMA KeepsLocal == StreamInv /\ Local => StreamInv'
<1> SUFFICES ASSUME StreamInv, Local PROVE StreamInv'
  OBVIOUS
<1>1. /\ UNCHANGED <<answer, how, thisMap, items, dist, workers, closed, crashed,
                     renderer, shown, reported>>
      /\ counter' \in [seen : Nat, exported : 0 .. MaxRecords, finished : BOOLEAN]
  BY DEF Local, FetcherOnly, StreamInv, TypeInv
<1>2. CASE Is("return") /\ todo' = <<>>
  <2>1. todo # <<>> /\ todo[1].op = "return"
    BY <1>2, HeadIs DEF StreamInv
  <2>2. todo' \in Seq(Statements) /\ Ordered(todo') /\ Explained(todo')
    BY <1>2, ProgramsConcat DEF Programs
  <2> QED BY <1>1, <1>2, <2>1, <2>2, QuietKeeps
<1>3. ASSUME NEW op \in {"cancel", "warn"}, Is(op), todo' = Tail(todo) PROVE StreamInv'
  <2>1. /\ todo # <<>> /\ todo[1].op = op
        /\ Tail(todo) \in Seq(Statements) /\ Ordered(Tail(todo))
        /\ Explained(todo) => Explained(Tail(todo))
    BY <1>3, HeadIs DEF StreamInv
  <2> QED BY <1>1, <1>3, <2>1, QuietKeeps
<1> QED BY <1>2, <1>3 DEF Local

\* The head of a loop, which looks at the context.
LEMMA KeepsLoop == StreamInv /\ Loop => StreamInv'
<1> SUFFICES ASSUME StreamInv, Loop PROVE StreamInv'
  OBVIOUS
<1>1. /\ UNCHANGED <<answer, how, thisMap, items, dist, workers, closed, crashed,
                     renderer, shown, reported>>
      /\ counter \in [seen : Nat, exported : 0 .. MaxRecords, finished : BOOLEAN]
  BY DEF Loop, FetcherOnly, StreamInv, TypeInv
<1>2. CASE Is("group") /\ todo' = Tail(todo) /\ counter' = [counter EXCEPT !.finished = FALSE]
  <2>1. /\ todo # <<>> /\ todo[1].op = "group"
        /\ Tail(todo) \in Seq(Statements) /\ Ordered(Tail(todo))
        /\ Explained(todo) => Explained(Tail(todo))
    BY <1>2, HeadIs DEF StreamInv
  <2>2. counter' \in [seen : Nat, exported : 0 .. MaxRecords, finished : BOOLEAN]
    BY <1>1, <1>2
  <2> QED BY <1>1, <1>2, <2>1, <2>2, QuietKeeps
<1>3. CASE Is("check") /\ counter' = counter
             /\ todo' \in {<<>>, SubSeq(todo, 5, Len(todo)), Tail(todo)}
  <2>1. /\ todo \in Seq(Statements) /\ Ordered(todo) /\ todo # <<>> /\ todo[1].op = "check"
        /\ Tail(todo) \in Seq(Statements) /\ Ordered(Tail(todo))
        /\ Explained(todo) => Explained(Tail(todo))
    BY <1>3, HeadIs DEF StreamInv
  <2>2. \A s \in {<<>>, SubSeq(todo, 5, Len(todo)), Tail(todo)} :
          s \in Seq(Statements) /\ Ordered(s) /\ (Explained(todo) => Explained(s))
    BY <2>1, SkipIs, ProgramsConcat DEF Programs
  <2>3. todo' \in Seq(Statements) /\ Ordered(todo') /\ (Explained(todo) => Explained(todo'))
    BY <1>3, <2>2
  <2> QED BY <1>1, <1>3, <2>1, <2>3, QuietKeeps
<1> QED BY <1>2, <1>3 DEF Loop

\* The walk over a folder and its goroutine.
LEMMA KeepsWalk == StreamInv /\ (StartWalk \/ Visit) => StreamInv'
<1> SUFFICES ASSUME StreamInv, NEW op \in {"walk", "visit"}, Is(op), todo' = Tail(todo),
                    UNCHANGED <<answer, how, thisMap, items, counter, dist, workers, closed, crashed,
                                renderer, shown, reported>>
      PROVE  StreamInv'
  BY DEF StartWalk, Visit
<1>1. /\ todo # <<>> /\ todo[1].op = op
      /\ Tail(todo) \in Seq(Statements) /\ Ordered(Tail(todo))
      /\ Explained(todo) => Explained(Tail(todo))
  BY HeadIs DEF StreamInv
<1>2. counter' \in [seen : Nat, exported : 0 .. MaxRecords, finished : BOOLEAN]
  BY DEF StreamInv, TypeInv
<1> QED BY <1>1, <1>2, QuietKeeps
\* The arms that the fetcher itself puts before the rest of its statements.
LEMMA ErrArms ==
  /\ \A ops \in {<<"err">>, <<"err", "return">>} :
       /\ Arm(ops) \in Programs /\ Len(Arm(ops)) = Len(ops)
       /\ \A k \in DOMAIN ops : Arm(ops)[k].op = ops[k]
<1> SUFFICES ASSUME NEW ops \in {<<"err">>, <<"err", "return">>}
      PROVE  /\ Arm(ops) \in Programs /\ Len(Arm(ops)) = Len(ops)
             /\ \A k \in DOMAIN ops : Arm(ops)[k].op = ops[k]
  OBVIOUS
<1>1. ops \in Seq(ArmOps)
  <2>1. PICK e, r \in ArmOps : e = "err" /\ r = "return"
    BY DEF ArmOps
  <2>2. <<e>> \in Seq(ArmOps) /\ <<e, r>> \in Seq(ArmOps)
    OBVIOUS
  <2> QED BY <2>1, <2>2, Zenon
<1>2. Arm(ops) \in Programs
  BY <1>1, ArmIs
<1>3. DOMAIN Arm(ops) = DOMAIN ops /\ \A k \in DOMAIN ops : Arm(ops)[k].op = ops[k]
  BY DEF Arm, Stmt
<1>4. Len(Arm(ops)) = Len(ops)
  BY <1>1, <1>2, <1>3 DEF Programs
<1> QED BY <1>2, <1>3, <1>4

\* The call of IterateOverMap.
LEMMA KeepsIterate == StreamInv /\ Iterate => StreamInv'
<1> SUFFICES ASSUME StreamInv, Iterate PROVE StreamInv'
  OBVIOUS
<1>1. /\ todo \in Seq(Statements) /\ todo # <<>> /\ Ordered(todo)
      /\ todo[1] \in Statements /\ todo[1].op = "iterate" /\ Head(todo) = todo[1]
      /\ Tail(todo) \in Seq(Statements) /\ Ordered(Tail(todo))
      /\ Explained(todo) => Explained(Tail(todo))
  BY HeadIs DEF Iterate, StreamInv
<1>2. PICK keys \in SUBSET Items : keys = Head(todo).keys
  BY <1>1, StatementFacts
<1>3. PICK per : dist' = [pc |-> "range", left |-> keys, payload |-> <<>>, per |-> per]
  BY <1>2 DEF Iterate
<1>4. /\ thisMap' = [i \in keys |-> "blank"] /\ items' = {} /\ todo' = Tail(todo)
      /\ UNCHANGED <<answer, how, counter, workers, closed, renderer, shown, reported, crashed>>
  BY <1>2 DEF Iterate
<1>5. dist'.pc = "range" /\ dist'.left = keys /\ dist'.payload = <<>>
      /\ DOMAIN dist' = {"pc", "left", "payload", "per"}
  BY <1>3
<1>6. DOMAIN thisMap' = keys /\ \A i \in keys : thisMap'[i] = "blank"
  BY <1>4
<1>7. \A s \in Slots : workers[s].pc = "idle"
  <2>1. ~Next1("drain") /\ ~Waiting
    BY <1>1 DEF Next1, Waiting
  <2>2. dist.pc \in {"idle", "done"}
    BY <2>1 DEF StreamInv, ActiveInv, TypeInv
  <2> QED BY <2>2 DEF StreamInv, WorkInv
<1>8. Next1("drain")'
  <2>1. 1 \in DOMAIN todo
    BY <1>1
  <2>2. 2 \in DOMAIN todo /\ todo[2].op = "drain"
    <3>1. 1 + 1 \in DOMAIN todo /\ todo[1 + 1].op = "drain"
      BY <1>1, <2>1 DEF Ordered
    <3> QED BY <3>1
  <2>3. PICK t : t = Tail(todo)
    OBVIOUS
  <2>4. t \in Seq(Statements) /\ Len(t) = Len(todo) - 1 /\ \A k \in DOMAIN t : t[k] = todo[k + 1]
    BY <1>1, <2>3, TailIs
  <2>5. Len(todo) \in Nat /\ Len(t) >= 1 /\ 1 \in DOMAIN t
    BY <1>1, <2>2, <2>4
  <2>6. t # <<>>
    BY <2>4, <2>5
  <2>7. t[1].op = "drain"
    <3>1. t[1] = todo[1 + 1] /\ 1 + 1 = 2
      BY <2>4, <2>5
    <3> QED BY <2>2, <3>1
  <2>8. todo' = t
    BY <1>4, <2>3
  <2> QED BY <2>6, <2>7, <2>8 DEF Next1
<1>9. TypeInv'
  <2>1. thisMap' \in [DOMAIN thisMap' -> {"blank", "fetched"}] /\ DOMAIN thisMap' \subseteq Items
    BY <1>4, <1>6
  <2>2. dist'.payload \in Seq(Items) /\ dist'.left \subseteq Items
    BY <1>5
  <2> QED BY <1>1, <1>4, <1>5, <2>1, <2>2 DEF StreamInv, TypeInv
<1>10. WorkInv'
  BY <1>4, <1>5, <1>7 DEF WorkInv
<1>11. ActiveInv'
  BY <1>8 DEF ActiveInv
<1>12. MapInv'
  <2>1. \A i \in keys : Under(i)'
    BY <1>5 DEF Under
  <2> QED BY <1>6, <1>8, <2>1 DEF MapInv
<1>13. SaidInv'
  <2>1. closed \in 0 .. 2 /\ ~(closed > 0)
    BY <1>1 DEF StreamInv, SaidInv, TypeInv
  <2>2. Failed' = Failed
    BY <1>4 DEF Failed, Failing
  <2> QED BY <1>1, <1>4, <2>1, <2>2 DEF StreamInv, SaidInv
<1> QED BY <1>9, <1>10, <1>11, <1>12, <1>13 DEF StreamInv

\* The map has been worked through: what is blank was reported.
LEMMA KeepsDrained ==
  StreamInv /\ Drain /\ dist.pc = "done" /\ todo' = Tail(todo) /\ UNCHANGED workers => StreamInv'
<1> SUFFICES ASSUME StreamInv, Drain, dist.pc = "done", todo' = Tail(todo), UNCHANGED workers
      PROVE  StreamInv'
  OBVIOUS
<1>1. /\ todo # <<>> /\ todo[1].op = "drain"
      /\ Tail(todo) \in Seq(Statements) /\ Ordered(Tail(todo))
      /\ Explained(todo) => Explained(Tail(todo))
  BY HeadIs DEF Drain, StreamInv
<1>2. UNCHANGED <<answer, how, thisMap, items, counter, dist, workers, closed, renderer,
                  shown, reported, crashed>>
  BY DEF Drain
<1>3. Failed' = Failed /\ \A i : Failing(i)' <=> Failing(i)
  BY <1>2 DEF Failed, Failing
<1>4. \A i : ~Under(i)
  BY DEF StreamInv, WorkInv, Under
<1>5. TypeInv'
  BY <1>1, <1>2 DEF StreamInv, TypeInv
<1>6. WorkInv'
  BY <1>2, <1>3 DEF StreamInv, WorkInv
<1>7. ActiveInv'
  BY <1>2 DEF ActiveInv
<1>8. MapInv'
  <2>1. ~Next1("err")
    BY <1>1 DEF Next1
  <2> QED BY <1>2, <1>3, <1>4, <2>1 DEF StreamInv, MapInv
<1>9. SaidInv'
  <2>1. closed \in 0 .. 2 /\ ~(closed > 0)
    BY <1>1 DEF StreamInv, SaidInv, TypeInv
  <2> QED BY <1>1, <1>2, <1>3, <2>1 DEF StreamInv, SaidInv
<1> QED BY <1>5, <1>6, <1>7, <1>8, <1>9 DEF StreamInv

\* A worker that failed is met: its error is the next thing to be sent.
LEMMA KeepsDrainOne ==
  ASSUME StreamInv, Is("drain"), NEW s \in Slots, workers[s].pc = "failed",
         workers' = [workers EXCEPT ![s] = Idle],
         todo' = IF how.drain = "first" THEN Arm(<<"err", "return">>) ELSE Arm(<<"err">>) \o todo,
         UNCHANGED <<answer, how, thisMap, items, counter, dist, closed, renderer,
                     shown, reported, crashed>>
  PROVE  StreamInv'
<1>1. todo \in Seq(Statements) /\ todo # <<>> /\ todo[1].op = "drain" /\ Ordered(todo)
  BY HeadIs DEF StreamInv
<1>2. Failed' = Failed /\ \A i : Failing(i)' <=> Failing(i)
  BY DEF Failed, Failing
<1>3. Failed # {}
  BY DEF StreamInv, WorkInv
<1>4. /\ todo' \in Seq(Statements) /\ Ordered(todo') /\ (Explained(todo) => Explained(todo'))
      /\ Len(todo') >= 2 /\ todo'[1].op = "err" /\ todo'[2].op \in {"drain", "return"}
  <2>1. PICK a, b \in Programs : a = Arm(<<"err">>) /\ b = Arm(<<"err", "return">>)
    BY ErrArms
  <2>2. /\ a \in Seq(Statements) /\ Len(a) = 1 /\ a[1].op = "err" /\ Ordered(a) /\ Explained(a)
        /\ b \in Seq(Statements) /\ Len(b) = 2 /\ b[1].op = "err" /\ b[2].op = "return"
        /\ Ordered(b) /\ Explained(b)
    <3>1. /\ DOMAIN <<"err">> = {1} /\ DOMAIN <<"err", "return">> = {1, 2}
          /\ Len(<<"err">>) = 1 /\ Len(<<"err", "return">>) = 2
          /\ <<"err">>[1] = "err" /\ <<"err", "return">>[1] = "err" /\ <<"err", "return">>[2] = "return"
      OBVIOUS
    <3>2. a \in Seq(Statements) /\ Ordered(a) /\ Explained(a) /\ b \in Seq(Statements)
          /\ Ordered(b) /\ Explained(b)
      BY DEF Programs
    <3>3. Len(a) = 1 /\ a[1].op = "err"
      BY <2>1, <3>1, ErrArms
    <3>4. Len(b) = 2 /\ b[1].op = "err" /\ b[2].op = "return"
      BY <2>1, <3>1, ErrArms
    <3> QED BY <3>2, <3>3, <3>4
  <2>3. CASE how.drain = "first"
    <3>1. todo' = b
      BY <2>1, <2>3
    <3>2. Len(b) >= 2 /\ b[2].op \in {"drain", "return"}
      BY <2>2
    <3> QED BY <2>2, <3>1, <3>2, Zenon
  <2>4. CASE how.drain # "first"
    <3>1. PICK c : c = a \o todo
      OBVIOUS
    <3>2. Ordered(c) /\ (Explained(todo) => Explained(c))
      BY <1>1, <2>2, <3>1, OrderedConcat, ExplainedConcat
    <3>3. c \in Seq(Statements) /\ Len(c) >= 2 /\ c[1] = a[1] /\ c[2] = todo[1]
      <4>1. PICK d : d = todo
        OBVIOUS
      <4>2. d \in Seq(Statements) /\ d # <<>> /\ a \in Seq(Statements) /\ Len(a) = 1 /\ c = a \o d
        BY <1>1, <2>2, <3>1, <4>1
      <4>3. Len(d) \in Nat /\ Len(d) >= 1
        BY <4>2
      <4>8. /\ a \o d \in Seq(Statements) /\ Len(a \o d) = Len(a) + Len(d)
            /\ \A k \in 1 .. Len(a) + Len(d) : (a \o d)[k] = IF k <= Len(a) THEN a[k] ELSE d[k - Len(a)]
        BY <4>2, ConcatProperties, Zenon
      <4>9. PICK one : one = Len(a) /\ one = 1
        BY <4>2
      <4>10. /\ c \in Seq(Statements) /\ Len(c) = one + Len(d)
             /\ \A k \in 1 .. one + Len(d) : c[k] = IF k <= one THEN a[k] ELSE d[k - one]
        BY <4>2, <4>8, <4>9, Zenon
      <4>4. c \in Seq(Statements) /\ Len(c) = 1 + Len(d)
        BY <4>9, <4>10
      <4>5. \A k \in 1 .. 1 + Len(d) : c[k] = IF k <= 1 THEN a[k] ELSE d[k - 1]
        BY <4>9, <4>10
      <4>6. 1 \in 1 .. 1 + Len(d) /\ 2 \in 1 .. 1 + Len(d) /\ 2 - 1 = 1 /\ ~(2 <= 1) /\ 1 <= 1
        BY <4>3
      <4>7. c[1] = a[1] /\ c[2] = d[1]
        BY <4>5, <4>6
      <4> QED BY <4>1, <4>3, <4>4, <4>7
    <3>4. todo' = c
      BY <2>1, <2>4, <3>1
    <3> QED BY <1>1, <2>2, <3>2, <3>3, <3>4
  <2> QED BY <2>3, <2>4
<1>5. todo' # <<>>
  <2>1. PICK t : t = todo'
    OBVIOUS
  <2>2. t \in Seq(Statements) /\ Len(t) >= 2
    BY <1>4, <2>1
  <2>3. t # <<>>
    BY <2>2
  <2> QED BY <2>1, <2>3
<1>6. /\ workers' \in [Slots -> [pc : {"idle", "start", "step", "append", "delete", "failed", "send"},
                                 args : Seq(Items), snap : SUBSET Items]]
      /\ workers'[s].pc = "idle" /\ \A u \in Slots \ {s} : workers'[u] = workers[u]
  <2>1. Idle \in [pc : {"idle", "start", "step", "append", "delete", "failed", "send"},
                  args : Seq(Items), snap : SUBSET Items] /\ Idle.pc = "idle"
    BY DEF Idle
  <2> QED BY <2>1 DEF StreamInv, TypeInv
<1>7. TypeInv'
  BY <1>4, <1>6 DEF StreamInv, TypeInv
<1>8. WorkInv'
  BY <1>2, <1>6 DEF StreamInv, WorkInv
<1>9. Next1("err")' /\ Waiting'
  BY <1>4, <1>5 DEF Next1, Waiting
<1>10. ActiveInv'
  BY <1>2, <1>3, <1>9 DEF ActiveInv
<1>11. MapInv'
  BY <1>2, <1>3, <1>9 DEF StreamInv, MapInv
<1>12. SaidInv'
  <2>1. closed \in 0 .. 2 /\ ~(closed > 0)
    BY <1>1 DEF StreamInv, SaidInv, TypeInv
  <2> QED BY <1>2, <1>4, <2>1 DEF StreamInv, SaidInv
<1> QED BY <1>7, <1>8, <1>10, <1>11, <1>12 DEF StreamInv

\* The fetcher reads the errors of the pool.
LEMMA KeepsDrain == StreamInv /\ Drain => StreamInv'
<1> SUFFICES ASSUME StreamInv, Drain PROVE StreamInv'
  OBVIOUS
<1>1. CASE dist.pc = "done" /\ todo' = Tail(todo) /\ UNCHANGED workers
  BY <1>1, KeepsDrained
<1>2. ASSUME NEW s \in Slots, workers[s].pc = "failed",
             workers' = [workers EXCEPT ![s] = Idle],
             todo' = IF how.drain = "first" THEN Arm(<<"err", "return">>) ELSE Arm(<<"err">>) \o todo
      PROVE  StreamInv'
  <2>1. Is("drain") /\ UNCHANGED <<answer, how, thisMap, items, counter, dist, closed, renderer,
                                   shown, reported, crashed>>
    BY DEF Drain
  <2> QED BY <1>2, <2>1, KeepsDrainOne
<1> QED BY <1>1, <1>2, Zenon DEF Drain

\* The records are taken out of the map and sorted.
LEMMA KeepsCollect == StreamInv /\ Collect => StreamInv'
<1> SUFFICES ASSUME StreamInv, Collect PROVE StreamInv'
  OBVIOUS
<1>1. /\ todo \in Seq(Statements) /\ todo # <<>> /\ todo[1].op = "collect" /\ Ordered(todo)
      /\ Tail(todo) \in Seq(Statements) /\ Ordered(Tail(todo))
      /\ Explained(todo) => Explained(Tail(todo))
  BY HeadIs DEF Collect, StreamInv
<1>2. /\ UNCHANGED <<answer, how, thisMap, items, dist, workers, closed, renderer, shown, reported>>
      /\ counter \in [seen : Nat, exported : 0 .. MaxRecords, finished : BOOLEAN]
      /\ TypeInv
  BY DEF Collect, StreamInv, TypeInv
<1>3. \A i \in DOMAIN thisMap : thisMap[i] = "blank" => Failed # {} /\ reported > 0
  <2>1. ~Next1("drain") /\ ~Next1("err")
    BY <1>1 DEF Next1
  <2> QED BY <2>1 DEF StreamInv, MapInv
<1>4. ASSUME counter' \in [seen : Nat, exported : 0 .. MaxRecords, finished : BOOLEAN], crashed' = crashed,
             todo' \in Seq(Statements), Ordered(todo'),
             reported = 0 /\ Explained(todo) => Explained(todo')
      PROVE  StreamInv'
  <2>1. /\ reported' \in Nat /\ reported' >= reported
        /\ shown' \in Seq(Items \X {"fetched", "blank"})
    BY <1>2 DEF TypeInv
  <2>2. reported' = 0 => Explained(todo') /\ \A k \in DOMAIN shown' : shown'[k][2] # "blank"
    BY <1>2, <1>4 DEF StreamInv, SaidInv
  <2> QED BY <1>1, <1>2, <1>4, <2>1, <2>2, FetcherKeeps
<1>5. CASE Panics /\ crashed' = TRUE /\ UNCHANGED <<todo, counter>>
  <2>1. Failed # {}
    BY <1>3, <1>5 DEF Panics
  <2>2. Failed' = Failed /\ (\A i : Failing(i)' <=> Failing(i)) /\ \A i : Under(i)' <=> Under(i)
    BY <1>2 DEF Failed, Failing, Under
  <2>3. TypeInv' /\ WorkInv' /\ ActiveInv' /\ MapInv'
    <3>1. TypeInv'
      BY <1>2, <1>5 DEF TypeInv
    <3>2. WorkInv'
      BY <1>2, <2>2 DEF StreamInv, WorkInv
    <3>3. ActiveInv'
      BY <1>2, <1>5, <2>2 DEF StreamInv, ActiveInv, Waiting, Next1
    <3>4. MapInv'
      BY <1>2, <1>5, <2>2 DEF StreamInv, MapInv, Next1
    <3> QED BY <3>1, <3>2, <3>3, <3>4
  <2>4. SaidInv'
    BY <1>2, <1>5, <2>1, <2>2 DEF StreamInv, SaidInv
  <2> QED BY <2>3, <2>4 DEF StreamInv
<1>6. CASE todo' = Arm(<<"err", "return">>) /\ UNCHANGED <<counter, crashed>>
  <2>1. todo' \in Seq(Statements) /\ Ordered(todo') /\ Explained(todo')
    BY <1>6, ErrArms DEF Programs
  <2> QED BY <1>2, <1>4, <1>6, <2>1
<1>7. CASE /\ todo' = Sends(Counted(Collected).pass) \o Tail(todo)
           /\ counter' = Counted(Collected).counter /\ crashed' = crashed
  <2>1. PICK K \in SUBSET Items : /\ Collected \in Seq(K)
                                  /\ how.collect # "append" => K \subseteq DOMAIN thisMap
    <3>1. CASE how.collect # "append"
      <4>1. PICK q : q = Collected
        OBVIOUS
      <4>2. q \in Seq(Items) /\ \A k \in DOMAIN q : q[k] \in DOMAIN thisMap
        BY <1>2, <3>1, <4>1, CollectedIs
      <4>3. q \in Seq(DOMAIN thisMap) /\ DOMAIN thisMap \subseteq Items
        BY <1>2, <4>2 DEF TypeInv
      <4> QED BY <4>1, <4>3
    <3>2. CASE how.collect = "append"
      BY <1>2, <3>2, CollectedIs
    <3> QED BY <3>1, <3>2
  <2>2. PICK recs \in Seq(K) : recs = Counted(Collected).pass
    BY <1>2, <2>1, CountedIs
  <2>3. counter' \in [seen : Nat, exported : 0 .. MaxRecords, finished : BOOLEAN]
    BY <1>2, <1>7, <2>1, CountedIs
  <2>4. recs \in Seq(Items) /\ (how.collect # "append" => \A k \in DOMAIN recs : recs[k] \in DOMAIN thisMap)
    BY <2>1, <2>2
  <2>5. PICK s : s = Sends(recs)
    OBVIOUS
  <2>6. s \in Seq(Statements) /\ Ordered(s) /\ ((\A i \in DOMAIN thisMap : thisMap[i] # "blank") => Explained(s))
    BY <1>2, <2>4, <2>5, SendsIs
  <2>7. PICK t : t = Tail(todo)
    OBVIOUS
  <2>8. t \in Seq(Statements) /\ Ordered(t) /\ (Explained(todo) => Explained(t))
    BY <1>1, <2>7
  <2>9. /\ s \o t \in Seq(Statements) /\ Ordered(s \o t)
        /\ reported = 0 /\ Explained(todo) => Explained(s \o t)
    <3>1. reported = 0 => \A i \in DOMAIN thisMap : thisMap[i] # "blank"
      BY <1>3
    <3>2. s \o t \in Seq(Statements)
      BY <2>6, <2>8
    <3> QED BY <2>6, <2>8, <3>1, <3>2, OrderedConcat, ExplainedConcat
  <2>10. todo' = s \o t
    BY <1>7, <2>2, <2>5, <2>7
  <2> QED BY <1>4, <1>7, <2>3, <2>9, <2>10
<1> QED BY <1>5, <1>6, <1>7, Zenon DEF Collect

\* fetchData has returned, or the renderer has: nothing else moves.
LEMMA KeepsEnds == StreamInv /\ (Close \/ RenderCanceled \/ RenderDone) => StreamInv'
<1> SUFFICES ASSUME StreamInv, Close \/ RenderCanceled \/ RenderDone PROVE StreamInv'
  OBVIOUS
<1>1. UNCHANGED <<todo, answer, how, thisMap, items, counter, dist, workers, shown, reported, crashed>>
  BY DEF Close, RenderCanceled, RenderDone
<1>2. /\ closed' \in 0 .. 2 /\ (closed' > 0 => todo = <<>>)
      /\ renderer' = "done" => closed' > 0
  BY DEF Close, RenderCanceled, RenderDone, StreamInv, SaidInv, TypeInv
<1>3. Failed' = Failed /\ (\A i : Failing(i)' <=> Failing(i)) /\ \A i : Under(i)' <=> Under(i)
  BY <1>1 DEF Failed, Failing, Under
<1>4. TypeInv'
  BY <1>1, <1>2 DEF StreamInv, TypeInv
<1>5. WorkInv'
  BY <1>1, <1>3 DEF StreamInv, WorkInv
<1>6. ActiveInv'
  BY <1>1, <1>3 DEF StreamInv, ActiveInv, Waiting, Next1
<1>7. MapInv'
  BY <1>1, <1>3 DEF StreamInv, MapInv, Next1
<1>8. SaidInv'
  BY <1>1, <1>2, <1>3 DEF StreamInv, SaidInv
<1> QED BY <1>4, <1>5, <1>6, <1>7, <1>8 DEF StreamInv
-----------------------------------------------------------------------------
(* The steps of the distributor *)

Goroutines == [pc : {"idle", "start", "step", "append", "delete", "failed", "send"},
               args : Seq(Items), snap : SUBSET Items]

\* The pool gives an item to a worker that was idle.
LEMMA InvokeIs ==
  ASSUME TypeInv, NEW payload \in Seq(Items), Invoke(payload)
  PROVE  /\ workers' \in [Slots -> Goroutines]
         /\ \E s \in Slots : /\ workers[s].pc = "idle" /\ workers'[s].pc = "start"
                             /\ workers'[s].args = payload
                             /\ \A t \in Slots \ {s} : workers'[t] = workers[t]
<1>1. PICK s \in Slots :
        /\ workers[s].pc = "idle"
        /\ workers' = [workers EXCEPT ![s] = [Idle EXCEPT !.pc = "start", !.args = payload]]
  BY DEF Invoke
<1>2. PICK w \in Goroutines : /\ w = [Idle EXCEPT !.pc = "start", !.args = payload]
                              /\ w.pc = "start" /\ w.args = payload
  <2>1. Idle \in Goroutines /\ DOMAIN Idle = {"pc", "args", "snap"}
    BY DEF Idle, Goroutines
  <2>2. PICK w : w = [Idle EXCEPT !.pc = "start", !.args = payload]
    OBVIOUS
  <2>3. w \in Goroutines
    BY <2>1, <2>2 DEF Goroutines
  <2>4. w.pc = "start" /\ w.args = payload
    BY <2>1, <2>2
  <2> QED BY <2>2, <2>3, <2>4
<1>3. workers' = [workers EXCEPT ![s] = w] /\ workers \in [Slots -> Goroutines]
  BY <1>1, <1>2 DEF TypeInv, Goroutines
<1>4. workers' \in [Slots -> Goroutines] /\ workers'[s] = w
      /\ \A t \in Slots \ {s} : workers'[t] = workers[t]
  BY <1>3
<1> QED BY <1>1, <1>2, <1>4

\* The distributor hands out what it holds: nothing that is under way is lost.
LEMMA DistKeeps ==
  ASSUME StreamInv, dist.pc \in {"range", "wait"},
         UNCHANGED <<todo, answer, how, thisMap, items, counter, closed, renderer, shown, reported, crashed>>,
         DOMAIN dist' = {"pc", "left", "payload", "per"}, dist'.pc \in {"range", "wait", "done"},
         dist'.left \subseteq Items, dist'.payload \in Seq(Items),
         dist'.pc # "range" => dist'.left = {} /\ dist'.payload = <<>>,
         dist'.pc = "done" => \A s \in Slots : workers'[s].pc = "idle",
         workers' \in [Slots -> Goroutines],
         \A s \in Slots : workers'[s] = workers[s] \/ workers'[s].pc = "start",
         \A i : Under(i) => Under(i)'
  PROVE  StreamInv'
<1>1. Failed' = Failed /\ \A i : Failing(i)' <=> Failing(i)
  BY DEF Failed, Failing
<1>2. TypeInv'
  BY DEF StreamInv, TypeInv, Goroutines
<1>3. WorkInv'
  <2> SUFFICES ASSUME NEW s \in Slots
        PROVE  /\ workers'[s].pc \in {"append", "send", "delete"} => workers'[s].args # <<>>
               /\ workers'[s].pc \in {"append", "send"} /\ workers'[s].args[1] \in DOMAIN thisMap =>
                    \/ thisMap[workers'[s].args[1]] = "fetched"
                    \/ workers'[s].pc = "send" /\ answer[workers'[s].args[1]] = "notFound"
               /\ workers'[s].pc \in {"delete", "failed"} => Failed # {}
    BY <1>1 DEF WorkInv
  <2>1. CASE workers'[s] = workers[s]
    BY <2>1 DEF StreamInv, WorkInv
  <2>2. CASE workers'[s].pc = "start"
    BY <2>2
  <2> QED BY <2>1, <2>2
<1>4. ActiveInv'
  BY <1>1 DEF StreamInv, ActiveInv, Waiting, Next1
<1>5. MapInv'
  <2>1. Next1("drain")' = Next1("drain") /\ Next1("err")' = Next1("err")
    BY DEF Next1
  <2> QED BY <1>1, <2>1 DEF StreamInv, MapInv
<1>6. SaidInv'
  BY <1>1 DEF StreamInv, SaidInv
<1> QED BY <1>2, <1>3, <1>4, <1>5, <1>6 DEF StreamInv

\* IterateOverMap hands out the next key.
LEMMA KeepsRangeOverMap == StreamInv /\ RangeOverMap => StreamInv'
<1> SUFFICES ASSUME StreamInv, RangeOverMap PROVE StreamInv'
  OBVIOUS
<1>1. /\ dist.pc = "range"
      /\ UNCHANGED <<todo, answer, how, thisMap, items, counter, closed, renderer, shown, reported, crashed>>
  BY DEF RangeOverMap
<1>2. /\ TypeInv /\ DOMAIN dist = {"pc", "left", "payload", "per"} /\ dist.left \subseteq Items
      /\ dist.payload \in Seq(Items) /\ workers \in [Slots -> Goroutines]
  BY DEF StreamInv, TypeInv, Goroutines
<1>3. PICK i \in dist.left :
        IF Len(Append(dist.payload, i)) = dist.per
        THEN /\ Invoke(Append(dist.payload, i))
             /\ dist' = [dist EXCEPT !.left = @ \ {i}, !.payload = <<>>]
        ELSE /\ dist' = [dist EXCEPT !.left = @ \ {i}, !.payload = Append(dist.payload, i)]
             /\ UNCHANGED workers
  BY Zenon DEF RangeOverMap
<1>4. PICK held : held = dist.payload
  OBVIOUS
<1>5. PICK payload \in Seq(Items) : payload = Append(held, i)
  <2>1. held \in Seq(Items) /\ i \in Items
    BY <1>2, <1>4
  <2>2. Append(held, i) \in Seq(Items)
    BY <2>1
  <2> QED BY <2>2
<1>6. /\ \A k \in DOMAIN held : k \in DOMAIN payload /\ payload[k] = held[k]
      /\ \E k \in DOMAIN payload : payload[k] = i
  <2>1. held \in Seq(Items) /\ i \in Items
    BY <1>2, <1>4
  <2>2. /\ Len(payload) = Len(held) + 1 /\ Len(held) \in Nat
        /\ DOMAIN held = 1 .. Len(held) /\ DOMAIN payload = 1 .. Len(payload)
        /\ \A k \in 1 .. Len(held) : payload[k] = held[k]
        /\ payload[Len(held) + 1] = i
    BY <1>5, <2>1
  <2>3. Len(held) + 1 \in DOMAIN payload
    BY <2>2
  <2> QED BY <2>2, <2>3
<1>7. CASE Invoke(payload) /\ dist' = [dist EXCEPT !.left = @ \ {i}, !.payload = <<>>]
  <2>1. /\ DOMAIN dist' = {"pc", "left", "payload", "per"} /\ dist'.pc = "range"
        /\ dist'.left = dist.left \ {i} /\ dist'.payload = <<>>
    BY <1>1, <1>2, <1>7
  <2>2. PICK s \in Slots : /\ workers[s].pc = "idle" /\ workers'[s].pc = "start"
                           /\ workers'[s].args = payload
                           /\ \A t \in Slots \ {s} : workers'[t] = workers[t]
    BY <1>2, <1>7, InvokeIs
  <2>3. workers' \in [Slots -> Goroutines]
    BY <1>2, <1>7, InvokeIs
  <2>4. ASSUME NEW j, Under(j) PROVE Under(j)'
    <3>1. CASE \/ j = i
               \/ \E k \in DOMAIN dist.payload : dist.payload[k] = j
      <4>1. \E k \in DOMAIN payload : payload[k] = j
        BY <1>4, <1>6, <3>1
      <4>2. \E k \in DOMAIN workers'[s].args : workers'[s].args[k] = j
        BY <2>2, <4>1
      <4> QED BY <2>2, <4>2 DEF Under
    <3>2. CASE j \in dist.left /\ j # i
      BY <2>1, <3>2 DEF Under
    <3>3. CASE \E u \in Slots : /\ workers[u].pc # "idle"
                                /\ \E k \in DOMAIN workers[u].args : workers[u].args[k] = j
      <4>1. PICK u \in Slots : /\ workers[u].pc # "idle"
                               /\ \E k \in DOMAIN workers[u].args : workers[u].args[k] = j
        BY <3>3
      <4>2. workers'[u] = workers[u]
        BY <2>2, <4>1
      <4>3. workers'[u].pc # "idle" /\ \E k \in DOMAIN workers'[u].args : workers'[u].args[k] = j
        BY <4>1, <4>2
      <4> QED BY <4>3 DEF Under
    <3> QED BY <2>4, <3>1, <3>2, <3>3 DEF Under
  <2>5. dist'.payload \in Seq(Items) /\ dist'.left \subseteq Items
    BY <1>2, <2>1
  <2>6. \A u \in Slots : workers'[u] = workers[u] \/ workers'[u].pc = "start"
    BY <2>2
  <2> QED BY <1>1, <2>1, <2>3, <2>4, <2>5, <2>6, DistKeeps
<1>8. CASE dist' = [dist EXCEPT !.left = @ \ {i}, !.payload = payload] /\ UNCHANGED workers
  <2>1. /\ DOMAIN dist' = {"pc", "left", "payload", "per"} /\ dist'.pc = "range"
        /\ dist'.left = dist.left \ {i} /\ dist'.payload = payload
    BY <1>1, <1>2, <1>8
  <2>2. workers' = workers
    BY <1>8
  <2>3. ASSUME NEW j, Under(j) PROVE Under(j)'
    <3>1. CASE \/ j = i
               \/ \E k \in DOMAIN dist.payload : dist.payload[k] = j
      <4>1. \E k \in DOMAIN payload : payload[k] = j
        BY <1>4, <1>6, <3>1
      <4> QED BY <2>1, <4>1 DEF Under
    <3>2. CASE j \in dist.left /\ j # i
      BY <2>1, <3>2 DEF Under
    <3>3. CASE \E u \in Slots : /\ workers[u].pc # "idle"
                                /\ \E k \in DOMAIN workers[u].args : workers[u].args[k] = j
      BY <2>2, <3>3 DEF Under
    <3> QED BY <2>3, <3>1, <3>2, <3>3 DEF Under
  <2>4. dist'.payload \in Seq(Items) /\ dist'.left \subseteq Items
    BY <1>2, <2>1
  <2>5. workers' \in [Slots -> Goroutines] /\ \A u \in Slots : workers'[u] = workers[u]
    BY <1>2, <2>2
  <2> QED BY <1>1, <2>1, <2>3, <2>4, <2>5, DistKeeps
<1> QED BY <1>3, <1>4, <1>5, <1>7, <1>8

\* IterateOverMap has handed out every key.
LEMMA KeepsRangeEnds == StreamInv /\ RangeEnds => StreamInv'
<1> SUFFICES ASSUME StreamInv, RangeEnds PROVE StreamInv'
  OBVIOUS
<1>1. /\ dist.pc = "range" /\ dist.left = {}
      /\ dist' = [dist EXCEPT !.pc = "wait", !.payload = <<>>]
      /\ UNCHANGED <<todo, answer, how, thisMap, items, counter, closed, renderer, shown, reported, crashed>>
  BY DEF RangeEnds
<1>2. /\ TypeInv /\ DOMAIN dist = {"pc", "left", "payload", "per"}
      /\ dist.payload \in Seq(Items) /\ workers \in [Slots -> Goroutines]
  BY DEF StreamInv, TypeInv, Goroutines
<1>3. /\ DOMAIN dist' = {"pc", "left", "payload", "per"} /\ dist'.pc = "wait"
      /\ dist'.left = {} /\ dist'.payload = <<>>
  BY <1>1, <1>2
<1>4. dist'.payload \in Seq(Items) /\ dist'.left \subseteq Items
  BY <1>3
<1>5. CASE dist.payload = <<>> /\ UNCHANGED workers
  <2>1. workers' = workers
    BY <1>5
  <2>2. \A j : Under(j) => Under(j)'
    BY <1>1, <1>5, <2>1 DEF Under
  <2>3. workers' \in [Slots -> Goroutines] /\ \A u \in Slots : workers'[u] = workers[u]
    BY <1>2, <2>1
  <2> QED BY <1>1, <1>3, <1>4, <2>2, <2>3, DistKeeps
<1>6. CASE Invoke(dist.payload)
  <2>1. PICK payload \in Seq(Items) : payload = dist.payload
    BY <1>2
  <2>2. Invoke(payload)
    BY <1>6, <2>1
  <2>3. PICK s \in Slots : /\ workers[s].pc = "idle" /\ workers'[s].pc = "start"
                           /\ workers'[s].args = payload
                           /\ \A t \in Slots \ {s} : workers'[t] = workers[t]
    BY <1>2, <2>2, InvokeIs
  <2>4. workers' \in [Slots -> Goroutines]
    BY <1>2, <2>2, InvokeIs
  <2>5. ASSUME NEW j, Under(j) PROVE Under(j)'
    <3>1. CASE \E k \in DOMAIN dist.payload : dist.payload[k] = j
      <4>1. \E k \in DOMAIN workers'[s].args : workers'[s].args[k] = j
        BY <2>1, <2>3, <3>1
      <4> QED BY <2>3, <4>1 DEF Under
    <3>2. CASE \E u \in Slots : /\ workers[u].pc # "idle"
                                /\ \E k \in DOMAIN workers[u].args : workers[u].args[k] = j
      <4>1. PICK u \in Slots : /\ workers[u].pc # "idle"
                               /\ \E k \in DOMAIN workers[u].args : workers[u].args[k] = j
        BY <3>2
      <4>2. workers'[u] = workers[u]
        BY <2>3, <4>1
      <4>3. workers'[u].pc # "idle" /\ \E k \in DOMAIN workers'[u].args : workers'[u].args[k] = j
        BY <4>1, <4>2
      <4> QED BY <4>3 DEF Under
    <3> QED BY <1>1, <2>5, <3>1, <3>2 DEF Under
  <2>6. \A u \in Slots : workers'[u] = workers[u] \/ workers'[u].pc = "start"
    BY <2>3
  <2> QED BY <1>1, <1>3, <1>4, <2>4, <2>5, <2>6, DistKeeps
<1> QED BY <1>5, <1>6 DEF RangeEnds

\* IterateOverMap waits for its workers and closes the channel of errors.
LEMMA KeepsWaitGroup == StreamInv /\ WaitGroup => StreamInv'
<1> SUFFICES ASSUME StreamInv, WaitGroup PROVE StreamInv'
  OBVIOUS
<1>1. /\ dist.pc = "wait" /\ dist' = [dist EXCEPT !.pc = "done"]
      /\ \A s \in Slots : workers[s].pc = "idle"
      /\ UNCHANGED <<todo, answer, how, thisMap, items, counter, workers, closed, renderer, shown, reported, crashed>>
  BY DEF WaitGroup
<1>2. /\ DOMAIN dist = {"pc", "left", "payload", "per"} /\ dist.left = {} /\ dist.payload = <<>>
      /\ workers \in [Slots -> Goroutines]
  BY <1>1 DEF StreamInv, TypeInv, WorkInv, Goroutines
<1>3. /\ DOMAIN dist' = {"pc", "left", "payload", "per"} /\ dist'.pc = "done"
      /\ dist'.left = {} /\ dist'.payload = <<>>
  BY <1>1, <1>2
<1>4. dist'.payload \in Seq(Items) /\ dist'.left \subseteq Items
  BY <1>3
<1>5. workers' \in [Slots -> Goroutines] /\ \A u \in Slots : workers'[u] = workers[u]
  BY <1>1, <1>2
<1>6. \A j : Under(j) => Under(j)'
  BY <1>1, <1>2 DEF Under
<1> QED BY <1>1, <1>3, <1>4, <1>5, <1>6, DistKeeps

-----------------------------------------------------------------------------
(* The steps of the workers *)

Holds(args, i) == \E k \in DOMAIN args : args[k] = i

\* A worker may only let go of an item that was fetched, or whose failure was
\* reported.
LEMMA WorkerKeeps ==
  ASSUME StreamInv, NEW s \in Slots, workers[s].pc # "idle",
         NEW w, workers' \in [Slots -> Goroutines], workers'[s] = w,
         \A t \in Slots \ {s} : workers'[t] = workers[t],
         UNCHANGED <<todo, answer, how, counter, dist, closed, renderer, shown>>,
         thisMap' \in [DOMAIN thisMap' -> {"blank", "fetched"}], DOMAIN thisMap' \subseteq DOMAIN thisMap,
         \A i \in DOMAIN thisMap' :
            thisMap'[i] = thisMap[i] \/ (thisMap'[i] = "fetched" /\ ~Failing(i)),
         items' \subseteq Items, reported' \in Nat, reported' >= reported,
         crashed' => Failed # {},
         w.pc \in {"append", "send", "delete"} => w.args # <<>>,
         w.pc \in {"append", "send"} /\ w.args[1] \in DOMAIN thisMap' =>
            thisMap'[w.args[1]] = "fetched" \/ (w.pc = "send" /\ answer[w.args[1]] = "notFound"),
         w.pc \in {"delete", "failed"} => Failed # {},
         \A i \in DOMAIN thisMap' :
            Next1("drain") /\ thisMap'[i] = "blank" /\ Holds(workers[s].args, i) =>
               (w.pc # "idle" /\ Holds(w.args, i)) \/ (Failed # {} /\ reported' > 0)
  PROVE  StreamInv'
<1>1. Failed' = Failed /\ \A i : Failing(i)' <=> Failing(i)
  BY DEF Failed, Failing
<1>2. /\ workers' \in [Slots -> Goroutines] /\ workers'[s] = w
      /\ \A t \in Slots \ {s} : workers'[t] = workers[t]
  OBVIOUS
<1>3. dist.pc \in {"range", "wait"}
  BY DEF StreamInv, TypeInv, WorkInv
<1>4. TypeInv'
  BY <1>2 DEF StreamInv, TypeInv, Goroutines
<1>5. WorkInv'
  <2> SUFFICES ASSUME NEW t \in Slots
        PROVE  /\ workers'[t].pc \in {"append", "send", "delete"} => workers'[t].args # <<>>
               /\ workers'[t].pc \in {"append", "send"} /\ workers'[t].args[1] \in DOMAIN thisMap' =>
                    \/ thisMap'[workers'[t].args[1]] = "fetched"
                    \/ workers'[t].pc = "send" /\ answer[workers'[t].args[1]] = "notFound"
               /\ workers'[t].pc \in {"delete", "failed"} => Failed # {}
    <3>1. dist'.pc \notin {"idle", "done"} /\ (dist'.pc # "range" => dist'.left = {} /\ dist'.payload = <<>>)
      BY <1>3 DEF StreamInv, WorkInv
    <3> QED BY <1>1, <3>1 DEF WorkInv
  <2>1. CASE t = s
    BY <1>2, <2>1
  <2>2. CASE t # s
    <3>1. workers'[t] = workers[t]
      BY <1>2, <2>2
    <3>2. /\ workers[t].pc \in {"append", "send", "delete"} => workers[t].args # <<>>
          /\ workers[t].pc \in {"append", "send"} /\ workers[t].args[1] \in DOMAIN thisMap =>
                    \/ thisMap[workers[t].args[1]] = "fetched"
                    \/ workers[t].pc = "send" /\ answer[workers[t].args[1]] = "notFound"
          /\ workers[t].pc \in {"delete", "failed"} => Failed # {}
      BY DEF StreamInv, WorkInv
    <3>3. \A i \in DOMAIN thisMap' : i \in DOMAIN thisMap /\ (thisMap[i] = "fetched" => thisMap'[i] = "fetched")
      OBVIOUS
    <3> QED BY <3>1, <3>2, <3>3
  <2> QED BY <2>1, <2>2
<1>6. ActiveInv'
  BY <1>1 DEF StreamInv, ActiveInv, Waiting, Next1
<1>7. MapInv'
  <2> SUFFICES ASSUME NEW i \in DOMAIN thisMap'
        PROVE  /\ Failing(i) => thisMap'[i] = "blank"
               /\ thisMap'[i] = "blank" =>
                    \/ Next1("drain") /\ Under(i)'
                    \/ Failed # {} /\ (reported' > 0 \/ Next1("err"))
    <3>1. Next1("drain")' = Next1("drain") /\ Next1("err")' = Next1("err")
      BY DEF Next1
    <3> QED BY <1>1, <3>1 DEF MapInv
  <2>1. i \in DOMAIN thisMap
    OBVIOUS
  <2>2. Failing(i) => thisMap'[i] = "blank"
    BY <2>1 DEF StreamInv, MapInv
  <2>3. ASSUME thisMap'[i] = "blank"
        PROVE  \/ Next1("drain") /\ Under(i)'
               \/ Failed # {} /\ (reported' > 0 \/ Next1("err"))
    <3>1. thisMap[i] = "blank"
      BY <2>3
    <3>2. \/ Next1("drain") /\ Under(i)
          \/ Failed # {} /\ (reported > 0 \/ Next1("err"))
      BY <2>1, <3>1 DEF StreamInv, MapInv
    <3>3. CASE Failed # {} /\ (reported > 0 \/ Next1("err"))
      <4>1. reported > 0 => reported' > 0
        BY DEF StreamInv, TypeInv
      <4> QED BY <3>3, <4>1
    <3>4. CASE Next1("drain") /\ Under(i)
      <4>1. CASE i \in dist.left \/ \E k \in DOMAIN dist.payload : dist.payload[k] = i
        BY <3>4, <4>1 DEF Under
      <4>2. CASE Holds(workers[s].args, i)
        <5>1. (w.pc # "idle" /\ Holds(w.args, i)) \/ (Failed # {} /\ reported' > 0)
          BY <2>3, <3>4, <4>2
        <5>2. w.pc # "idle" /\ Holds(w.args, i) => Under(i)'
          BY <1>2 DEF Under, Holds
        <5> QED BY <3>4, <5>1, <5>2
      <4>3. ASSUME NEW t \in Slots \ {s}, workers[t].pc # "idle", Holds(workers[t].args, i)
            PROVE  Under(i)'
        BY <1>2, <4>3 DEF Under, Holds
      <4> QED BY <3>4, <4>1, <4>2, <4>3 DEF Under, Holds
    <3> QED BY <3>2, <3>3, <3>4
  <2> QED BY <2>2, <2>3
<1>8. SaidInv'
  <2>1. reported' = 0 => reported = 0
    BY DEF StreamInv, TypeInv
  <2> QED BY <1>1, <2>1 DEF StreamInv, SaidInv
<1> QED BY <1>4, <1>5, <1>6, <1>7, <1>8 DEF StreamInv
\* What is left of a payload when its first item is done with.
LEMMA RestIs ==
  ASSUME NEW q \in Seq(Items), q # <<>>
  PROVE  /\ Head(q) = q[1] /\ q[1] \in Items /\ Holds(q, q[1])
         /\ Tail(q) \in Seq(Items)
         /\ \A i : Holds(q, i) => i = q[1] \/ Holds(Tail(q), i)
<1>1. Head(q) = q[1] /\ q[1] \in Items /\ 1 \in DOMAIN q
  OBVIOUS
<1>2. PICK r : r = Tail(q)
  OBVIOUS
<1>3. r \in Seq(Items) /\ Len(r) = Len(q) - 1 /\ \A k \in 1 .. Len(q) - 1 : r[k] = q[k + 1]
  BY <1>2
<1>4. ASSUME NEW i, Holds(q, i) PROVE i = q[1] \/ Holds(r, i)
  <2>1. PICK k \in DOMAIN q : q[k] = i
    BY <1>4 DEF Holds
  <2>2. CASE k # 1
    <3>1. PICK m \in 1 .. Len(q) - 1 : k = m + 1
      <4>1. k \in 1 .. Len(q) /\ Len(q) \in Nat
        OBVIOUS
      <4>2. k - 1 \in 1 .. Len(q) - 1 /\ k = (k - 1) + 1
        BY <2>2, <4>1
      <4> QED BY <4>2
    <3>2. m \in DOMAIN r /\ r[m] = i
      BY <1>3, <2>1, <3>1
    <3> QED BY <3>2 DEF Holds
  <2> QED BY <2>1, <2>2
<1> QED BY <1>1, <1>2, <1>3, <1>4 DEF Holds

\* What every worker of the pool may rely on.
LEMMA WorkerIs ==
  ASSUME StreamInv, NEW s \in Slots
  PROVE  /\ workers \in [Slots -> Goroutines] /\ workers[s] \in Goroutines
         /\ workers[s].args \in Seq(Items) /\ workers[s].snap \subseteq Items
         /\ DOMAIN workers[s] = {"pc", "args", "snap"}
         /\ thisMap \in [DOMAIN thisMap -> {"blank", "fetched"}] /\ DOMAIN thisMap \subseteq Items
         /\ items \subseteq Items /\ reported \in Nat
         /\ crashed => Failed # {}
BY DEF StreamInv, TypeInv, SaidInv, Goroutines

\* A worker that becomes idle, or goes on with the rest of its payload.
LEMMA FreshWorker ==
  /\ Idle \in Goroutines /\ Idle.pc = "idle"
  /\ \A q \in Seq(Items) : \E w \in Goroutines :
       w = [Idle EXCEPT !.pc = "step", !.args = q] /\ w.pc = "step" /\ w.args = q
<1>1. Idle \in Goroutines /\ Idle.pc = "idle" /\ DOMAIN Idle = {"pc", "args", "snap"}
  BY DEF Idle, Goroutines
<1>2. ASSUME NEW q \in Seq(Items)
      PROVE  \E w \in Goroutines :
               w = [Idle EXCEPT !.pc = "step", !.args = q] /\ w.pc = "step" /\ w.args = q
  <2>1. PICK w : w = [Idle EXCEPT !.pc = "step", !.args = q]
    OBVIOUS
  <2>2. w \in Goroutines
    BY <1>1, <2>1 DEF Goroutines
  <2>3. w.pc = "step" /\ w.args = q
    BY <1>1, <2>1
  <2> QED BY <2>1, <2>2, <2>3
<1> QED BY <1>1, <1>2

\* A worker starts on its payload, or drops it.
LEMMA KeepsBegin == ASSUME StreamInv, NEW s \in Slots, Begin(s) PROVE StreamInv'
<1>1. /\ workers[s].pc = "start"
      /\ UNCHANGED <<todo, answer, how, counter, dist, closed, thisMap, items, renderer, shown, reported, crashed>>
  BY DEF Begin, WorkerOnly
<1>2. /\ thisMap' \in [DOMAIN thisMap' -> {"blank", "fetched"}] /\ DOMAIN thisMap' \subseteq DOMAIN thisMap
      /\ items' \subseteq Items /\ reported' \in Nat /\ reported' >= reported
      /\ crashed' => Failed # {}
  BY <1>1, WorkerIs
<1>3. CASE closed > 0 /\ workers' = [workers EXCEPT ![s] = Idle]
  <2>1. workers' \in [Slots -> Goroutines] /\ workers'[s].pc = "idle"
        /\ \A t \in Slots \ {s} : workers'[t] = workers[t]
    BY <1>3, WorkerIs, FreshWorker
  <2>2. ~Next1("drain")
    BY <1>3 DEF StreamInv, SaidInv, Next1
  <2> QED BY <1>1, <1>2, <2>1, <2>2, WorkerKeeps
<1>4. CASE workers' = [workers EXCEPT ![s].pc = "step"]
  <2>1. workers' \in [Slots -> Goroutines]
    BY <1>4, WorkerIs DEF Goroutines
  <2>2. /\ workers'[s].pc = "step" /\ workers'[s].args = workers[s].args
        /\ \A t \in Slots \ {s} : workers'[t] = workers[t]
    BY <1>4, WorkerIs
  <2> QED BY <1>1, <1>2, <2>1, <2>2, WorkerKeeps
<1> QED BY <1>3, <1>4 DEF Begin

\* A worker keeps what the node answered.
LEMMA KeepsAppendItem == ASSUME StreamInv, NEW s \in Slots, AppendItem(s) PROVE StreamInv'
<1>1. /\ workers[s].pc = "append"
      /\ UNCHANGED <<todo, answer, how, counter, dist, closed, thisMap, renderer, shown, reported, crashed>>
  BY DEF AppendItem, WorkerOnly
<1>2. PICK w : /\ workers' \in [Slots -> Goroutines] /\ workers'[s] = w /\ w.pc = "step"
               /\ \A t \in Slots \ {s} : workers'[t] = workers[t]
               /\ \A i \in DOMAIN thisMap' :
                     thisMap'[i] = "blank" /\ Holds(workers[s].args, i) => Holds(w.args, i)
  <2>1. PICK q \in Seq(Items) : q = workers[s].args /\ q # <<>>
    BY <1>1, WorkerIs DEF StreamInv, WorkInv
  <2>2. PICK w \in Goroutines : /\ w = [Idle EXCEPT !.pc = "step", !.args = Tail(q)]
                                /\ w.pc = "step" /\ w.args = Tail(q)
    BY <2>1, RestIs, FreshWorker
  <2>3. workers' = [workers EXCEPT ![s] = w]
    BY <2>1, <2>2 DEF AppendItem
  <2>4. /\ workers' \in [Slots -> Goroutines] /\ workers'[s] = w
        /\ \A t \in Slots \ {s} : workers'[t] = workers[t]
    BY <2>3, WorkerIs
  <2>5. ASSUME NEW i \in DOMAIN thisMap', thisMap'[i] = "blank", Holds(workers[s].args, i)
        PROVE  Holds(w.args, i)
    <3>1. q[1] \in DOMAIN thisMap => thisMap[q[1]] = "fetched"
      BY <1>1, <2>1 DEF StreamInv, WorkInv
    <3>2. i # q[1]
      BY <1>1, <2>5, <3>1
    <3> QED BY <2>1, <2>2, <2>5, <3>2, RestIs
  <2> QED BY <2>2, <2>4, <2>5
<1>3. items' \subseteq Items
  <2>1. items' = workers[s].snap \cup {Head(workers[s].args)}
    BY DEF AppendItem
  <2>2. Head(workers[s].args) \in Items
    <3>1. workers[s].args \in Seq(Items) /\ workers[s].args # <<>>
      BY <1>1, WorkerIs DEF StreamInv, WorkInv
    <3> QED BY <3>1, RestIs
  <2> QED BY <2>1, <2>2, WorkerIs
<1>4. /\ thisMap' \in [DOMAIN thisMap' -> {"blank", "fetched"}] /\ DOMAIN thisMap' \subseteq DOMAIN thisMap
      /\ reported' \in Nat /\ reported' >= reported
      /\ crashed' => Failed # {}
  BY <1>1, WorkerIs
<1> QED BY <1>1, <1>2, <1>3, <1>4, WorkerKeeps

\* A worker deletes its key from the map.
LEMMA KeepsDelete == ASSUME StreamInv, NEW s \in Slots, Delete(s) PROVE StreamInv'
<1>1. /\ workers[s].pc = "delete" /\ workers' = [workers EXCEPT ![s].pc = "failed"]
      /\ UNCHANGED <<todo, answer, how, counter, dist, closed, items, renderer, shown, reported>>
  BY DEF Delete, WorkerOnly
<1>2. Failed # {}
  BY <1>1 DEF StreamInv, WorkInv
<1>3. PICK gone : thisMap' = [i \in DOMAIN thisMap \ {gone} |-> thisMap[i]]
  BY DEF Delete
<1>4. /\ DOMAIN thisMap' = DOMAIN thisMap \ {gone}
      /\ \A i \in DOMAIN thisMap' : thisMap'[i] = thisMap[i]
      /\ thisMap' \in [DOMAIN thisMap' -> {"blank", "fetched"}]
  BY <1>3, WorkerIs
<1>5. workers' \in [Slots -> Goroutines]
  BY <1>1, WorkerIs DEF Goroutines
<1>6. /\ workers'[s].pc = "failed" /\ workers'[s].args = workers[s].args
      /\ \A t \in Slots \ {s} : workers'[t] = workers[t]
  BY <1>1, WorkerIs
<1>7. items' \subseteq Items /\ reported' \in Nat /\ reported' >= reported
  BY <1>1, WorkerIs
<1>8. PICK w : /\ w = workers'[s] /\ w.pc = "failed"
               /\ \A i : Holds(workers[s].args, i) => Holds(w.args, i)
  BY <1>6
<1>9. /\ workers[s].pc # "idle" /\ DOMAIN thisMap' \subseteq DOMAIN thisMap
      /\ crashed' => Failed # {}
      /\ w.pc \notin {"append", "send", "delete", "idle"}
  BY <1>1, <1>2, <1>4, <1>8
<1> QED BY <1>1, <1>2, <1>4, <1>5, <1>6, <1>7, <1>8, <1>9, WorkerKeeps

\* A worker sends an error to the outer channel by itself.
LEMMA KeepsSendDirect == ASSUME StreamInv, NEW s \in Slots, SendDirect(s) PROVE StreamInv'
<1>1. /\ workers[s].pc = "send"
      /\ UNCHANGED <<todo, answer, how, counter, dist, closed, thisMap, items>>
  BY DEF SendDirect, WorkerOnly
<1>2. /\ thisMap' \in [DOMAIN thisMap' -> {"blank", "fetched"}] /\ DOMAIN thisMap' \subseteq DOMAIN thisMap
      /\ items' \subseteq Items
  BY <1>1, WorkerIs
<1>3. CASE closed = 2 /\ crashed' = TRUE /\ UNCHANGED <<workers, renderer, shown, reported>>
  <2>1. Failed # {}
    <3>1. ~Next1("drain")
      BY <1>3 DEF StreamInv, SaidInv, Next1
    <3>2. dist.pc \in {"range", "wait"}
      BY <1>1 DEF StreamInv, WorkInv, TypeInv
    <3> QED BY <3>1, <3>2 DEF StreamInv, ActiveInv
  <2>2. PICK w : w = workers[s]
    OBVIOUS
  <2>3. /\ workers' \in [Slots -> Goroutines] /\ workers'[s] = w
        /\ \A t \in Slots \ {s} : workers'[t] = workers[t]
    BY <1>3, <2>2, WorkerIs
  <2>4. reported' \in Nat /\ reported' >= reported
    BY <1>3, WorkerIs
  <2>5. /\ w.args # <<>> /\ w.pc = "send"
        /\ w.args[1] \in DOMAIN thisMap' =>
             thisMap'[w.args[1]] = "fetched" \/ answer[w.args[1]] = "notFound"
        /\ \A i : Holds(workers[s].args, i) => Holds(w.args, i)
    BY <1>1, <2>2 DEF StreamInv, WorkInv
  <2> QED BY <1>1, <1>2, <1>3, <2>1, <2>3, <2>4, <2>5, WorkerKeeps
<1>4. CASE /\ ReceiveError /\ UNCHANGED crashed
           /\ workers' = [workers EXCEPT ![s] = [Idle EXCEPT !.pc = "step", !.args = Tail(workers[s].args)]]
  <2>1. reported' = reported + 1 /\ UNCHANGED <<renderer, shown>>
    BY <1>4 DEF ReceiveError
  <2>2. PICK w : /\ workers' \in [Slots -> Goroutines] /\ workers'[s] = w /\ w.pc = "step"
                 /\ \A t \in Slots \ {s} : workers'[t] = workers[t]
                 /\ \A i \in DOMAIN thisMap' :
                       thisMap'[i] = "blank" /\ Holds(workers[s].args, i) => Holds(w.args, i) \/ Failed # {}
    <3>1. PICK q \in Seq(Items) : q = workers[s].args /\ q # <<>>
      BY <1>1, WorkerIs DEF StreamInv, WorkInv
    <3>2. PICK w \in Goroutines : /\ w = [Idle EXCEPT !.pc = "step", !.args = Tail(q)]
                                  /\ w.pc = "step" /\ w.args = Tail(q)
      BY <3>1, RestIs, FreshWorker
    <3>3. workers' = [workers EXCEPT ![s] = w]
      BY <1>4, <3>1, <3>2
    <3>4. /\ workers' \in [Slots -> Goroutines] /\ workers'[s] = w
          /\ \A t \in Slots \ {s} : workers'[t] = workers[t]
      BY <3>3, WorkerIs
    <3>5. ASSUME NEW i \in DOMAIN thisMap', thisMap'[i] = "blank", Holds(workers[s].args, i)
          PROVE  Holds(w.args, i) \/ Failed # {}
      <4>1. q[1] \in DOMAIN thisMap => thisMap[q[1]] = "fetched" \/ answer[q[1]] = "notFound"
        BY <1>1, <3>1 DEF StreamInv, WorkInv
      <4>2. CASE i = q[1]
        <5>1. answer[i] = "notFound" /\ i \in Items
          BY <1>1, <3>5, <4>1, <4>2, WorkerIs
        <5> QED BY <5>1 DEF Failed
      <4>3. CASE i # q[1]
        BY <3>1, <3>2, <3>5, <4>3, RestIs
      <4> QED BY <4>2, <4>3
    <3> QED BY <3>2, <3>4, <3>5
  <2>3. reported' \in Nat /\ reported' >= reported /\ reported' > 0
    BY <2>1, WorkerIs
  <2>4. crashed' => Failed # {}
    BY <1>4, WorkerIs
  <2> QED BY <1>1, <1>2, <2>1, <2>2, <2>3, <2>4, WorkerKeeps
<1> QED BY <1>3, <1>4 DEF SendDirect

\* Every step of a worker keeps the invariant.
LEMMA KeepsStep == ASSUME StreamInv, NEW s \in Slots, Step(s) PROVE StreamInv'
<1>1. /\ workers[s].pc = "step"
      /\ UNCHANGED <<todo, answer, how, counter, dist, closed, items, renderer, shown, reported, crashed>>
  BY DEF Step, WorkerOnly
<1>2. /\ items' \subseteq Items /\ reported' \in Nat /\ reported' >= reported
      /\ workers[s].pc # "idle"
  BY <1>1, WorkerIs
<1>3. crashed' => Failed # {}
  BY <1>1, WorkerIs
<1>4. PICK q \in Seq(Items) : q = workers[s].args
  BY WorkerIs
<1>5. CASE q = <<>> /\ workers' = [workers EXCEPT ![s] = Idle] /\ UNCHANGED thisMap
  <2>1. /\ workers' \in [Slots -> Goroutines] /\ workers'[s].pc = "idle"
        /\ \A t \in Slots \ {s} : workers'[t] = workers[t]
    BY <1>5, WorkerIs, FreshWorker
  <2>2. /\ thisMap' \in [DOMAIN thisMap' -> {"blank", "fetched"}] /\ DOMAIN thisMap' \subseteq DOMAIN thisMap
        /\ \A i \in DOMAIN thisMap' : thisMap'[i] = thisMap[i]
    BY <1>5, WorkerIs
  <2>3. \A i : ~Holds(workers[s].args, i)
    BY <1>4, <1>5 DEF Holds
  <2> QED BY <1>1, <1>2, <1>3, <2>1, <2>2, <2>3, WorkerKeeps
<1>6. CASE q # <<>> /\ Failing(Head(q)) /\ UNCHANGED thisMap
           /\ workers' = [workers EXCEPT ![s].pc = IF how.failed = "keep" THEN "failed" ELSE "delete"]
  <2>1. Failed # {}
    BY <1>6, RestIs DEF Failed
  <2>2. PICK pc \in {"failed", "delete"} : pc = IF how.failed = "keep" THEN "failed" ELSE "delete"
    OBVIOUS
  <2>3. workers' = [workers EXCEPT ![s].pc = pc]
    BY <1>6, <2>2
  <2>4. workers' \in [Slots -> Goroutines]
    BY <2>3, WorkerIs DEF Goroutines
  <2>5. /\ workers'[s].pc = pc /\ workers'[s].args = q
        /\ \A t \in Slots \ {s} : workers'[t] = workers[t]
    BY <1>4, <2>3, WorkerIs
  <2>6. PICK w : /\ w = workers'[s] /\ w.pc \in {"failed", "delete"} /\ w.args # <<>>
                 /\ \A i : Holds(workers[s].args, i) => Holds(w.args, i)
    BY <1>4, <1>6, <2>2, <2>5
  <2>7. /\ thisMap' \in [DOMAIN thisMap' -> {"blank", "fetched"}] /\ DOMAIN thisMap' \subseteq DOMAIN thisMap
        /\ \A i \in DOMAIN thisMap' : thisMap'[i] = thisMap[i]
    BY <1>6, WorkerIs
  <2> QED BY <1>1, <1>2, <1>3, <2>1, <2>4, <2>5, <2>6, <2>7, WorkerKeeps
<1>7. CASE /\ q # <<>> /\ ~Failing(Head(q))
           /\ thisMap' = IF answer[Head(q)] = "notFound" THEN thisMap ELSE [thisMap EXCEPT ![Head(q)] = "fetched"]
           /\ workers' = IF how.collect = "append" /\ answer[Head(q)] # "empty"
                         THEN [workers EXCEPT ![s].pc = "append", ![s].snap = items]
                         ELSE IF Reports(Head(q)) THEN [workers EXCEPT ![s].pc = "send"]
                         ELSE [workers EXCEPT ![s].args = Tail(@)]
  <2>1. PICK i \in Items : i = Head(q) /\ i = q[1]
    BY <1>7, RestIs
  <2>2. /\ DOMAIN thisMap' = DOMAIN thisMap
        /\ thisMap' \in [DOMAIN thisMap' -> {"blank", "fetched"}]
        /\ \A j \in DOMAIN thisMap' : thisMap'[j] = thisMap[j] \/ (thisMap'[j] = "fetched" /\ ~Failing(j))
        /\ i \in DOMAIN thisMap' /\ answer[i] # "notFound" => thisMap'[i] = "fetched"
    <3>1. CASE answer[i] = "notFound"
      <4>1. thisMap' = thisMap
        BY <1>7, <2>1, <3>1
      <4> QED BY <3>1, <4>1, WorkerIs
    <3>2. CASE answer[i] # "notFound"
      <4>1. thisMap' = [thisMap EXCEPT ![i] = "fetched"]
        BY <1>7, <2>1, <3>2
      <4>2. /\ DOMAIN thisMap' = DOMAIN thisMap
            /\ \A j \in DOMAIN thisMap : thisMap'[j] = IF j = i THEN "fetched" ELSE thisMap[j]
            /\ thisMap' \in [DOMAIN thisMap' -> {"blank", "fetched"}]
        BY <4>1, WorkerIs
      <4> QED BY <1>7, <2>1, <4>2
    <3> QED BY <3>1, <3>2
  <2>3. DOMAIN thisMap' \subseteq DOMAIN thisMap
    BY <2>2
  <2>4. CASE /\ how.collect = "append"
             /\ workers' = [workers EXCEPT ![s].pc = "append", ![s].snap = items]
    <3>1. answer[i] # "notFound"
      BY <1>7, <2>1, <2>4 DEF Failing, StreamInv, TypeInv
    <3>2. workers' \in [Slots -> Goroutines]
      BY <2>4, WorkerIs DEF Goroutines
    <3>3. /\ workers'[s].pc = "append" /\ workers'[s].args = q
          /\ \A t \in Slots \ {s} : workers'[t] = workers[t]
      BY <1>4, <2>4, WorkerIs
    <3>4. PICK w : /\ w = workers'[s] /\ w.pc = "append" /\ w.args # <<>> /\ w.args[1] = i
                   /\ \A j : Holds(workers[s].args, j) => Holds(w.args, j)
      BY <1>4, <1>7, <2>1, <3>3
    <3> QED BY <1>1, <1>2, <1>3, <2>2, <2>3, <3>1, <3>2, <3>3, <3>4, WorkerKeeps
  <2>5. CASE workers' = [workers EXCEPT ![s].pc = "send"]
    <3>1. workers' \in [Slots -> Goroutines]
      BY <2>5, WorkerIs DEF Goroutines
    <3>2. /\ workers'[s].pc = "send" /\ workers'[s].args = q
          /\ \A t \in Slots \ {s} : workers'[t] = workers[t]
      BY <1>4, <2>5, WorkerIs
    <3>3. PICK w : /\ w = workers'[s] /\ w.pc = "send" /\ w.args # <<>> /\ w.args[1] = i
                   /\ \A j : Holds(workers[s].args, j) => Holds(w.args, j)
      BY <1>4, <1>7, <2>1, <3>2
    <3> QED BY <1>1, <1>2, <1>3, <2>2, <2>3, <3>1, <3>2, <3>3, WorkerKeeps
  <2>6. CASE ~Reports(i) /\ workers' = [workers EXCEPT ![s].args = Tail(@)]
    <3>1. answer[i] # "notFound"
      BY <2>6 DEF Reports
    <3>2. PICK r \in Seq(Items) : r = Tail(q) /\ \A j : Holds(q, j) => j = i \/ Holds(r, j)
      BY <1>7, <2>1, RestIs
    <3>3. workers' = [workers EXCEPT ![s].args = r]
      BY <1>4, <2>6, <3>2
    <3>4. workers' \in [Slots -> Goroutines]
      BY <3>3, WorkerIs DEF Goroutines
    <3>5. /\ workers'[s].pc = "step" /\ workers'[s].args = r
          /\ \A t \in Slots \ {s} : workers'[t] = workers[t]
      BY <1>1, <3>3, WorkerIs
    <3>6. PICK w : /\ w = workers'[s] /\ w.pc = "step"
                   /\ \A j : Holds(workers[s].args, j) => j = i \/ Holds(w.args, j)
      BY <1>4, <3>2, <3>5
    <3> QED BY <1>1, <1>2, <1>3, <2>2, <2>3, <3>1, <3>4, <3>5, <3>6, WorkerKeeps
  <2> QED BY <1>7, <2>1, <2>4, <2>5, <2>6
<1> QED BY <1>4, <1>5, <1>6, <1>7, Zenon DEF Step
-----------------------------------------------------------------------------
(* The theorems *)

\* Every step keeps the invariant.
LEMMA NextStream == StreamInv /\ [Next]_vars => StreamInv'
<1> SUFFICES ASSUME StreamInv, [Next]_vars PROVE StreamInv'
  OBVIOUS
<1>1. CASE Fetcher
  BY <1>1, KeepsSendError, KeepsSendItem, KeepsLocal, KeepsLoop, KeepsIterate, KeepsDrain,
     KeepsCollect, KeepsWalk, KeepsEnds DEF Fetcher
<1>2. CASE Renderer
  BY <1>2, KeepsEnds DEF Renderer
<1>3. CASE Distributor
  BY <1>3, KeepsRangeOverMap, KeepsRangeEnds, KeepsWaitGroup DEF Distributor
<1>4. ASSUME NEW s \in Slots, Worker(s) PROVE StreamInv'
  BY <1>4, KeepsBegin, KeepsStep, KeepsAppendItem, KeepsDelete, KeepsSendDirect DEF Worker
<1>5. CASE UNCHANGED vars
  <2>1. UNCHANGED <<todo, answer, how, thisMap, items, counter, dist, workers, closed, renderer,
                    shown, reported, crashed>>
    BY <1>5 DEF vars
  <2>2. Failed' = Failed /\ (\A i : Failing(i)' <=> Failing(i)) /\ \A i : Under(i)' <=> Under(i)
    BY <2>1 DEF Failed, Failing, Under
  <2>3. TypeInv'
    BY <2>1 DEF StreamInv, TypeInv
  <2>4. WorkInv'
    BY <2>1, <2>2 DEF StreamInv, WorkInv
  <2>5. ActiveInv'
    BY <2>1, <2>2 DEF StreamInv, ActiveInv, Waiting, Next1
  <2>6. MapInv'
    BY <2>1, <2>2 DEF StreamInv, MapInv, Next1
  <2>7. SaidInv'
    BY <2>1, <2>2 DEF StreamInv, SaidInv
  <2> QED BY <2>3, <2>4, <2>5, <2>6, <2>7 DEF StreamInv
<1> QED BY <1>1, <1>2, <1>3, <1>4, <1>5 DEF Next

\* The invariant holds throughout.
LEMMA AlwaysStream == Spec => []StreamInv
BY InitStream, NextStream, PTL DEF Spec

\* With healthy answers the process never goes down: the channels are closed
\* after fetchData has returned (stream.go), the map is written while it is
\* ranged over only by the code that deletes what failed, and a receipt that
\* nobody fetched is dereferenced only in a map that had a failure.
THEOREM HealthyStays == Spec => []HealthyNeverCrashes
<1>1. StreamInv => HealthyNeverCrashes
  BY DEF StreamInv, SaidInv, HealthyNeverCrashes
<1> QED BY <1>1, AlwaysStream, PTL

\* A record that was never fetched is shown only after an error was received:
\* the errors of a map are drained before its values are sent, and an arm that
\* sends a blank record sends its error first.
THEOREM BlanksExplained == Spec => []BlankIsExplained
<1>1. StreamInv => BlankIsExplained
  BY DEF StreamInv, SaidInv, TypeInv, BlankIsExplained
<1> QED BY <1>1, AlwaysStream, PTL

\* No failure is silent: at the end of the data a map that still has an item
\* that failed was drained, and its error was received (iteration.go and the
\* drains of the handlers).
THEOREM FailuresReported == Spec => []FailuresAreReported
<1>1. StreamInv => FailuresAreReported
  <2> SUFFICES ASSUME StreamInv, renderer = "done", reported = 0, NEW i \in DOMAIN thisMap, Failing(i)
        PROVE  FALSE
    BY DEF FailuresAreReported
  <2>1. todo = <<>>
    BY DEF StreamInv, SaidInv
  <2>2. ~Next1("drain") /\ ~Next1("err")
    BY <2>1 DEF Next1
  <2>3. thisMap[i] = "blank"
    BY DEF StreamInv, MapInv
  <2> QED BY <2>2, <2>3 DEF StreamInv, MapInv
<1> QED BY <1>1, AlwaysStream, PTL

-----------------------------------------------------------------------------
(***************************************************************************)
(* Nothing is lost.  What the fetcher has still to do is read as records   *)
(* that it will send (Spells) and, behind them, maps that it will iterate  *)
(* over (Plan): together with what is shown they give all that was to be   *)
(* shown.  It is between two maps (Sending), before one (Starting), within *)
(* one (Fetching), or need not show everything (Excused).                  *)
(***************************************************************************)
\* The sequence of the members of a set of numbers in their order.
IsOrder(s, S) ==
    /\ s \in Seq(S)
    /\ \A i \in S : \E k \in DOMAIN s : s[k] = i
    /\ \A j, k \in DOMAIN s : j < k => s[j] < s[k]

\* There is only one.
LEMMA OrderUnique ==
  ASSUME NEW S \in SUBSET Nat, NEW s, NEW t, IsOrder(s, S), IsOrder(t, S)
  PROVE  s = t
<1>1. ASSUME NEW u, NEW v, IsOrder(u, S), IsOrder(v, S),
             NEW k \in DOMAIN u, k \in DOMAIN v, \A j \in 1 .. k - 1 : u[j] = v[j]
      PROVE  ~ (u[k] < v[k])
  <2> SUFFICES ASSUME u[k] < v[k] PROVE FALSE
    OBVIOUS
  <2>1. u \in Seq(S) /\ v \in Seq(S)
    BY <1>1 DEF IsOrder
  <2>2. PICK m \in DOMAIN v : v[m] = u[k]
    <3>1. u[k] \in S
      BY <1>1, <2>1
    <3> QED BY <1>1, <3>1 DEF IsOrder
  <2>3. m \in Nat /\ k \in Nat /\ m # k /\ m >= 1 /\ u[k] \in Nat /\ v[k] \in Nat
    <3>1. m \in Nat /\ k \in Nat /\ m >= 1 /\ u[k] \in S /\ v[k] \in S
      BY <1>1, <2>1, <2>2
    <3>2. u[k] \in Nat /\ v[k] \in Nat
      BY <3>1
    <3>3. m # k
      BY <2>2, <3>2
    <3> QED BY <3>1, <3>2, <3>3
  <2>4. CASE m < k
    <3>1. u[m] = v[m] /\ m \in DOMAIN u
      BY <1>1, <2>1, <2>3, <2>4
    <3>2. u[m] < u[k]
      BY <1>1, <2>4, <3>1 DEF IsOrder
    <3> QED BY <2>2, <2>3, <3>1, <3>2
  <2>5. CASE k < m
    <3>1. v[k] < v[m]
      BY <1>1, <2>2, <2>5 DEF IsOrder
    <3> QED BY <2>2, <2>3, <3>1
  <2> QED BY <2>3, <2>4, <2>5
<1>2. s \in Seq(S) /\ t \in Seq(S)
  BY DEF IsOrder
<1>3. ASSUME NEW k \in DOMAIN s, k \in DOMAIN t PROVE s[k] = t[k]
  <2> DEFINE Bad == {j \in DOMAIN s : j \in DOMAIN t /\ s[j] # t[j]}
  <2> SUFFICES ASSUME Bad # {} PROVE FALSE
    BY <1>3
  <2>1. Bad \in SUBSET Nat
    BY <1>2
  <2>2. PICK m \in Bad : \A j \in Bad : m <= j
    <3> HIDE DEF Bad
    <3> QED BY <2>1, LeastOf
  <2>3. \A j \in 1 .. m - 1 : s[j] = t[j]
    <3> SUFFICES ASSUME NEW j \in 1 .. m - 1 PROVE s[j] = t[j]
      OBVIOUS
    <3>1. m \in Nat /\ m \in DOMAIN s /\ m \in DOMAIN t
      BY <1>2
    <3>2. j \in DOMAIN s /\ j \in DOMAIN t /\ ~ (m <= j)
      BY <1>2, <3>1
    <3> QED BY <2>2, <3>2
  <2>4. ~ (s[m] < t[m]) /\ ~ (t[m] < s[m])
    <3>1. ~ (s[m] < t[m])
      BY <1>1, <2>3
    <3>2. ~ (t[m] < s[m])
      BY <1>1, <2>3
    <3> QED BY <3>1, <3>2
  <2>5. s[m] \in Nat /\ t[m] \in Nat /\ s[m] # t[m]
    <3>1. s[m] \in S /\ t[m] \in S
      BY <1>2
    <3> QED BY <3>1
  <2> HIDE DEF Bad
  <2> QED BY <2>4, <2>5
<1>4. ASSUME NEW u, NEW v, IsOrder(u, S), IsOrder(v, S), \A k \in DOMAIN u : k \in DOMAIN v => u[k] = v[k]
      PROVE  Len(u) <= Len(v)
  <2> SUFFICES ASSUME ~ (Len(u) <= Len(v)) PROVE FALSE
    OBVIOUS
  <2>1. u \in Seq(S) /\ v \in Seq(S)
    BY <1>4 DEF IsOrder
  <2>2. PICK k \in DOMAIN u : k = Len(v) + 1
    BY <2>1
  <2>3. PICK m \in DOMAIN v : v[m] = u[k]
    <3>1. u[k] \in S
      BY <2>1
    <3> QED BY <1>4, <3>1 DEF IsOrder
  <2>4. m \in DOMAIN u /\ m < k
    BY <2>1, <2>2
  <2>5. u[m] < u[k] /\ u[m] = v[m]
    BY <1>4, <2>4 DEF IsOrder
  <2>6. u[k] \in Nat
    <3>1. u[k] \in S
      BY <2>1
    <3> QED BY <3>1
  <2> QED BY <2>3, <2>5, <2>6
<1>5. Len(s) <= Len(t) /\ Len(t) <= Len(s)
  <2>1. Len(s) <= Len(t)
    BY <1>3, <1>4
  <2>2. Len(t) <= Len(s)
    BY <1>3, <1>4
  <2> QED BY <2>1, <2>2
<1>6. Len(s) = Len(t)
  BY <1>2, <1>5
<1> QED BY <1>2, <1>3, <1>6

\* The order of what comes first and of what comes later.
LEMMA OrderConcat ==
  ASSUME NEW S \in SUBSET Nat, NEW T \in SUBSET Nat, NEW s, NEW t, IsOrder(s, S), IsOrder(t, T),
         \A x \in S, y \in T : x < y
  PROVE  IsOrder(s \o t, S \cup T)
<1>1. s \in Seq(S) /\ t \in Seq(T) /\ s \in Seq(S \cup T) /\ t \in Seq(S \cup T)
  <2>1. s \in Seq(S) /\ t \in Seq(T)
    BY DEF IsOrder
  <2>2. S \subseteq S \cup T /\ T \subseteq S \cup T
    OBVIOUS
  <2> QED BY <2>1, <2>2
<1>2. PICK c \in Seq(S \cup T) : c = s \o t
  <2>1. PICK U : U = S \cup T
    OBVIOUS
  <2>2. s \in Seq(U) /\ t \in Seq(U)
    BY <1>1, <2>1
  <2>3. s \o t \in Seq(U)
    BY <2>2
  <2> QED BY <2>1, <2>3
<1>3. /\ \A k \in DOMAIN s : k \in DOMAIN c /\ c[k] = s[k] /\ s[k] \in S
      /\ \A k \in DOMAIN t : Len(s) + k \in DOMAIN c /\ c[Len(s) + k] = t[k] /\ t[k] \in T
      /\ \A k \in DOMAIN c : k \in DOMAIN s \/ (k > Len(s) /\ k - Len(s) \in DOMAIN t /\ c[k] = t[k - Len(s)])
      /\ DOMAIN c \subseteq Nat /\ DOMAIN s = 1 .. Len(s) /\ DOMAIN t \subseteq Nat /\ Len(s) \in Nat
  BY <1>1, <1>2
<1>4. ASSUME NEW i \in S \cup T PROVE \E k \in DOMAIN c : c[k] = i
  <2>1. CASE i \in S
    <3>1. PICK k \in DOMAIN s : s[k] = i
      BY <2>1 DEF IsOrder
    <3> QED BY <1>3, <3>1
  <2>2. CASE i \in T
    <3>1. PICK k \in DOMAIN t : t[k] = i
      BY <2>2 DEF IsOrder
    <3> QED BY <1>3, <3>1
  <2> QED BY <2>1, <2>2
<1>5. ASSUME NEW j \in DOMAIN c, NEW k \in DOMAIN c, j < k PROVE c[j] < c[k]
  <2>1. CASE k \in DOMAIN s
    <3>1. j \in DOMAIN s
      BY <1>3, <1>5, <2>1
    <3>2. s[j] < s[k]
      BY <1>5, <2>1, <3>1 DEF IsOrder
    <3> QED BY <1>3, <2>1, <3>1, <3>2
  <2>2. CASE k \notin DOMAIN s /\ j \in DOMAIN s
    <3>1. c[j] \in S /\ c[k] \in T
      BY <1>3, <2>2
    <3> QED BY <3>1
  <2>3. CASE k \notin DOMAIN s /\ j \notin DOMAIN s
    <3>1. PICK a, b \in DOMAIN t : a = j - Len(s) /\ b = k - Len(s) /\ c[j] = t[a] /\ c[k] = t[b]
      BY <1>3, <2>3
    <3>2. a < b
      BY <1>3, <1>5, <3>1
    <3>3. t[a] < t[b]
      BY <3>2 DEF IsOrder
    <3> QED BY <3>1, <3>3
  <2> QED BY <2>1, <2>2, <2>3
<1> QED BY <1>2, <1>4, <1>5 DEF IsOrder

\* Nothing, and one number, in order.
LEMMA OrderEmpty == IsOrder(<<>>, {})
BY DEF IsOrder

LEMMA OrderOne == ASSUME NEW i \in Nat PROVE IsOrder(<< i >>, {i})
<1>1. << i >> \in Seq({i}) /\ DOMAIN << i >> = {1} /\ << i >>[1] = i
  OBVIOUS
<1> QED BY <1>1 DEF IsOrder

\* InOrder gives it.
LEMMA InOrderOrder ==
  ASSUME NEW K \in SUBSET Items
  PROVE  IsOrder(InOrder(K), K)
<1> DEFINE seqs == [i \in 1 .. NItems |-> IF i \in K THEN <<i>> ELSE <<>>]
           D == [n \in 0 .. NItems |-> {s : s \in {s \in Seq(Nat) : IsOrder(s, K \cap 1 .. n)}}]
<1>1. NItems \in Nat /\ Items = 1 .. NItems /\ \A i \in 1 .. NItems : i \in Nat
  BY StreamAssumption DEF Items
<1>2. seqs \in [1 .. NItems -> Seq(Nat)]
  <2>1. \A i \in 1 .. NItems : seqs[i] \in Seq(Nat)
    <3>1. \A i \in Nat : <<i>> \in Seq(Nat) /\ <<>> \in Seq(Nat)
      OBVIOUS
    <3> QED BY <1>1, <3>1
  <2> QED BY <2>1
<1>3. <<>> \in D[0]
  <2>1. K \cap 1 .. 0 = {} /\ <<>> \in Seq(Nat) /\ 0 \in 0 .. NItems
    BY <1>1
  <2> QED BY <2>1, OrderEmpty
<1>4. ASSUME NEW i \in 1 .. NItems, NEW a \in D[i - 1] PROVE a \o seqs[i] \in D[i]
  <2>1. i - 1 \in 0 .. NItems /\ i \in 0 .. NItems /\ i \in Nat
    BY <1>1
  <2>2. a \in Seq(Nat) /\ IsOrder(a, K \cap 1 .. i - 1)
    BY <2>1
  <2>3. PICK b : b = seqs[i]
    OBVIOUS
  <2>4. PICK T \in SUBSET Nat : IsOrder(b, T) /\ K \cap 1 .. i = (K \cap 1 .. i - 1) \cup T
                  /\ \A x \in T : x = i
    <3>1. CASE i \in K
      <4>1. b = << i >> /\ K \cap 1 .. i = (K \cap 1 .. i - 1) \cup {i}
        BY <1>1, <2>1, <2>3, <3>1
      <4>2. {i} \in SUBSET Nat /\ IsOrder(b, {i}) /\ \A x \in {i} : x = i
        BY <2>1, <4>1, OrderOne
      <4> QED BY <4>1, <4>2
    <3>2. CASE i \notin K
      <4>1. b = <<>> /\ K \cap 1 .. i = (K \cap 1 .. i - 1) \cup {}
        BY <1>1, <2>1, <2>3, <3>2
      <4> QED BY <4>1, OrderEmpty
    <3> QED BY <3>1, <3>2
  <2>5. IsOrder(a \o b, (K \cap 1 .. i - 1) \cup T)
    <3>1. \A x \in K \cap 1 .. i - 1, y \in T : x < y
      BY <1>1, <2>1, <2>4
    <3>2. K \cap 1 .. i - 1 \in SUBSET Nat
      BY <1>1
    <3> QED BY <2>2, <2>4, <3>1, <3>2, OrderConcat
  <2>6. a \o b \in Seq(Nat)
    BY <1>2, <2>2, <2>3
  <2> QED BY <2>1, <2>3, <2>4, <2>5, <2>6
<1> HIDE DEF D
<1>5. FlattenSeq(seqs) \in D[NItems]
  <2> HIDE DEF seqs
  <2> QED BY <1>1, <1>2, <1>3, <1>4, FlattenUp
<1>6. InOrder(K) = FlattenSeq(seqs)
  BY <1>1 DEF InOrder
<1>7. K \cap 1 .. NItems = K
  BY <1>1
<1> HIDE DEF seqs
<1>8. IsOrder(FlattenSeq(seqs), K \cap 1 .. NItems)
  BY <1>1, <1>5 DEF D
<1> QED BY <1>6, <1>7, <1>8

-----------------------------------------------------------------------------
(* How many items answered *)

Good(i) == answer[i] \in {"ok", "garbled"}
GoodIn(a, b) == {i \in a + 1 .. b : Good(i)}
Count(n) == Cardinality(GoodIn(0, n))

\* Up to an item there are finitely many.
LEMMA CountIs ==
  ASSUME NEW n \in Nat
  PROVE  IsFiniteSet(GoodIn(0, n)) /\ Count(n) \in Nat /\ Count(0) = 0
<1>1. ASSUME NEW m \in Nat PROVE IsFiniteSet(GoodIn(0, m)) /\ Count(m) \in Nat
  <2>1. GoodIn(0, m) \in SUBSET (1 .. m)
    BY DEF GoodIn
  <2>2. IsFiniteSet(1 .. m)
    BY FS_Interval
  <2>3. IsFiniteSet(GoodIn(0, m))
    BY <2>1, <2>2, FS_Subset
  <2> QED BY <2>3, FS_CardinalityType DEF Count
<1>2. GoodIn(0, 0) = {}
  BY DEF GoodIn
<1>3. Count(0) = 0
  BY <1>2, FS_EmptySet DEF Count
<1> QED BY <1>1, <1>3

\* The number does not go down, and stays where no item answered.
LEMMA CountUp ==
  ASSUME NEW a \in Nat, NEW b \in Nat, a <= b
  PROVE  Count(a) <= Count(b) /\ (GoodIn(a, b) = {} => Count(a) = Count(b))
<1>1. GoodIn(0, a) \in SUBSET GoodIn(0, b)
  BY DEF GoodIn
<1>2. Count(a) <= Count(b)
  BY <1>1, CountIs, FS_Subset DEF Count
<1>3. ASSUME GoodIn(a, b) = {} PROVE GoodIn(0, b) = GoodIn(0, a)
  <2>1. ASSUME NEW i \in 1 .. b, Good(i) PROVE i \in 1 .. a
    <3> SUFFICES ASSUME i \notin 1 .. a PROVE FALSE
      OBVIOUS
    <3>1. i \in a + 1 .. b
      OBVIOUS
    <3> QED BY <1>3, <2>1, <3>1 DEF GoodIn
  <2>2. 0 + 1 = 1
    OBVIOUS
  <2> QED BY <1>1, <2>1, <2>2 DEF GoodIn
<1> QED BY <1>2, <1>3 DEF Count

\* The next item that answered is one more.
LEMMA CountNext ==
  ASSUME NEW a \in Nat, NEW x \in Nat, a < x, Good(x), GoodIn(a, x - 1) = {}
  PROVE  Count(x) = Count(a) + 1
<1>1. GoodIn(0, x) = GoodIn(0, a) \cup {x}
  <2>1. ASSUME NEW i \in GoodIn(0, x) PROVE i \in GoodIn(0, a) \cup {x}
    <3>1. i \in 1 .. x /\ Good(i)
      BY <2>1 DEF GoodIn
    <3>2. CASE i \in 1 .. a
      BY <3>1, <3>2 DEF GoodIn
    <3>3. CASE i \in a + 1 .. x - 1
      BY <3>1, <3>3 DEF GoodIn
    <3> QED BY <3>1, <3>2, <3>3
  <2>2. ASSUME NEW i \in GoodIn(0, a) \cup {x} PROVE i \in GoodIn(0, x)
    BY <2>2 DEF GoodIn
  <2> QED BY <2>1, <2>2
<1>2. x \notin GoodIn(0, a)
  BY DEF GoodIn
<1>3. IsFiniteSet(GoodIn(0, a))
  BY CountIs
<1> QED BY <1>1, <1>2, <1>3, FS_AddElement DEF Count

\* The k-th of those behind item a is number k behind those up to a.
LEMMA RankIs ==
  ASSUME NEW a \in Nat, NEW b \in Nat, a <= b, NEW s, IsOrder(s, GoodIn(a, b))
  PROVE  /\ s \in Seq(Nat)
         /\ \A k \in DOMAIN s : s[k] \in a + 1 .. b /\ Good(s[k]) /\ Count(s[k]) = Count(a) + k
         /\ Count(b) = Count(a) + Len(s)
<1>1. /\ s \in Seq(GoodIn(a, b)) /\ Len(s) \in Nat /\ DOMAIN s = 1 .. Len(s)
      /\ \A k \in DOMAIN s : s[k] \in GoodIn(a, b)
  BY DEF IsOrder
<1>2. \A k \in DOMAIN s : s[k] \in a + 1 .. b /\ s[k] \in Nat /\ Good(s[k])
  BY <1>1 DEF GoodIn
<1>3. s \in Seq(Nat)
  BY <1>1, <1>2
<1>4. ASSUME NEW i \in GoodIn(a, b) PROVE \E k \in DOMAIN s : s[k] = i
  BY DEF IsOrder
<1>5. \A j, k \in DOMAIN s : j < k => s[j] < s[k]
  BY DEF IsOrder
<1>6. Count(a) \in Nat
  BY CountIs
\* nothing lies between two neighbours
<1>7. ASSUME NEW k \in DOMAIN s PROVE Count(s[k]) = Count(a) + k
  <2> DEFINE Bad == {j \in DOMAIN s : Count(s[j]) # Count(a) + j}
  <2> SUFFICES ASSUME Bad # {} PROVE FALSE
    OBVIOUS
  <2>1. PICK m \in Bad : \A j \in Bad : m <= j
    <3>1. Bad \in SUBSET Nat
      BY <1>1
    <3> HIDE DEF Bad
    <3> QED BY <3>1, LeastOf
  <2>2. m \in DOMAIN s /\ m \in Nat /\ m >= 1 /\ Count(s[m]) # Count(a) + m
    BY <1>1
  <2>3. CASE m = 1
    <3>1. GoodIn(a, s[1] - 1) = {}
      <4> SUFFICES ASSUME NEW i \in GoodIn(a, s[1] - 1) PROVE FALSE
        OBVIOUS
      <4>1. i \in a + 1 .. s[1] - 1 /\ Good(i) /\ s[1] \in a + 1 .. b
        BY <1>2, <2>2, <2>3 DEF GoodIn
      <4>2. i \in GoodIn(a, b) /\ i < s[1]
        BY <4>1 DEF GoodIn
      <4>3. PICK k1 \in DOMAIN s : s[k1] = i
        BY <1>4, <4>2
      <4>4. k1 = 1 \/ 1 < k1
        BY <1>1
      <4>5. s[1] = i \/ s[1] < i
        BY <1>5, <2>2, <2>3, <4>3, <4>4
      <4> QED BY <4>1, <4>5
    <3>2. s[1] \in Nat /\ a < s[1] /\ Good(s[1])
      BY <1>2, <2>2, <2>3
    <3>3. Count(s[1]) = Count(a) + 1
      BY <3>1, <3>2, CountNext
    <3> QED BY <2>2, <2>3, <3>3
  <2>4. CASE m # 1
    <3>1. PICK l \in DOMAIN s : l = m - 1 /\ l \notin Bad /\ l \in Nat
      BY <1>1, <2>1, <2>2, <2>4
    <3>2. Count(s[l]) = Count(a) + l
      BY <3>1
    <3> HIDE DEF Bad
    <3>3. GoodIn(s[l], s[m] - 1) = {}
      <4> SUFFICES ASSUME NEW i \in GoodIn(s[l], s[m] - 1) PROVE FALSE
        OBVIOUS
      <4>1. i \in s[l] + 1 .. s[m] - 1 /\ Good(i) /\ s[m] \in a + 1 .. b /\ s[l] \in a + 1 .. b
        BY <1>2, <2>2 DEF GoodIn
      <4>2. i \in GoodIn(a, b) /\ i < s[m] /\ s[l] < i
        BY <4>1 DEF GoodIn
      <4>3. PICK k1 \in DOMAIN s : s[k1] = i
        BY <1>4, <4>2
      <4>4. k1 < l \/ k1 = l \/ k1 = m \/ m < k1
        BY <1>1, <2>2, <3>1
      <4>5. s[k1] < s[l] \/ s[k1] = s[l] \/ s[k1] = s[m] \/ s[m] < s[k1]
        BY <1>5, <2>2, <4>4
      <4> QED BY <4>1, <4>2, <4>3, <4>5
    <3>4. s[l] \in Nat /\ s[m] \in Nat /\ s[l] < s[m] /\ Good(s[m])
      BY <1>2, <1>5, <2>2, <3>1
    <3>5. Count(s[m]) = Count(s[l]) + 1
      BY <3>3, <3>4, CountNext
    <3> QED BY <1>6, <2>2, <3>1, <3>2, <3>5
  <2> QED BY <2>3, <2>4
<1>8. Count(b) = Count(a) + Len(s)
  <2>1. CASE Len(s) = 0
    <3>1. GoodIn(a, b) = {}
      BY <1>1, <1>4, <2>1
    <3> QED BY <1>6, <2>1, <3>1, CountUp
  <2>2. CASE Len(s) # 0
    <3>1. PICK l \in DOMAIN s : l = Len(s)
      BY <1>1, <2>2
    <3>2. GoodIn(s[l], b) = {}
      <4> SUFFICES ASSUME NEW i \in GoodIn(s[l], b) PROVE FALSE
        OBVIOUS
      <4>1. i \in s[l] + 1 .. b /\ Good(i) /\ s[l] \in a + 1 .. b
        BY <1>2 DEF GoodIn
      <4>2. i \in GoodIn(a, b) /\ s[l] < i
        BY <4>1 DEF GoodIn
      <4>3. PICK k1 \in DOMAIN s : s[k1] = i
        BY <1>4, <4>2
      <4>4. k1 < l \/ k1 = l
        BY <1>1, <3>1
      <4>5. s[k1] < s[l] \/ s[k1] = s[l]
        BY <1>5, <4>4
      <4> QED BY <4>1, <4>2, <4>3, <4>5
    <3>3. s[l] \in Nat /\ s[l] <= b
      BY <1>2
    <3>4. Count(s[l]) = Count(b)
      BY <3>2, <3>3, CountUp
    <3> QED BY <1>7, <3>1, <3>4
  <2> QED BY <2>1, <2>2
<1> QED BY <1>2, <1>3, <1>7, <1>8

-----------------------------------------------------------------------------
(* What --first_record and --max_records let through *)

From == IF FirstRecord = 0 THEN 1 ELSE FirstRecord

\* The items up to the n-th that are to be shown.
Chosen(n) == {i \in GoodIn(0, n) : how.limit = "none" \/ Count(i) \in From .. From + MaxRecords - 1}

\* How many of the first r records are passed, and the counter behind item n.
Passed(r) == IF r < From THEN 0 ELSE IF r - From + 1 > MaxRecords THEN MaxRecords ELSE r - From + 1
CountsTo(c, n) ==
    /\ how.limit = "none" \/ ( /\ c.exported = Passed(Count(n)) /\ c.exported = Passed(c.seen)
                               /\ c.seen = Count(n) \/ c.exported = MaxRecords )
    /\ c.finished => how.limit # "none" /\ c.exported = MaxRecords

\* A part of a sequence in order.
IsPart(t, s, c, n) ==
    /\ c \in Nat /\ n \in Nat /\ c + n <= Len(s) /\ t \in Seq(Nat) /\ Len(t) = n
    /\ \A k \in 1 .. n : t[k] = s[c + k]
LEMMA OrderPart ==
  ASSUME NEW S, NEW s, NEW c, NEW n, NEW t, IsOrder(s, S), IsPart(t, s, c, n), S \subseteq Nat
  PROVE  IsOrder(t, {s[k] : k \in c + 1 .. c + n})
<1>0. /\ c \in Nat /\ n \in Nat /\ c + n <= Len(s) /\ t \in Seq(Nat) /\ Len(t) = n
      /\ \A k \in 1 .. n : t[k] = s[c + k]
  BY DEF IsPart
<1>1. s \in Seq(S) /\ Len(s) \in Nat /\ DOMAIN s = 1 .. Len(s) /\ DOMAIN t = 1 .. n
  BY <1>0 DEF IsOrder
<1> DEFINE T == {s[k] : k \in c + 1 .. c + n}
<1>2. \A k \in 1 .. n : t[k] \in T
  BY <1>0
<1>3. t \in Seq(T)
  <2> HIDE DEF T
  <2> QED BY <1>0, <1>1, <1>2
<1>4. ASSUME NEW i \in T PROVE \E k \in DOMAIN t : t[k] = i
  <2>1. PICK k \in c + 1 .. c + n : i = s[k]
    OBVIOUS
  <2>2. PICK j \in 1 .. n : c + j = k
    <3>1. k - c \in 1 .. n /\ c + (k - c) = k
      BY <1>0, <2>1
    <3> QED BY <3>1
  <2>3. t[j] = s[c + j]
    BY <1>0, <2>2
  <2>4. j \in DOMAIN t /\ t[j] = i
    BY <1>1, <2>1, <2>2, <2>3
  <2> QED BY <2>4
<1>5. ASSUME NEW j \in DOMAIN t, NEW k \in DOMAIN t, j < k PROVE t[j] < t[k]
  <2>1. PICK a, b \in DOMAIN s : a = c + j /\ b = c + k
    BY <1>0, <1>1
  <2>2. a < b /\ t[j] = s[a] /\ t[k] = s[b]
    BY <1>0, <1>1, <1>5, <2>1
  <2> QED BY <2>2 DEF IsOrder
<1> HIDE DEF T
<1>6. IsOrder(t, T)
  BY <1>3, <1>4, <1>5 DEF IsOrder
<1> QED BY <1>6 DEF T

\* How many records come before the first one that is wanted.
LEMMA BeforeIs ==
  ASSUME NEW L \in Nat, NEW seen \in Nat, NEW F \in Nat
  PROVE  \E c \in 0 .. L : /\ Cardinality({k \in 1 .. L : seen + k < F}) = c
                           /\ c > 0 => seen + c < F
                           /\ c < L => seen + c + 1 >= F
<1> DEFINE d == IF F - 1 - seen < 0 THEN 0 ELSE IF F - 1 - seen > L THEN L ELSE F - 1 - seen
<1>0. d \in 0 .. L
  OBVIOUS
<1>1. PICK c \in 0 .. L : c = d
  BY <1>0
<1>2. {k \in 1 .. L : seen + k < F} = 1 .. c
  BY <1>1
<1>3. Cardinality(1 .. c) = c
  <2>1. Cardinality(1 .. c) = IF 1 > c THEN 0 ELSE c - 1 + 1
    <3>1. 1 \in Int /\ c \in Int
      OBVIOUS
    <3> QED BY <3>1, FS_Interval
  <2> QED BY <2>1
<1>4. (c > 0 => seen + c < F) /\ (c < L => seen + c + 1 >= F)
  BY <1>1
<1> HIDE DEF d
<1> QED BY <1>2, <1>3, <1>4

\* P records are passed of L behind number r, c of which come before the first one wanted.
Window(L, r, seen, e, c, P) ==
    /\ L \in Nat /\ r \in Nat /\ seen \in Nat /\ e \in 0 .. MaxRecords /\ c \in 0 .. L
    /\ e = Passed(r) /\ e = Passed(seen) /\ (seen = r \/ e = MaxRecords)
    /\ (c > 0 => seen + c < FirstRecord) /\ (c < L => seen + c + 1 >= FirstRecord)
    /\ P = IF L - c > MaxRecords - e THEN MaxRecords - e ELSE L - c

\* These are the ones that --first_record and --max_records ask for.
LEMMA WindowIs ==
  ASSUME NEW L, NEW r, NEW seen, NEW e, NEW c, NEW P, Window(L, r, seen, e, c, P)
  PROVE  /\ P \in Nat /\ c + P <= L
         /\ \A k \in 1 .. L : k \in c + 1 .. c + P <=> r + k \in From .. From + MaxRecords - 1
         /\ L - c > MaxRecords - e => e + P = MaxRecords
         /\ e + P = Passed(r + L)
         /\ L - c > MaxRecords - e => e + P = Passed(seen + c + (MaxRecords - e) + 1)
         /\ ~ (L - c > MaxRecords - e) => e + P = Passed(seen + L) /\ (seen = r \/ e + P = MaxRecords)
<1>0. /\ L \in Nat /\ r \in Nat /\ seen \in Nat /\ e \in 0 .. MaxRecords /\ c \in 0 .. L
      /\ e = Passed(r) /\ e = Passed(seen) /\ (seen = r \/ e = MaxRecords)
      /\ (c > 0 => seen + c < FirstRecord) /\ (c < L => seen + c + 1 >= FirstRecord)
      /\ P = IF L - c > MaxRecords - e THEN MaxRecords - e ELSE L - c
  BY DEF Window
<1>1. MaxRecords \in Nat /\ MaxRecords >= 1 /\ FirstRecord \in Nat
  BY StreamAssumption
<1>2. PICK f \in Nat : f = From /\ f >= 1 /\ (FirstRecord = 0 => f = 1) /\ (FirstRecord # 0 => f = FirstRecord)
  BY <1>0, <1>1 DEF From
<1>3. \A x \in Nat : Passed(x) = IF x < f THEN 0 ELSE IF x - f + 1 > MaxRecords THEN MaxRecords ELSE x - f + 1
  BY <1>2 DEF Passed
<1>4. e = IF r < f THEN 0 ELSE IF r - f + 1 > MaxRecords THEN MaxRecords ELSE r - f + 1
  BY <1>0, <1>3
<1>5. e = IF seen < f THEN 0 ELSE IF seen - f + 1 > MaxRecords THEN MaxRecords ELSE seen - f + 1
  BY <1>0, <1>3
<1>6. Passed(r + L) = IF r + L < f THEN 0 ELSE IF r + L - f + 1 > MaxRecords THEN MaxRecords ELSE r + L - f + 1
  BY <1>0, <1>3
<1>7. Passed(seen + L) = IF seen + L < f THEN 0 ELSE IF seen + L - f + 1 > MaxRecords THEN MaxRecords ELSE seen + L - f + 1
  BY <1>0, <1>3
<1>8. P \in Nat /\ c + P <= L
  BY <1>0, <1>1
<1>9. c > 0 => seen + c < f
  BY <1>0, <1>1, <1>2
<1>10. c < L => seen + c + 1 >= f
  BY <1>0, <1>1, <1>2
<1>11. L - c > MaxRecords - e => e + P = MaxRecords /\ e + P = Passed(seen + c + (MaxRecords - e) + 1)
  <2> SUFFICES ASSUME L - c > MaxRecords - e
        PROVE  e + P = MaxRecords /\ e + P = Passed(seen + c + (MaxRecords - e) + 1)
    OBVIOUS
  <2>1. PICK x \in Nat : x = seen + c + (MaxRecords - e) + 1
    BY <1>0, <1>1
  <2>2. Passed(x) = IF x < f THEN 0 ELSE IF x - f + 1 > MaxRecords THEN MaxRecords ELSE x - f + 1
    BY <1>0, <1>3
  <2>3. e + P = MaxRecords
    BY <1>0, <1>1
  <2>4. c < L
    BY <1>0, <1>1
  <2>5. x >= f + MaxRecords - 1
    BY <1>0, <1>1, <1>2, <1>5, <1>9, <1>10, <2>1, <2>4
  <2> QED BY <1>0, <1>1, <1>2, <2>1, <2>2, <2>3, <2>5
<1>12. ~ (L - c > MaxRecords - e) => e + P = Passed(seen + L) /\ (seen = r \/ e + P = MaxRecords)
  BY <1>0, <1>1, <1>2, <1>5, <1>7, <1>9, <1>10
<1>13. e + P = Passed(r + L)
  BY <1>0, <1>1, <1>2, <1>4, <1>5, <1>6, <1>9, <1>10
<1>14. ASSUME NEW k \in 1 .. L PROVE k \in c + 1 .. c + P <=> r + k \in From .. From + MaxRecords - 1
  BY <1>0, <1>1, <1>2, <1>4, <1>5, <1>9, <1>10
<1> QED BY <1>8, <1>11, <1>12, <1>13, <1>14

\* The items that are to be shown behind the n-th.
LEMMA ChosenStep ==
  ASSUME NEW n \in Nat, NEW m \in Nat, n <= m
  PROVE  /\ Chosen(n) \subseteq Chosen(m) /\ Chosen(m) \subseteq 1 .. m
         /\ Chosen(m) \ Chosen(n) =
              {i \in GoodIn(n, m) : how.limit = "none" \/ Count(i) \in From .. From + MaxRecords - 1}
<1> DEFINE A(i) == how.limit = "none" \/ Count(i) \in From .. From + MaxRecords - 1
<1>1. \A x : /\ x \in Chosen(n) <=> x \in 1 .. n /\ Good(x) /\ A(x)
             /\ x \in Chosen(m) <=> x \in 1 .. m /\ Good(x) /\ A(x)
             /\ x \in GoodIn(n, m) <=> x \in n + 1 .. m /\ Good(x)
  BY DEF Chosen, GoodIn
<1>2. Chosen(m) \ Chosen(n) = {i \in GoodIn(n, m) : A(i)}
  <2> HIDE DEF A
  <2>1. \A x : x \in Chosen(m) \ Chosen(n) <=> x \in GoodIn(n, m) /\ A(x)
    <3>1. \A x : x \in 1 .. m /\ x \notin 1 .. n <=> x \in n + 1 .. m
      OBVIOUS
    <3> QED BY <1>1, <3>1
  <2> QED BY <2>1
<1>3. Chosen(n) \subseteq Chosen(m) /\ Chosen(m) \subseteq 1 .. m
  <2>1. \A x : x \in 1 .. n => x \in 1 .. m
    OBVIOUS
  <2> HIDE DEF A
  <2> QED BY <1>1, <2>1
<1> QED BY <1>2, <1>3

\* Of the records of a map the counter passes those that are to be shown.
LEMMA CountedPass ==
  ASSUME counter \in [seen : Nat, exported : 0 .. MaxRecords, finished : BOOLEAN], how.limit # "map",
         NEW n \in Nat, NEW m \in Nat, n <= m, CountsTo(counter, n),
         NEW recs, IsOrder(recs, GoodIn(n, m))
  PROVE  /\ IsOrder(Counted(recs).pass, Chosen(m) \ Chosen(n))
         /\ CountsTo(Counted(recs).counter, m)
<1>1. /\ recs \in Seq(Nat) /\ Len(recs) \in Nat /\ DOMAIN recs = 1 .. Len(recs)
      /\ \A k \in DOMAIN recs : recs[k] \in n + 1 .. m /\ Good(recs[k]) /\ Count(recs[k]) = Count(n) + k
      /\ Count(m) = Count(n) + Len(recs) /\ Count(n) \in Nat
  <2>1. /\ recs \in Seq(Nat)
        /\ \A k \in DOMAIN recs : recs[k] \in n + 1 .. m /\ Good(recs[k]) /\ Count(recs[k]) = Count(n) + k
        /\ Count(m) = Count(n) + Len(recs)
    BY RankIs, Zenon
  <2>2. Len(recs) \in Nat /\ DOMAIN recs = 1 .. Len(recs)
    BY <2>1
  <2> QED BY <2>1, <2>2, CountIs
<1>2. CASE how.limit = "none"
  <2>1. Counted(recs).pass = recs /\ Counted(recs).counter = counter
    BY <1>2, Zenon DEF Counted
  <2>2. Chosen(m) \ Chosen(n) = GoodIn(n, m)
    BY <1>2, ChosenStep
  <2> QED BY <1>2, <2>1, <2>2 DEF CountsTo
<1>3. CASE how.limit # "none"
  <2>1. PICK seen \in Nat, e \in 0 .. MaxRecords : seen = counter.seen /\ e = counter.exported
    OBVIOUS
  <2>2. PICK L \in Nat : L = Len(recs)
    BY <1>1
  <2>3. PICK c \in 0 .. L : /\ Cardinality({k \in 1 .. L : seen + k < FirstRecord}) = c
                            /\ c > 0 => seen + c < FirstRecord
                            /\ c < L => seen + c + 1 >= FirstRecord
    BY BeforeIs, StreamAssumption
  <2>4. PICK P : P = IF L - c > MaxRecords - e THEN MaxRecords - e ELSE L - c
    OBVIOUS
  <2>5. e = Passed(Count(n)) /\ e = Passed(seen) /\ (seen = Count(n) \/ e = MaxRecords)
    BY <1>3, <2>1 DEF CountsTo
  <2>6. /\ P \in Nat /\ c + P <= L
        /\ \A k \in 1 .. L : k \in c + 1 .. c + P <=> Count(n) + k \in From .. From + MaxRecords - 1
        /\ L - c > MaxRecords - e => e + P = MaxRecords
        /\ e + P = Passed(Count(n) + L)
        /\ L - c > MaxRecords - e => e + P = Passed(seen + c + (MaxRecords - e) + 1)
        /\ ~ (L - c > MaxRecords - e) => e + P = Passed(seen + L) /\ (seen = Count(n) \/ e + P = MaxRecords)
    <3>1. PICK r \in Nat : r = Count(n)
      BY <1>1
    <3>2. Window(L, r, seen, e, c, P)
      BY <2>3, <2>4, <2>5, <3>1, Zenon DEF Window
    <3>3. /\ P \in Nat /\ c + P <= L
          /\ \A k \in 1 .. L : k \in c + 1 .. c + P <=> r + k \in From .. From + MaxRecords - 1
          /\ L - c > MaxRecords - e => e + P = MaxRecords
          /\ e + P = Passed(r + L)
          /\ L - c > MaxRecords - e => e + P = Passed(seen + c + (MaxRecords - e) + 1)
          /\ ~ (L - c > MaxRecords - e) => e + P = Passed(seen + L) /\ (seen = r \/ e + P = MaxRecords)
      BY <3>2, WindowIs, Zenon
    <3> QED BY <3>1, <3>3
  <2>7. PICK wanted : wanted = SubSeq(recs, c + 1, L)
    OBVIOUS
  <2>8. wanted \in Seq(Nat) /\ Len(wanted) = L - c /\ \A k \in 1 .. L - c : wanted[k] = recs[c + k]
    <3>1. \A i \in c + 1 .. L : recs[i] \in Nat
      BY <1>1, <2>2
    <3>2. c + 1 \in Nat
      OBVIOUS
    <3>3. /\ SubSeq(recs, c + 1, L) \in Seq(Nat)
          /\ Len(SubSeq(recs, c + 1, L)) = IF c + 1 <= L THEN L - (c + 1) + 1 ELSE 0
          /\ \A i \in 1 .. L - (c + 1) + 1 : SubSeq(recs, c + 1, L)[i] = recs[c + 1 + i - 1]
      BY <3>1, <3>2, SubSeqProperties
    <3>4. ASSUME NEW k \in 1 .. L - c PROVE wanted[k] = recs[c + k]
      <4>1. k \in 1 .. L - (c + 1) + 1 /\ c + 1 + k - 1 = c + k
        OBVIOUS
      <4>2. SubSeq(recs, c + 1, L)[k] = recs[c + 1 + k - 1]
        BY <3>3, <4>1
      <4> QED BY <2>7, <4>1, <4>2
    <3>5. (IF c + 1 <= L THEN L - (c + 1) + 1 ELSE 0) = L - c
      OBVIOUS
    <3> QED BY <2>7, <3>3, <3>4, <3>5
  <2>9. PICK pass : pass = IF Len(wanted) > MaxRecords - e THEN SubSeq(wanted, 1, MaxRecords - e) ELSE wanted
    OBVIOUS
  <2>10. pass \in Seq(Nat) /\ Len(pass) = P /\ \A k \in 1 .. P : pass[k] = recs[c + k]
    <3>1. CASE L - c > MaxRecords - e
      <4>1. MaxRecords - e \in Nat /\ P = MaxRecords - e /\ P <= L - c
        BY <2>4, <2>6, <3>1, StreamAssumption
      <4>2. \A i \in 1 .. P : wanted[i] \in Nat
        <5>1. \A i \in 1 .. P : i \in 1 .. Len(wanted)
          BY <2>6, <2>8, <4>1
        <5> QED BY <2>8, <5>1
      <4>3. /\ SubSeq(wanted, 1, P) \in Seq(Nat)
            /\ Len(SubSeq(wanted, 1, P)) = IF 1 <= P THEN P - 1 + 1 ELSE 0
            /\ \A i \in 1 .. P - 1 + 1 : SubSeq(wanted, 1, P)[i] = wanted[1 + i - 1]
        BY <4>1, <4>2, SubSeqProperties
      <4>4. ASSUME NEW k \in 1 .. P PROVE pass[k] = recs[c + k]
        <5>1. k \in 1 .. P - 1 + 1 /\ 1 + k - 1 = k /\ k \in 1 .. L - c
          BY <4>1
        <5>2. SubSeq(wanted, 1, P)[k] = wanted[k]
          BY <4>3, <5>1
        <5> QED BY <2>8, <2>9, <3>1, <4>1, <5>1, <5>2
      <4>5. (IF 1 <= P THEN P - 1 + 1 ELSE 0) = P
        BY <4>1
      <4> QED BY <2>8, <2>9, <3>1, <4>1, <4>3, <4>4, <4>5
    <3>2. CASE ~ (L - c > MaxRecords - e)
      BY <2>4, <2>8, <2>9, <3>2
    <3> QED BY <3>1, <3>2
  <2>11. Counted(recs) =
           [pass |-> pass,
            counter |-> [seen |-> seen + (IF L - c > MaxRecords - e THEN c + (MaxRecords - e) + 1 ELSE L),
                         exported |-> e + Len(pass),
                         finished |-> how.limit = "query" /\ L - c > MaxRecords - e]]
    <3>1. /\ L = Len(recs) /\ 1 .. L = DOMAIN recs /\ L - c = Len(wanted)
          /\ seen = (IF how.limit = "map" THEN 0 ELSE counter.seen)
          /\ e = (IF how.limit = "map" THEN 0 ELSE counter.exported)
      BY <1>1, <2>1, <2>2, <2>8
    <3> QED BY <1>3, <2>3, <2>7, <2>9, <3>1, Zenon DEF Counted
  <2>12. {recs[k] : k \in c + 1 .. c + P} = Chosen(m) \ Chosen(n)
    <3>1. Chosen(m) \ Chosen(n) = {i \in GoodIn(n, m) : Count(i) \in From .. From + MaxRecords - 1}
      BY <1>3, ChosenStep
    <3>2. ASSUME NEW k \in c + 1 .. c + P PROVE recs[k] \in Chosen(m) \ Chosen(n)
      <4>1. k \in 1 .. L /\ k \in DOMAIN recs
        BY <1>1, <2>2, <2>6
      <4>2. recs[k] \in GoodIn(n, m) /\ Count(recs[k]) = Count(n) + k
        BY <1>1, <4>1 DEF GoodIn
      <4>3. Count(n) + k \in From .. From + MaxRecords - 1
        BY <2>6, <4>1
      <4> QED BY <3>1, <4>2, <4>3
    <3>3. ASSUME NEW i \in Chosen(m) \ Chosen(n) PROVE \E k \in c + 1 .. c + P : recs[k] = i
      <4>1. i \in GoodIn(n, m) /\ Count(i) \in From .. From + MaxRecords - 1
        BY <3>1
      <4>2. PICK k \in DOMAIN recs : recs[k] = i
        BY <4>1 DEF IsOrder
      <4>3. k \in 1 .. L /\ Count(i) = Count(n) + k
        BY <1>1, <2>2, <4>2
      <4> QED BY <2>6, <4>1, <4>2, <4>3
    <3> QED BY <3>2, <3>3
  <2>13. IsOrder(pass, Chosen(m) \ Chosen(n))
    <3>1. GoodIn(n, m) \in SUBSET Nat
      BY DEF GoodIn
    <3>2. c \in Nat /\ c + P <= Len(recs)
      BY <2>2, <2>6
    <3>3. IsOrder(pass, {recs[k] : k \in c + 1 .. c + P})
      <4>1. IsPart(pass, recs, c, P)
        BY <2>6, <2>10, <3>2 DEF IsPart
      <4>2. GoodIn(n, m) \subseteq Nat
        BY <3>1
      <4>3. IsOrder(recs, GoodIn(n, m))
        OBVIOUS
      <4> QED BY <4>1, <4>2, <4>3, OrderPart
    <3> QED BY <2>12, <3>3
  <2>14. CountsTo(Counted(recs).counter, m)
    <3>1. PICK d : d = Counted(recs).counter
      OBVIOUS
    <3>2. /\ d.seen = seen + (IF L - c > MaxRecords - e THEN c + (MaxRecords - e) + 1 ELSE L)
          /\ d.exported = e + P
          /\ d.finished = (how.limit = "query" /\ L - c > MaxRecords - e)
      BY <2>10, <2>11, <3>1
    <3>3. Count(m) = Count(n) + L
      BY <1>1, <2>2
    <3>4. CASE L - c > MaxRecords - e
      <4>1. d.seen = seen + c + (MaxRecords - e) + 1
        BY <3>2, <3>4, StreamAssumption
      <4>2. d.exported = MaxRecords /\ d.exported = Passed(Count(m)) /\ d.exported = Passed(d.seen)
        BY <2>6, <3>2, <3>3, <3>4, <4>1
      <4> QED BY <1>3, <3>1, <4>2 DEF CountsTo
    <3>5. CASE ~ (L - c > MaxRecords - e)
      <4>1. d.seen = seen + L /\ ~ d.finished
        BY <3>2, <3>5
      <4>2. /\ d.exported = Passed(Count(m)) /\ d.exported = Passed(d.seen)
            /\ d.seen = Count(m) \/ d.exported = MaxRecords
        BY <2>6, <3>2, <3>3, <3>5, <4>1
      <4> QED BY <1>3, <3>1, <4>1, <4>2 DEF CountsTo
    <3> QED BY <3>4, <3>5
  <2> QED BY <2>11, <2>13, <2>14
<1> QED BY <1>2, <1>3

-----------------------------------------------------------------------------
(* What the statements that are left will do *)

\* The statements s announce the records of the items ann: each is sent, with at most
\* errors between them.  (F[s] holds what s announces, for what is left of it too.)
SpellsStep(F, s, ann) ==
    \/ s = <<>> /\ ann = <<>>
    \/ \E u \in Seq(Statements) : s = << Stmt("err") >> \o u /\ ann \in F[u]
    \/ \E u \in Seq(Statements), q \in Seq(Items), i \in Items, v \in {"fetched", "blank"} :
         s = << Send(i, v) >> \o u /\ ann = << i >> \o q /\ q \in F[u]
SpellsBy(F) == \A s \in Seq(Statements) : \A ann \in F[s] : SpellsStep(F, s, ann)
Spells(s, ann) ==
    /\ s \in Seq(Statements) /\ ann \in Seq(Items)
    /\ \E F \in [Seq(Statements) -> SUBSET Seq(Items)] : ann \in F[s] /\ SpellsBy(F)

\* The statements s take the items behind a up to b in maps: each map is checked,
\* iterated over, drained and collected.
Mapping(a, l) == [op |-> "iterate", keys |-> a + 1 .. l]
Block(a, l) == << Stmt("check"), Mapping(a, l), Stmt("drain"), Stmt("collect") >>
PlanStep(F, b, s, a) ==
    \/ s = <<>> /\ a = b
    \/ \E u \in Seq(Statements) : s = << Stmt("group") >> \o u /\ a \in F[u]
    \/ \E u \in Seq(Statements), l \in Nat :
         /\ a < l /\ l - a <= AppMapSize
         /\ s = Block(a, l) \o u /\ l \in F[u]
PlanBy(F, b) == \A s \in Seq(Statements) : \A a \in F[s] : PlanStep(F, b, s, a)
Plan(s, a, b) ==
    /\ s \in Seq(Statements) /\ a \in Nat
    /\ \E F \in [Seq(Statements) -> SUBSET Nat] : a \in F[s] /\ PlanBy(F, b)

\* More may be announced, or planned, in what is left.
LEMMA StepMore ==
  ASSUME NEW F, NEW G, \A u \in Seq(Statements) : \A q \in F[u] : q \in G[u], NEW s, NEW ann, NEW b
  PROVE  /\ SpellsStep(F, s, ann) => SpellsStep(G, s, ann)
         /\ PlanStep(F, b, s, ann) => PlanStep(G, b, s, ann)
<1>1. ASSUME SpellsStep(F, s, ann) PROVE SpellsStep(G, s, ann)
  <2>1. ASSUME NEW u \in Seq(Statements), s = << Stmt("err") >> \o u, ann \in F[u] PROVE SpellsStep(G, s, ann)
    <3>1. ann \in G[u]
      BY <2>1
    <3> QED BY <2>1, <3>1, Zenon DEF SpellsStep
  <2>2. ASSUME NEW u \in Seq(Statements), NEW q \in Seq(Items), NEW i \in Items, NEW v \in {"fetched", "blank"},
               s = << Send(i, v) >> \o u, ann = << i >> \o q, q \in F[u]
        PROVE  SpellsStep(G, s, ann)
    <3>1. q \in G[u]
      BY <2>2
    <3> QED BY <2>2, <3>1, Zenon DEF SpellsStep
  <2>3. s = <<>> /\ ann = <<>> => SpellsStep(G, s, ann)
    BY Zenon DEF SpellsStep
  <2> QED BY <1>1, <2>1, <2>2, <2>3, Zenon DEF SpellsStep
<1>2. ASSUME PlanStep(F, b, s, ann) PROVE PlanStep(G, b, s, ann)
  <2>1. ASSUME NEW u \in Seq(Statements), s = << Stmt("group") >> \o u, ann \in F[u] PROVE PlanStep(G, b, s, ann)
    <3>1. ann \in G[u]
      BY <2>1
    <3> QED BY <2>1, <3>1, Zenon DEF PlanStep
  <2>2. ASSUME NEW u \in Seq(Statements), NEW l \in Nat, ann < l, l - ann <= AppMapSize,
               s = Block(ann, l) \o u, l \in F[u]
        PROVE  PlanStep(G, b, s, ann)
    <3>1. l \in G[u]
      BY <2>2
    <3> QED BY <2>2, <3>1, Zenon DEF PlanStep
  <2>3. s = <<>> /\ ann = b => PlanStep(G, b, s, ann)
    BY Zenon DEF PlanStep
  <2> QED BY <1>2, <2>1, <2>2, <2>3, Zenon DEF PlanStep
<1> QED BY <1>1, <1>2

\* How what is announced begins.
SpellsFirst(s, ann) ==
    \/ s = <<>> /\ ann = <<>>
    \/ \E u \in Seq(Statements) : s = << Stmt("err") >> \o u /\ Spells(u, ann)
    \/ \E u \in Seq(Statements), q \in Seq(Items), i \in Items, v \in {"fetched", "blank"} :
         s = << Send(i, v) >> \o u /\ ann = << i >> \o q /\ Spells(u, q)
LEMMA SpellsCases ==
  ASSUME NEW s, NEW ann, Spells(s, ann)
  PROVE  s \in Seq(Statements) /\ ann \in Seq(Items) /\ SpellsFirst(s, ann)
<1>1. s \in Seq(Statements) /\ ann \in Seq(Items)
  BY DEF Spells
<1>2. PICK F \in [Seq(Statements) -> SUBSET Seq(Items)] : ann \in F[s] /\ SpellsBy(F)
  BY DEF Spells
<1>3. ASSUME NEW u \in Seq(Statements), NEW q, q \in F[u] PROVE Spells(u, q)
  <2>1. q \in Seq(Items)
    BY <1>3
  <2> QED BY <1>2, <1>3, <2>1, Zenon DEF Spells
<1>4. \/ s = <<>> /\ ann = <<>>
      \/ \E u \in Seq(Statements) : s = << Stmt("err") >> \o u /\ ann \in F[u]
      \/ \E u \in Seq(Statements), q \in Seq(Items), i \in Items, v \in {"fetched", "blank"} :
            s = << Send(i, v) >> \o u /\ ann = << i >> \o q /\ q \in F[u]
  <2>1. SpellsStep(F, s, ann)
    BY <1>1, <1>2, Zenon DEF SpellsBy
  <2> QED BY <2>1, Zenon DEF SpellsStep
<1> QED BY <1>1, <1>3, <1>4, Zenon DEF SpellsFirst

\* Nothing announces nothing.
LEMMA SpellsNone == Spells(<<>>, <<>>)
<1> DEFINE F == [s \in Seq(Statements) |-> IF s = <<>> THEN {<<>>} ELSE {}]
<1>1. <<>> \in Seq(Statements) /\ <<>> \in Seq(Items)
  OBVIOUS
<1>2. \A s \in Seq(Statements) : \A ann : ann \in F[s] <=> s = <<>> /\ ann = <<>>
  OBVIOUS
<1>3. F \in [Seq(Statements) -> SUBSET Seq(Items)]
  BY <1>1
<1> HIDE DEF F
<1>4. SpellsBy(F)
  BY <1>2, Zenon DEF SpellsBy, SpellsStep
<1> QED BY <1>1, <1>2, <1>3, <1>4, Zenon DEF Spells

\* One more statement in front.
LEMMA SpellsErr == ASSUME NEW u, NEW ann, Spells(u, ann) PROVE Spells(<< Stmt("err") >> \o u, ann)
<1>1. u \in Seq(Statements) /\ ann \in Seq(Items)
  BY DEF Spells
<1>2. PICK F \in [Seq(Statements) -> SUBSET Seq(Items)] : ann \in F[u] /\ SpellsBy(F)
  BY DEF Spells
<1>3. PICK s \in Seq(Statements) : s = << Stmt("err") >> \o u
  <2>1. PICK e \in Statements : e = Stmt("err")
    BY StatementFacts DEF Ops, ArmOps
  <2>2. << e >> \o u \in Seq(Statements)
    BY <1>1
  <2> QED BY <2>1, <2>2
<1> DEFINE G == [x \in Seq(Statements) |-> F[x] \cup {q \in {ann} : x = s}]
<1>4. \A x \in Seq(Statements) : \A q : q \in G[x] <=> q \in F[x] \/ (x = s /\ q = ann)
  OBVIOUS
<1>5. G \in [Seq(Statements) -> SUBSET Seq(Items)]
  BY <1>1
<1> HIDE DEF G
<1>6. SpellsBy(G)
  <2>1. ASSUME NEW x \in Seq(Statements), NEW q \in G[x] PROVE SpellsStep(G, x, q)
    <3>1. CASE q \in F[x]
      BY <1>2, <1>4, <3>1, StepMore, Zenon DEF SpellsBy
    <3>2. CASE x = s /\ q = ann
      <4>1. ann \in G[u]
        BY <1>1, <1>2, <1>4
      <4> QED BY <1>1, <1>3, <3>2, <4>1, Zenon DEF SpellsStep
    <3> QED BY <1>4, <3>1, <3>2
  <2> QED BY <2>1, Zenon DEF SpellsBy
<1> QED BY <1>1, <1>3, <1>4, <1>5, <1>6, Zenon DEF Spells

\* A record in front announces its item.
LEMMA SpellsSend ==
  ASSUME NEW u, NEW ann, Spells(u, ann), NEW i \in Items, NEW v \in {"fetched", "blank"}
  PROVE  Spells(<< Send(i, v) >> \o u, << i >> \o ann)
<1>1. u \in Seq(Statements) /\ ann \in Seq(Items)
  BY DEF Spells
<1>2. PICK F \in [Seq(Statements) -> SUBSET Seq(Items)] : ann \in F[u] /\ SpellsBy(F)
  BY DEF Spells
<1>3. PICK s \in Seq(Statements) : s = << Send(i, v) >> \o u
  <2>1. PICK e \in Statements : e = Send(i, v)
    BY StatementFacts
  <2>2. << e >> \o u \in Seq(Statements)
    BY <1>1
  <2> QED BY <2>1, <2>2
<1>4. PICK z \in Seq(Items) : z = << i >> \o ann
  <2>1. << i >> \o ann \in Seq(Items)
    BY <1>1
  <2> QED BY <2>1
<1> DEFINE G == [x \in Seq(Statements) |-> F[x] \cup {q \in {z} : x = s}]
<1>5. \A x \in Seq(Statements) : \A q : q \in G[x] <=> q \in F[x] \/ (x = s /\ q = z)
  OBVIOUS
<1>6. G \in [Seq(Statements) -> SUBSET Seq(Items)]
  BY <1>4
<1> HIDE DEF G
<1>7. SpellsBy(G)
  <2>1. ASSUME NEW x \in Seq(Statements), NEW q \in G[x] PROVE SpellsStep(G, x, q)
    <3>1. CASE q \in F[x]
      BY <1>2, <1>5, <3>1, StepMore, Zenon DEF SpellsBy
    <3>2. CASE x = s /\ q = z
      <4>1. ann \in G[u]
        BY <1>1, <1>2, <1>5
      <4> QED BY <1>1, <1>3, <1>4, <3>2, <4>1, Zenon DEF SpellsStep
    <3> QED BY <1>5, <3>1, <3>2
  <2> QED BY <2>1, Zenon DEF SpellsBy
<1> QED BY <1>3, <1>4, <1>5, <1>6, <1>7, Zenon DEF Spells

\* Sequences are put together from the left as from the right.
Regroups(a, b, d) == (a \o b) \o d = a \o (b \o d)
LEMMA Reassociated == \A S : \A a, b, d \in Seq(S) : Regroups(a, b, d)
BY ConcatAssociative DEF Regroups

\* What is announced one after the other.
LEMMA SpellsConcat ==
  ASSUME NEW s, NEW ann, NEW t, NEW q, Spells(s, ann), Spells(t, q)
  PROVE  Spells(s \o t, ann \o q)
<1>1. PICK F \in [Seq(Statements) -> SUBSET Seq(Items)] : ann \in F[s] /\ SpellsBy(F)
  BY DEF Spells
<1>2. PICK G \in [Seq(Statements) -> SUBSET Seq(Items)] : q \in G[t] /\ SpellsBy(G)
  BY DEF Spells
<1>3. t \in Seq(Statements) /\ q \in Seq(Items) /\ s \in Seq(Statements) /\ ann \in Seq(Items)
  BY DEF Spells
<1> DEFINE Both(x, y) == \E u \in Seq(Statements), r \in Seq(Items) : x = u \o t /\ y = r \o q /\ r \in F[u]
           K == [x \in Seq(Statements) |-> {y \in Seq(Items) : y \in G[x] \/ Both(x, y)}]
<1>4. K \in [Seq(Statements) -> SUBSET Seq(Items)]
  OBVIOUS
<1>5. \A x \in Seq(Statements), y \in Seq(Items) : y \in K[x] <=> y \in G[x] \/ Both(x, y)
  OBVIOUS
<1>6. \A x \in Seq(Statements) : \A y \in K[x] : y \in Seq(Items)
  OBVIOUS
<1> HIDE DEF K
<1>7. ASSUME NEW u \in Seq(Statements), NEW r \in Seq(Items), r \in F[u]
      PROVE  /\ u \o t \in Seq(Statements) /\ r \o q \in Seq(Items) /\ r \o q \in K[u \o t]
  <2>1. u \o t \in Seq(Statements) /\ r \o q \in Seq(Items)
    BY <1>3
  <2> QED BY <1>5, <1>7, <2>1, Zenon
<1>8. ASSUME NEW x \in Seq(Statements), NEW y \in K[x] PROVE SpellsStep(K, x, y)
  <2>1. ASSUME y \in G[x] PROVE SpellsStep(K, x, y)
    <3>1. \A u \in Seq(Statements) : \A z \in G[u] : z \in K[u]
      <4>1. \A u \in Seq(Statements) : \A z \in G[u] : z \in Seq(Items)
        OBVIOUS
      <4> QED BY <1>5, <4>1, Zenon
    <3>2. SpellsStep(G, x, y)
      BY <1>2, <2>1, Zenon DEF SpellsBy
    <3> QED BY <3>1, <3>2, StepMore, Zenon
  <2>2. ASSUME NEW u0 \in Seq(Statements), NEW r0 \in Seq(Items), x = u0 \o t, y = r0 \o q, r0 \in F[u0]
        PROVE  SpellsStep(K, x, y)
    <3>1. SpellsStep(F, u0, r0)
      BY <1>1, <2>2, Zenon DEF SpellsBy
    <3>2. CASE u0 = <<>> /\ r0 = <<>>
      <4>1. u0 \o t = t /\ r0 \o q = q
        BY <1>3, <3>2
      <4> QED BY <1>2, <2>1, <2>2, <4>1
    <3>3. ASSUME NEW u \in Seq(Statements), u0 = << Stmt("err") >> \o u, r0 \in F[u]
          PROVE  SpellsStep(K, x, y)
      <4>1. << Stmt("err") >> \in Seq(Statements)
        <5>1. PICK e \in Statements : e = Stmt("err")
          BY StatementFacts DEF Ops, ArmOps
        <5> QED BY <5>1
      <4>2. Regroups(<< Stmt("err") >>, u, t)
        BY <1>3, <4>1, Reassociated, Zenon
      <4>3. x = << Stmt("err") >> \o (u \o t) /\ y \in K[u \o t] /\ u \o t \in Seq(Statements)
        BY <1>7, <2>2, <3>3, <4>2, Zenon DEF Regroups
      <4> QED BY <4>3, Zenon DEF SpellsStep
    <3>4. ASSUME NEW u \in Seq(Statements), NEW r \in Seq(Items), NEW i \in Items, NEW v \in {"fetched", "blank"},
                 u0 = << Send(i, v) >> \o u, r0 = << i >> \o r, r \in F[u]
          PROVE  SpellsStep(K, x, y)
      <4>1. << Send(i, v) >> \in Seq(Statements) /\ << i >> \in Seq(Items)
        <5>1. PICK e \in Statements : e = Send(i, v)
          BY StatementFacts
        <5> QED BY <5>1
      <4>2. Regroups(<< Send(i, v) >>, u, t)
        BY <1>3, <4>1, Reassociated, Zenon
      <4>3. Regroups(<< i >>, r, q)
        BY <1>3, <4>1, Reassociated, Zenon
      <4>4. /\ x = << Send(i, v) >> \o (u \o t) /\ y = << i >> \o (r \o q)
            /\ r \o q \in K[u \o t] /\ u \o t \in Seq(Statements) /\ r \o q \in Seq(Items)
        BY <1>7, <2>2, <3>4, <4>2, <4>3, Zenon DEF Regroups
      <4> QED BY <4>4, Zenon DEF SpellsStep
    <3> QED BY <3>1, <3>2, <3>3, <3>4, Zenon DEF SpellsStep
  <2>3. y \in G[x] \/ Both(x, y)
    BY <1>5, <1>6, Zenon
  <2> QED BY <2>1, <2>2, <2>3, Zenon
<1>9. SpellsBy(K)
  BY <1>8, Zenon DEF SpellsBy
<1>10. s \o t \in Seq(Statements) /\ ann \o q \in Seq(Items) /\ ann \o q \in K[s \o t]
  BY <1>1, <1>3, <1>7
<1> QED BY <1>4, <1>9, <1>10, Zenon DEF Spells

-----------------------------------------------------------------------------
\* How what is planned begins.
LEMMA PlanCases ==
  ASSUME NEW s, NEW a, NEW b, Plan(s, a, b)
  PROVE  /\ s \in Seq(Statements) /\ a \in Nat
         /\ \/ s = <<>> /\ a = b
            \/ \E u \in Seq(Statements) : s = << Stmt("group") >> \o u /\ Plan(u, a, b)
            \/ \E u \in Seq(Statements), l \in Nat :
                 /\ a < l /\ l - a <= AppMapSize
                 /\ s = Block(a, l) \o u /\ Plan(u, l, b)
<1>1. s \in Seq(Statements) /\ a \in Nat
  BY DEF Plan
<1>2. PICK F \in [Seq(Statements) -> SUBSET Nat] : a \in F[s] /\ PlanBy(F, b)
  BY DEF Plan
<1>3. ASSUME NEW u \in Seq(Statements), NEW l, l \in F[u] PROVE Plan(u, l, b)
  <2>1. l \in Nat
    BY <1>3
  <2> QED BY <1>2, <1>3, <2>1, Zenon DEF Plan
<1>4. \/ s = <<>> /\ a = b
      \/ \E u \in Seq(Statements) : s = << Stmt("group") >> \o u /\ a \in F[u]
      \/ \E u \in Seq(Statements), l \in Nat :
           /\ a < l /\ l - a <= AppMapSize
           /\ s = Block(a, l) \o u /\ l \in F[u]
  BY <1>1, <1>2, Zenon DEF PlanBy, PlanStep
<1> QED BY <1>1, <1>3, <1>4, Zenon

\* Nothing is a plan of nothing.
LEMMA PlanNone == ASSUME NEW b \in Nat PROVE Plan(<<>>, b, b)
<1> DEFINE F == [s \in Seq(Statements) |-> IF s = <<>> THEN {b} ELSE {}]
<1>1. <<>> \in Seq(Statements)
  OBVIOUS
<1>2. \A s \in Seq(Statements) : \A a : a \in F[s] <=> s = <<>> /\ a = b
  OBVIOUS
<1>3. F \in [Seq(Statements) -> SUBSET Nat]
  OBVIOUS
<1> HIDE DEF F
<1>4. PlanBy(F, b)
  BY <1>2, Zenon DEF PlanBy, PlanStep
<1> QED BY <1>1, <1>2, <1>3, <1>4, Zenon DEF Plan

\* A group, or a map, in front.
LEMMA PlanGroup == ASSUME NEW u, NEW a, NEW b, Plan(u, a, b) PROVE Plan(<< Stmt("group") >> \o u, a, b)
<1>1. u \in Seq(Statements) /\ a \in Nat
  BY DEF Plan
<1>2. PICK F \in [Seq(Statements) -> SUBSET Nat] : a \in F[u] /\ PlanBy(F, b)
  BY DEF Plan
<1>3. PICK s \in Seq(Statements) : s = << Stmt("group") >> \o u
  <2>1. PICK e \in Statements : e = Stmt("group")
    BY StatementFacts DEF Ops
  <2>2. << e >> \o u \in Seq(Statements)
    BY <1>1
  <2> QED BY <2>1, <2>2
<1> DEFINE G == [x \in Seq(Statements) |-> F[x] \cup {q \in {a} : x = s}]
<1>4. \A x \in Seq(Statements) : \A q : q \in G[x] <=> q \in F[x] \/ (x = s /\ q = a)
  OBVIOUS
<1>5. G \in [Seq(Statements) -> SUBSET Nat]
  BY <1>1
<1> HIDE DEF G
<1>6. PlanBy(G, b)
  <2>1. ASSUME NEW x \in Seq(Statements), NEW q \in G[x] PROVE PlanStep(G, b, x, q)
    <3>1. CASE q \in F[x]
      BY <1>2, <1>4, <3>1, StepMore, Zenon DEF PlanBy
    <3>2. CASE x = s /\ q = a
      <4>1. a \in G[u]
        BY <1>1, <1>2, <1>4
      <4> QED BY <1>1, <1>3, <3>2, <4>1, Zenon DEF PlanStep
    <3> QED BY <1>4, <3>1, <3>2
  <2> QED BY <2>1, Zenon DEF PlanBy
<1> QED BY <1>1, <1>3, <1>4, <1>5, <1>6, Zenon DEF Plan

\* The statements of a map are known ones.
LEMMA BlockIs ==
  ASSUME NEW a \in Nat, NEW l \in Nat, l <= NItems
  PROVE  /\ Mapping(a, l) \in Statements /\ Stmt("check") \in Statements
         /\ Stmt("drain") \in Statements /\ Stmt("collect") \in Statements
         /\ Block(a, l) \in Seq(Statements)
<1>1. a + 1 .. l \in SUBSET Items
  BY StreamAssumption DEF Items
<1>2. Mapping(a, l) \in Statements
  BY <1>1, StatementFacts DEF Mapping
<1>3. Stmt("check") \in Statements /\ Stmt("drain") \in Statements /\ Stmt("collect") \in Statements
  BY StatementFacts DEF Ops
<1>4. PICK w, x, y, z \in Statements :
        w = Stmt("check") /\ x = Mapping(a, l) /\ y = Stmt("drain") /\ z = Stmt("collect")
  BY <1>2, <1>3
<1>5. << w, x, y, z >> \in Seq(Statements)
  OBVIOUS
<1>6. Block(a, l) \in Seq(Statements)
  BY <1>4, <1>5, Zenon DEF Block
<1> QED BY <1>2, <1>3, <1>6

\* The statements of a map take the items up to its last one.
LEMMA PlanBlock ==
  ASSUME NEW u, NEW a \in Nat, NEW l, NEW b, Plan(u, l, b), a < l, l - a <= AppMapSize, l <= NItems
  PROVE  Plan(Block(a, l) \o u, a, b)
<1>1. u \in Seq(Statements) /\ l \in Nat
  BY DEF Plan
<1>2. PICK F \in [Seq(Statements) -> SUBSET Nat] : l \in F[u] /\ PlanBy(F, b)
  BY DEF Plan
<1>3. PICK s \in Seq(Statements) : s = Block(a, l) \o u
  <2>1. Block(a, l) \in Seq(Statements)
    BY <1>1, BlockIs
  <2>2. PICK k \in Seq(Statements) : k = Block(a, l)
    BY <2>1
  <2>3. k \o u \in Seq(Statements)
    BY <1>1
  <2> QED BY <2>2, <2>3
<1> DEFINE G == [x \in Seq(Statements) |-> F[x] \cup {q \in {a} : x = s}]
<1>4. \A x \in Seq(Statements) : \A q : q \in G[x] <=> q \in F[x] \/ (x = s /\ q = a)
  OBVIOUS
<1>5. G \in [Seq(Statements) -> SUBSET Nat]
  BY <1>1
<1> HIDE DEF G
<1>6. PlanBy(G, b)
  <2>1. ASSUME NEW x \in Seq(Statements), NEW q \in G[x] PROVE PlanStep(G, b, x, q)
    <3>1. CASE q \in F[x]
      BY <1>2, <1>4, <3>1, StepMore, Zenon DEF PlanBy
    <3>2. CASE x = s /\ q = a
      <4>1. l \in G[u]
        BY <1>1, <1>2, <1>4
      <4> QED BY <1>1, <1>3, <3>2, <4>1, Zenon DEF PlanStep
    <3> QED BY <1>4, <3>1, <3>2
  <2> QED BY <2>1, Zenon DEF PlanBy
<1> QED BY <1>3, <1>4, <1>5, <1>6, Zenon DEF Plan

\* Plans one after the other.
LEMMA PlanConcat ==
  ASSUME NEW s, NEW a, NEW b, NEW t, NEW c, Plan(s, a, b), Plan(t, b, c)
  PROVE  Plan(s \o t, a, c)
<1>1. PICK F \in [Seq(Statements) -> SUBSET Nat] : a \in F[s] /\ PlanBy(F, b)
  BY DEF Plan
<1>2. PICK G \in [Seq(Statements) -> SUBSET Nat] : b \in G[t] /\ PlanBy(G, c)
  BY DEF Plan
<1>3. t \in Seq(Statements) /\ s \in Seq(Statements) /\ a \in Nat /\ b \in Nat
  BY DEF Plan
<1> DEFINE Both(x, k) == \E u \in Seq(Statements) : x = u \o t /\ k \in F[u]
           K == [x \in Seq(Statements) |-> {k \in Nat : k \in G[x] \/ Both(x, k)}]
<1>4. K \in [Seq(Statements) -> SUBSET Nat]
  OBVIOUS
<1>5. \A x \in Seq(Statements), k \in Nat : k \in K[x] <=> k \in G[x] \/ Both(x, k)
  OBVIOUS
<1>6. \A x \in Seq(Statements) : \A k \in K[x] : k \in Nat
  OBVIOUS
<1> HIDE DEF K
<1>7. ASSUME NEW u \in Seq(Statements), NEW k, k \in F[u]
      PROVE  u \o t \in Seq(Statements) /\ k \in K[u \o t]
  <2>1. u \o t \in Seq(Statements) /\ k \in Nat
    BY <1>3, <1>7
  <2> QED BY <1>5, <1>7, <2>1, Zenon
<1>8. ASSUME NEW x \in Seq(Statements), NEW k \in K[x] PROVE PlanStep(K, c, x, k)
  <2>1. ASSUME k \in G[x] PROVE PlanStep(K, c, x, k)
    <3>1. \A u \in Seq(Statements) : \A z \in G[u] : z \in K[u]
      <4>1. \A u \in Seq(Statements) : \A z \in G[u] : z \in Nat
        OBVIOUS
      <4> QED BY <1>5, <4>1, Zenon
    <3>2. PlanStep(G, c, x, k)
      BY <1>2, <2>1, Zenon DEF PlanBy
    <3> QED BY <3>1, <3>2, StepMore, Zenon
  <2>2. ASSUME NEW u0 \in Seq(Statements), x = u0 \o t, k \in F[u0]
        PROVE  PlanStep(K, c, x, k)
    <3>1. PlanStep(F, b, u0, k)
      BY <1>1, <2>2, Zenon DEF PlanBy
    <3>2. CASE u0 = <<>> /\ k = b
      <4>1. u0 \o t = t
        BY <1>3, <3>2
      <4> QED BY <1>2, <2>1, <2>2, <3>2, <4>1
    <3>3. ASSUME NEW u \in Seq(Statements), u0 = << Stmt("group") >> \o u, k \in F[u]
          PROVE  PlanStep(K, c, x, k)
      <4>1. << Stmt("group") >> \in Seq(Statements)
        <5>1. PICK e \in Statements : e = Stmt("group")
          BY StatementFacts DEF Ops
        <5> QED BY <5>1
      <4>2. Regroups(<< Stmt("group") >>, u, t)
        BY <1>3, <4>1, Reassociated, Zenon
      <4>3. x = << Stmt("group") >> \o (u \o t) /\ k \in K[u \o t] /\ u \o t \in Seq(Statements)
        BY <1>7, <2>2, <3>3, <4>2, Zenon DEF Regroups
      <4> QED BY <4>3, Zenon DEF PlanStep
    <3>4. ASSUME NEW u \in Seq(Statements), NEW l \in Nat, k < l, l - k <= AppMapSize,
                 u0 = Block(k, l) \o u, l \in F[u]
          PROVE  PlanStep(K, c, x, k)
      <4>1. (Block(k, l) \o u) \o t = Block(k, l) \o (u \o t)
        <5>1. PICK S : Statements \cup {Mapping(k, l)} = S
          OBVIOUS
        <5>2. u \in Seq(S) /\ t \in Seq(S)
          BY <1>3, <5>1
        <5>3. PICK w, y, z \in S : w = Stmt("check") /\ y = Stmt("drain") /\ z = Stmt("collect")
          BY <5>1, StatementFacts DEF Ops
        <5>4. PICK m \in S : m = Mapping(k, l)
          BY <5>1
        <5>5. << w, m, y, z >> \in Seq(S)
          OBVIOUS
        <5>6. Block(k, l) \in Seq(S)
          BY <5>3, <5>4, <5>5, Zenon DEF Block
        <5>7. PICK d : d = Block(k, l)
          OBVIOUS
        <5>8. Regroups(d, u, t)
          BY <5>2, <5>6, <5>7, Reassociated, Zenon
        <5> QED BY <5>7, <5>8, Zenon DEF Regroups
      <4>3. x = Block(k, l) \o (u \o t) /\ l \in K[u \o t] /\ u \o t \in Seq(Statements)
        BY <1>7, <2>2, <3>4, <4>1, Zenon
      <4> QED BY <3>4, <4>3, Zenon DEF PlanStep
    <3> QED BY <3>1, <3>2, <3>3, <3>4, Zenon DEF PlanStep
  <2>3. k \in G[x] \/ Both(x, k)
    BY <1>5, <1>6, Zenon
  <2> QED BY <2>1, <2>2, <2>3, Zenon
<1>9. PlanBy(K, c)
  BY <1>8, Zenon DEF PlanBy
<1>10. s \o t \in Seq(Statements) /\ a \in K[s \o t]
  BY <1>1, <1>3, <1>7
<1> QED BY <1>3, <1>4, <1>9, <1>10, Zenon DEF Plan

-----------------------------------------------------------------------------
(* What fetchData plans *)

\* A multiple of a number is at least the one before it and the number.
LEMMA Times ==
  ASSUME NEW A \in Nat, A # 0, NEW ql \in Nat, NEW q \in Nat, ql < q
  PROVE  ql * A + A <= q * A
<1>1. PICK d \in Nat : q = ql + 1 + d
  <2>1. q - ql - 1 \in Nat /\ q = ql + 1 + (q - ql - 1)
    OBVIOUS
  <2> QED BY <2>1
<1>2. q * A = ql * A + A + d * A
  BY <1>1
<1>3. d * A \in Nat /\ ql * A \in Nat
  OBVIOUS
<1> QED BY <1>2, <1>3

\* The quotient of two numbers.
LEMMA DivIs ==
  ASSUME NEW A \in Nat, A # 0, NEW x \in Nat
  PROVE  /\ x \div A \in Nat /\ (x \div A) * A <= x /\ x < (x \div A) * A + A
         /\ \A q \in Nat : q * A <= x /\ x < q * A + A => x \div A = q
<1>1. x \div A \in Nat /\ (x \div A) * A <= x /\ x < (x \div A) * A + A
  OBVIOUS
<1>2. ASSUME NEW q \in Nat, q * A <= x, x < q * A + A PROVE x \div A = q
  <2>1. PICK ql \in Nat : ql = x \div A /\ ql * A <= x /\ x < ql * A + A
    BY <1>1
  <2>2. ~ (ql < q) /\ ~ (q < ql)
    <3>1. ql < q => ql * A + A <= q * A
      BY Times
    <3>2. q < ql => q * A + A <= ql * A
      BY Times
    <3>3. ql * A \in Nat /\ q * A \in Nat
      OBVIOUS
    <3> QED BY <1>2, <2>1, <3>1, <3>2, <3>3
  <2> QED BY <2>1, <2>2
<1> QED BY <1>1, <1>2

\* How far the first k maps of L items reach.
Reach(L, k) == IF k * AppMapSize <= L THEN k * AppMapSize ELSE L
LEMMA ReachIs ==
  ASSUME NEW L \in Nat, NEW n, n = (L + AppMapSize - 1) \div AppMapSize
  PROVE  /\ n \in Nat /\ Reach(L, 0) = 0 /\ Reach(L, n) = L
         /\ \A k \in 1 .. n : /\ Reach(L, k - 1) \in Nat /\ Reach(L, k) \in Nat
                              /\ Reach(L, k - 1) < Reach(L, k)
                              /\ Reach(L, k) - Reach(L, k - 1) <= AppMapSize /\ Reach(L, k) <= L
                              /\ \A j \in 1 .. L : (j - 1) \div AppMapSize = k - 1
                                                     <=> j \in Reach(L, k - 1) + 1 .. Reach(L, k)
<1> DEFINE A == AppMapSize
<1>1. A \in Nat /\ A # 0 /\ L + A - 1 \in Nat
  BY StreamAssumption
<1> HIDE DEF A
<1>2. PICK nA \in Nat : nA = n * A /\ n \in Nat /\ nA <= L + A - 1 /\ L + A - 1 < nA + A
  <2>1. PICK x \in Nat : x = L + A - 1
    BY <1>1
  <2>2. x \div A \in Nat /\ (x \div A) * A <= x /\ x < (x \div A) * A + A
    BY <1>1, DivIs
  <2>3. n = x \div A
    BY <2>1 DEF A
  <2>4. n * A \in Nat
    BY <1>1, <2>2, <2>3
  <2> QED BY <2>1, <2>2, <2>3, <2>4
<1>3. Reach(L, n) = L
  BY <1>1, <1>2 DEF Reach, A
<1>4. Reach(L, 0) = 0
  BY <1>1 DEF Reach, A
<1>5. ASSUME NEW k \in 1 .. n
      PROVE  /\ Reach(L, k - 1) \in Nat /\ Reach(L, k) \in Nat /\ Reach(L, k - 1) < Reach(L, k)
             /\ Reach(L, k) - Reach(L, k - 1) <= A /\ Reach(L, k) <= L
             /\ \A j \in 1 .. L : (j - 1) \div A = k - 1 <=> j \in Reach(L, k - 1) + 1 .. Reach(L, k)
  <2>1. PICK ql \in Nat : ql = k - 1 /\ k = ql + 1 /\ ql < n
    <3>1. k - 1 \in Nat /\ k = (k - 1) + 1 /\ k - 1 < n
      BY <1>2
    <3> QED BY <3>1
  <2>2. PICK pA \in Nat : pA = ql * A
    <3>1. ql * A \in Nat
      BY <1>1
    <3> QED BY <3>1
  <2>3. k * A = pA + A
    BY <1>1, <2>1, <2>2
  <2>4. pA + A <= nA
    BY <1>1, <1>2, <2>1, <2>2, Times
  <2>5. pA < L
    BY <1>1, <1>2, <2>4
  <2>6. Reach(L, ql) = pA /\ Reach(L, k) = IF pA + A <= L THEN pA + A ELSE L
    BY <1>1, <2>2, <2>3, <2>5 DEF Reach, A
  <2>7. ASSUME NEW j \in 1 .. L PROVE (j - 1) \div A = ql <=> j \in pA + 1 .. Reach(L, k)
    <3>1. PICK x \in Nat : x = j - 1
      OBVIOUS
    <3>2. x \div A \in Nat /\ (x \div A) * A <= x /\ x < (x \div A) * A + A
      BY <1>1, DivIs
    <3>3. ql * A <= x /\ x < ql * A + A => x \div A = ql
      BY <1>1, DivIs
    <3>4. x \div A = ql <=> pA <= x /\ x < pA + A
      BY <2>2, <3>2, <3>3
    <3>5. pA <= x /\ x < pA + A <=> j \in pA + 1 .. Reach(L, k)
      BY <1>1, <2>6, <3>1
    <3> QED BY <3>1, <3>4, <3>5
  <2>8. Reach(L, k - 1) = pA
    BY <2>1, <2>6
  <2> QED BY <1>1, <2>1, <2>5, <2>6, <2>7, <2>8
<1> QED BY <1>2, <1>3, <1>4, <1>5 DEF A

\* The items behind a up to b, in their order.
From1(is, a, b) ==
    /\ is \in Seq(Items) /\ a \in Nat /\ b \in Nat /\ a <= b /\ b <= NItems /\ Len(is) = b - a
    /\ \A j \in 1 .. b - a : is[j] = a + j

\* Each map of AsSliceOfMaps has the next items.
LEMMA MapsAre ==
  ASSUME NEW is, NEW a, NEW b, From1(is, a, b), NEW n, n = (b - a + AppMapSize - 1) \div AppMapSize
  PROVE  /\ n \in Nat /\ DOMAIN AsSliceOfMaps(is) = 1 .. n
         /\ \A k \in 1 .. n : AsSliceOfMaps(is)[k] = a + Reach(b - a, k - 1) + 1 .. a + Reach(b - a, k)
<1>1. /\ is \in Seq(Items) /\ a \in Nat /\ b \in Nat /\ a <= b /\ Len(is) = b - a
      /\ \A j \in 1 .. b - a : is[j] = a + j
  BY DEF From1
<1>2. PICK L \in Nat : L = b - a
  BY <1>1
<1>3. DOMAIN is = 1 .. L /\ Len(is) = L
  BY <1>1, <1>2
<1>4. AsSliceOfMaps(is) = [k \in 1 .. n |-> {is[j] : j \in {j \in 1 .. L : (j - 1) \div AppMapSize = k - 1}}]
  BY <1>2, <1>3, Zenon DEF AsSliceOfMaps
<1>5. ASSUME NEW k \in 1 .. n
      PROVE  {is[j] : j \in {j \in 1 .. L : (j - 1) \div AppMapSize = k - 1}}
               = a + Reach(L, k - 1) + 1 .. a + Reach(L, k)
  <2>1. PICK x, y \in Nat : /\ x = Reach(L, k - 1) /\ y = Reach(L, k) /\ x < y /\ y <= L
                            /\ \A j \in 1 .. L : (j - 1) \div AppMapSize = k - 1 <=> j \in x + 1 .. y
    <3>1. n = (L + AppMapSize - 1) \div AppMapSize
      BY <1>2
    <3>2. /\ Reach(L, k - 1) \in Nat /\ Reach(L, k) \in Nat
          /\ Reach(L, k - 1) < Reach(L, k) /\ Reach(L, k) <= L
          /\ \A j \in 1 .. L : (j - 1) \div AppMapSize = k - 1
                                 <=> j \in Reach(L, k - 1) + 1 .. Reach(L, k)
      BY <3>1, ReachIs
    <3> QED BY <3>2
  <2>2. {j \in 1 .. L : (j - 1) \div AppMapSize = k - 1} = x + 1 .. y
    <3>1. \A j \in x + 1 .. y : j \in 1 .. L
      BY <2>1
    <3> DEFINE Here(j) == (j - 1) \div AppMapSize = k - 1
    <3>2. \A j \in 1 .. L : Here(j) <=> j \in x + 1 .. y
      BY <2>1
    <3> HIDE DEF Here
    <3>3. {j \in 1 .. L : Here(j)} = x + 1 .. y
      BY <3>1, <3>2
    <3> QED BY <3>3 DEF Here
  <2>3. {is[j] : j \in x + 1 .. y} = a + x + 1 .. a + y
    <3>0. x \in Nat /\ y \in Nat /\ y <= L
      BY <2>1
    <3>1. \A j \in x + 1 .. y : is[j] = a + j
      BY <1>1, <1>2, <3>0
    <3>2. ASSUME NEW i \in a + x + 1 .. a + y PROVE \E j \in x + 1 .. y : is[j] = i
      <4>1. i - a \in x + 1 .. y /\ i = a + (i - a)
        BY <1>1
      <4>2. is[i - a] = i
        BY <3>1, <4>1
      <4> QED BY <4>1, <4>2
    <3>3. \A j \in x + 1 .. y : a + j \in a + x + 1 .. a + y
      BY <1>1
    <3> QED BY <3>1, <3>2, <3>3
  <2> QED BY <2>1, <2>2, <2>3
<1>6. n \in Nat
  BY <1>2, ReachIs
<1> QED BY <1>2, <1>4, <1>5, <1>6

\* The batches of a group are a plan of its items.
LEMMA BatchesPlan ==
  ASSUME NEW is, NEW a, NEW b, From1(is, a, b)
  PROVE  Plan(Batches(is), a, b)
<1>1. is \in Seq(Items) /\ a \in Nat /\ b \in Nat /\ a <= b /\ b <= NItems /\ NItems \in Nat /\ AppMapSize \in Nat
  BY StreamAssumption DEF From1
<1>2. PICK L \in Nat : L = b - a
  BY <1>1
<1>3. PICK n \in Nat : n = (b - a + AppMapSize - 1) \div AppMapSize
  BY MapsAre
<1> DEFINE end(k) == a + Reach(L, k)
<1>4. /\ Reach(L, 0) = 0 /\ Reach(L, n) = L
      /\ \A k \in 1 .. n : /\ end(k - 1) \in Nat /\ end(k) \in Nat /\ end(k - 1) < end(k)
                           /\ end(k) - end(k - 1) <= AppMapSize /\ end(k) <= NItems
  <2>1. /\ Reach(L, 0) = 0 /\ Reach(L, n) = L
        /\ \A k \in 1 .. n : /\ Reach(L, k - 1) \in Nat /\ Reach(L, k) \in Nat
                             /\ Reach(L, k - 1) < Reach(L, k)
                             /\ Reach(L, k) - Reach(L, k - 1) <= AppMapSize /\ Reach(L, k) <= L
    BY <1>2, <1>3, ReachIs
  <2> QED BY <1>1, <1>2, <2>1
<1>5. end(0) = a /\ end(n) = b
  BY <1>1, <1>2, <1>4
<1> DEFINE maps == AsSliceOfMaps(is)
           seqs == [k \in DOMAIN maps |-> << Stmt("check"), [op |-> "iterate", keys |-> maps[k]],
                                             Stmt("drain"), Stmt("collect") >>]
<1>6. DOMAIN maps = 1 .. n /\ \A k \in 1 .. n : maps[k] = end(k - 1) + 1 .. end(k)
  BY <1>2, <1>3, MapsAre
<1> HIDE DEF maps, end
<1>7. seqs = [k \in 1 .. n |-> seqs[k]] /\ \A k \in 1 .. n : seqs[k] = Block(end(k - 1), end(k))
  BY <1>6, Zenon DEF Block, Mapping
<1>8. Batches(is) = FlattenSeq(seqs)
  BY DEF Batches, maps
<1> HIDE DEF seqs
<1>9. \A k \in 1 .. n : seqs[k] \in Seq(Statements)
  BY <1>4, <1>7, BlockIs
<1>10. seqs \in [1 .. n -> Seq(Statements)]
  BY <1>7, <1>9
<1> DEFINE D == [k \in 0 .. n |-> {s \in Seq(Statements) : Plan(s, a, end(k))}]
<1>11. <<>> \in D[0]
  <2>1. Plan(<<>>, a, end(0)) /\ 0 \in 0 .. n
    BY <1>1, <1>5, PlanNone
  <2>2. <<>> \in Seq(Statements)
    OBVIOUS
  <2> QED BY <2>1, <2>2
<1>12. ASSUME NEW k \in 1 .. n, NEW s \in D[k - 1] PROVE s \o seqs[k] \in D[k]
  <2>1. k - 1 \in 0 .. n /\ k \in 0 .. n
    OBVIOUS
  <2>2. s \in Seq(Statements) /\ Plan(s, a, end(k - 1))
    BY <2>1
  <2>3. Plan(seqs[k], end(k - 1), end(k))
    <3>1. PICK x, y \in Nat : x = end(k - 1) /\ y = end(k) /\ x < y /\ y - x <= AppMapSize /\ y <= NItems
      BY <1>4
    <3>2. Plan(<<>>, y, y)
      BY PlanNone
    <3>3. Plan(Block(x, y) \o <<>>, x, y)
      BY <3>1, <3>2, PlanBlock
    <3>4. Block(x, y) \o <<>> = Block(x, y)
      <4>1. PICK d \in Seq(Statements) : d = Block(x, y)
        BY <3>1, BlockIs
      <4>2. d \o <<>> = d
        OBVIOUS
      <4> QED BY <4>1, <4>2
    <3> QED BY <1>7, <3>1, <3>3, <3>4
  <2>4. Plan(s \o seqs[k], a, end(k))
    BY <2>2, <2>3, PlanConcat
  <2>5. s \o seqs[k] \in Seq(Statements)
    BY <2>4 DEF Plan
  <2> QED BY <2>1, <2>4, <2>5
<1>13. FlattenSeq(seqs) \in D[n]
  <2> HIDE DEF D
  <2> QED BY <1>10, <1>11, <1>12, FlattenUp
<1>14. Plan(FlattenSeq(seqs), a, end(n))
  BY <1>13
<1> QED BY <1>5, <1>8, <1>14

\* Statements with none of a kind, and statements that will come to one of a kind.
Without(op) == {s \in Seq(Statements) : \A k \in DOMAIN s : s[k].op # op}
Will(s, op) == \E k \in DOMAIN s : s[k].op = op /\ \A j \in 1 .. k - 1 : s[j].op # "return"

\* Both of statements one after the other.
LEMMA ParallelIs ==
  ASSUME NEW S, NEW s \in Seq(S), NEW t \in Seq(S)
  PROVE  /\ s \o t \in Seq(S) /\ Len(s \o t) = Len(s) + Len(t)
         /\ \A k \in DOMAIN s : k \in DOMAIN (s \o t) /\ (s \o t)[k] = s[k]
         /\ \A k \in DOMAIN t : Len(s) + k \in DOMAIN (s \o t) /\ (s \o t)[Len(s) + k] = t[k]
         /\ \A k \in DOMAIN (s \o t) : k \in DOMAIN s \/ \E j \in DOMAIN t : k = Len(s) + j
<1>1. s \o t \in Seq(S) /\ Len(s \o t) = Len(s) + Len(t) /\ Len(s) \in Nat /\ Len(t) \in Nat
  OBVIOUS
<1>2. \A k \in DOMAIN s : k \in DOMAIN (s \o t) /\ (s \o t)[k] = s[k]
  OBVIOUS
<1>3. \A k \in DOMAIN t : Len(s) + k \in DOMAIN (s \o t) /\ (s \o t)[Len(s) + k] = t[k]
  OBVIOUS
<1>4. ASSUME NEW k \in DOMAIN (s \o t), k \notin DOMAIN s PROVE \E j \in DOMAIN t : k = Len(s) + j
  <2>1. k \in 1 .. Len(s) + Len(t) /\ k \notin 1 .. Len(s)
    BY <1>1, <1>4
  <2>2. k - Len(s) \in 1 .. Len(t) /\ k = Len(s) + (k - Len(s))
    BY <1>1, <2>1
  <2>3. DOMAIN t = 1 .. Len(t)
    OBVIOUS
  <2> QED BY <2>2, <2>3
<1> QED BY <1>1, <1>2, <1>3, <1>4

\* What is in neither of two is in neither of them put together.
LEMMA WithoutConcat ==
  ASSUME NEW op
  PROVE  <<>> \in Without(op) /\ \A s, t \in Without(op) : s \o t \in Without(op)
<1>1. <<>> \in Without(op)
  BY DEF Without
<1>2. ASSUME NEW s \in Without(op), NEW t \in Without(op) PROVE s \o t \in Without(op)
  <2>1. s \in Seq(Statements) /\ t \in Seq(Statements)
    BY DEF Without
  <2>2. /\ s \o t \in Seq(Statements)
        /\ \A k \in DOMAIN s : (s \o t)[k] = s[k]
        /\ \A k \in DOMAIN t : (s \o t)[Len(s) + k] = t[k]
        /\ \A k \in DOMAIN (s \o t) : k \in DOMAIN s \/ \E j \in DOMAIN t : k = Len(s) + j
    BY <2>1, ParallelIs
  <2>3. /\ \A k \in DOMAIN s : s[k].op # op
        /\ \A k \in DOMAIN t : t[k].op # op
    BY DEF Without
  <2>4. \A k \in DOMAIN (s \o t) : (s \o t)[k].op # op
    BY <2>2, <2>3, Zenon
  <2> QED BY <2>2, <2>4, Zenon DEF Without
<1> QED BY <1>1, <1>2

\* What the first of two comes to, or the second when the first does not return.
LEMMA WillConcat ==
  ASSUME NEW s \in Seq(Statements), NEW t \in Seq(Statements), NEW op
  PROVE  /\ Will(s, op) => Will(s \o t, op)
         /\ s \in Without("return") /\ Will(t, op) => Will(s \o t, op)
<1>1. PICK c : c = s \o t
  OBVIOUS
<1>2. /\ \A k \in DOMAIN s : k \in DOMAIN c /\ c[k] = s[k]
      /\ \A k \in DOMAIN t : Len(s) + k \in DOMAIN c /\ c[Len(s) + k] = t[k]
      /\ \A k \in DOMAIN c : k \in DOMAIN s \/ \E j \in DOMAIN t : k = Len(s) + j
      /\ DOMAIN c = 1 .. Len(s) + Len(t)
  BY <1>1, ParallelIs
<1>3. DOMAIN s = 1 .. Len(s) /\ Len(s) \in Nat /\ DOMAIN t = 1 .. Len(t) /\ Len(t) \in Nat
  OBVIOUS
<1>4. ASSUME Will(s, op) PROVE Will(c, op)
  <2>1. PICK k \in DOMAIN s : s[k].op = op /\ \A j \in 1 .. k - 1 : s[j].op # "return"
    BY <1>4 DEF Will
  <2>2. \A j \in 1 .. k - 1 : j \in DOMAIN s
    BY <1>3
  <2> QED BY <1>2, <2>1, <2>2 DEF Will
<1>5. ASSUME s \in Without("return"), Will(t, op) PROVE Will(c, op)
  <2>1. PICK k \in DOMAIN t : t[k].op = op /\ \A j \in 1 .. k - 1 : t[j].op # "return"
    BY <1>5 DEF Will
  <2>2. Len(s) + k \in DOMAIN c /\ c[Len(s) + k].op = op
    BY <1>2, <2>1
  <2>3. ASSUME NEW j \in 1 .. (Len(s) + k) - 1 PROVE c[j].op # "return"
    <3>1. j \in DOMAIN c
      BY <1>2, <1>3
    <3>2. CASE j \in DOMAIN s
      BY <1>2, <1>5, <3>2 DEF Without
    <3>3. ASSUME NEW i \in DOMAIN t, j = Len(s) + i PROVE c[j].op # "return"
      <4>1. i \in 1 .. k - 1
        BY <1>3, <3>3
      <4> QED BY <1>2, <2>1, <3>3, <4>1
    <3> QED BY <1>2, <3>1, <3>2, <3>3
  <2> QED BY <2>2, <2>3 DEF Will
<1> QED BY <1>1, <1>4, <1>5

\* One or two sequences in a row.
LEMMA FlattenTwo ==
  ASSUME NEW S, NEW a \in Seq(S), NEW b \in Seq(S)
  PROVE  FlattenSeq(<< a >>) = a /\ FlattenSeq(<< a, b >>) = a \o b
<1>1. FlattenSeq(<< a >>) = a
  <2> DEFINE D == [i \in 0 .. 1 |-> IF i = 0 THEN {<<>>} ELSE {a}]
             q == << a >>
  <2>1. q \in [1 .. 1 -> Seq(S)] /\ q[1] = a
    OBVIOUS
  <2>2. D[0] = {<<>>} /\ D[1] = {a}
    OBVIOUS
  <2> HIDE DEF D, q
  <2>3. ASSUME NEW i \in 1 .. 1, NEW x \in D[i - 1] PROVE x \o q[i] \in D[i]
    <3>1. i = 1 /\ i - 1 = 0
      OBVIOUS
    <3>2. x = <<>> /\ q[i] = a
      BY <2>1, <2>2, <3>1
    <3>3. <<>> \o a = a
      OBVIOUS
    <3> QED BY <2>2, <3>1, <3>2, <3>3
  <2>4. FlattenSeq(q) \in D[1]
    BY <2>1, <2>2, <2>3, FlattenUp
  <2> QED BY <2>2, <2>4 DEF q
<1>2. FlattenSeq(<< a, b >>) = a \o b
  <2> DEFINE D == [i \in 0 .. 2 |-> IF i = 0 THEN {<<>>} ELSE IF i = 1 THEN {a} ELSE {a \o b}]
             q == << a, b >>
  <2>1. q \in [1 .. 2 -> Seq(S)] /\ q[1] = a /\ q[2] = b
    OBVIOUS
  <2>2. D[0] = {<<>>} /\ D[1] = {a} /\ D[2] = {a \o b}
    OBVIOUS
  <2> HIDE DEF D, q
  <2>3. ASSUME NEW i \in 1 .. 2, NEW x \in D[i - 1] PROVE x \o q[i] \in D[i]
    <3>1. CASE i = 1
      <4>1. i - 1 = 0
        BY <3>1
      <4>2. x = <<>> /\ q[i] = a
        BY <2>1, <2>2, <3>1, <4>1
      <4>3. <<>> \o a = a
        OBVIOUS
      <4> QED BY <2>2, <3>1, <4>2, <4>3
    <3>2. CASE i = 2
      <4>1. i - 1 = 1
        BY <3>2
      <4>2. x = a /\ q[i] = b
        BY <2>1, <2>2, <3>2, <4>1
      <4> QED BY <2>2, <3>2, <4>2
    <3> QED BY <3>1, <3>2
  <2>4. FlattenSeq(q) \in D[2]
    BY <2>1, <2>2, <2>3, FlattenUp
  <2> QED BY <2>2, <2>4 DEF q
<1> QED BY <1>1, <1>2

\* What an arm says, its statements will do.
LEMMA ArmWill ==
  ASSUME NEW arm \in Seq(ArmOps), NEW op
  PROVE  /\ Arm(arm) \in Seq(Statements) /\ Arm(arm) \in Without("iterate")
         /\ Says(arm, op) => Will(Arm(arm), op)
<1>1. /\ DOMAIN Arm(arm) = DOMAIN arm /\ DOMAIN arm = 1 .. Len(arm) /\ Len(arm) \in Nat
      /\ \A k \in DOMAIN arm : arm[k] \in ArmOps
  BY DEF Arm
<1>2. \A k \in DOMAIN arm : Arm(arm)[k].op = arm[k]
  BY <1>1 DEF Arm, Stmt
<1>3. Arm(arm) \in Seq(Statements)
  BY ArmIs DEF Programs
<1>4. Arm(arm) \in Without("iterate")
  BY <1>1, <1>2, <1>3 DEF Without, ArmOps
<1>5. ASSUME Says(arm, op) PROVE Will(Arm(arm), op)
  <2>1. PICK k \in DOMAIN arm : arm[k] = op /\ \A j \in 1 .. k - 1 : arm[j] # "return"
    BY <1>5 DEF Says
  <2>2. \A j \in 1 .. k - 1 : j \in DOMAIN arm
    BY <1>1
  <2> QED BY <1>1, <1>2, <2>1, <2>2 DEF Will
<1> QED BY <1>3, <1>4, <1>5

\* A single statement.
LEMMA OneWithout ==
  ASSUME NEW t \in Statements, NEW op, t.op # op
  PROVE  << t >> \in Without(op)
<1>1. << t >> \in Seq(Statements) /\ DOMAIN << t >> = {1} /\ << t >>[1] = t
  OBVIOUS
<1> QED BY <1>1 DEF Without

\* What is not batched iterates over nothing.
LEMMA ItemWithout ==
  ASSUME NEW h \in Handlers, NEW i \in Items, NEW ans \in [Items -> Answers]
  PROVE  OneItem(h, i, ans) \in Without("iterate")
<1>1. << Send(i, "fetched") >> \in Without("iterate")
  BY StatementFacts, OneWithout
<1>2. Arm(h.onGarbled) \in Without("iterate") /\ Arm(h.onEmpty) \in Without("iterate")
  BY HandlersAssumption, ArmWill
<1>3. ASSUME NEW arm \in {h.onItem, h.onMissing}
      PROVE  [k \in DOMAIN arm |-> IF arm[k] = "item" THEN Send(i, "blank") ELSE Stmt(arm[k])] \in Without("iterate")
  <2> DEFINE s == [k \in DOMAIN arm |-> IF arm[k] = "item" THEN Send(i, "blank") ELSE Stmt(arm[k])]
  <2>1. s \in Seq(Statements)
    BY HandlersAssumption, BlankArm DEF Programs
  <2>2. arm \in Seq(ArmOps \cup {"item"})
    BY HandlersAssumption
  <2>3. \A k \in DOMAIN arm : s[k].op = arm[k]
    BY StatementFacts DEF Stmt, Send
  <2>4. DOMAIN s = DOMAIN arm /\ \A k \in DOMAIN arm : arm[k] \in ArmOps \cup {"item"}
    BY <2>2
  <2> HIDE DEF s
  <2>5. s \in Without("iterate")
    BY <2>1, <2>3, <2>4 DEF Without, ArmOps
  <2> QED BY <2>5 DEF s
<1>4. Arm(h.onGarbled) \o << Send(i, "fetched") >> \in Without("iterate")
  BY <1>1, <1>2, WithoutConcat
<1> QED BY <1>1, <1>2, <1>3, <1>4, Zenon DEF OneItem

\* What fetches one item after the other iterates over no map, nor does a walk of files.
LEMMA LoopWithout ==
  ASSUME NEW h \in Handlers, NEW is \in Seq(Items), NEW ans \in [Items -> Answers]
  PROVE  /\ FlattenSeq([k \in DOMAIN is |-> OneItem(h, is[k], ans)]) \in Without("iterate")
         /\ WalkFiles(h, is, ans) \in Without("iterate")
<1>1. Len(is) \in Nat /\ DOMAIN is = 1 .. Len(is) /\ \A k \in DOMAIN is : is[k] \in Items
  OBVIOUS
<1>2. << Stmt("visit") >> \in Without("iterate")
  BY StatementFacts, OneWithout DEF Ops
<1>3. << [op |-> "walk", files |-> Len(is)] >> \in Without("iterate")
  <2>1. PICK t \in Statements : t = [op |-> "walk", files |-> Len(is)]
    BY <1>1, StatementFacts
  <2>2. t.op = "walk"
    BY <2>1
  <2> QED BY <2>1, <2>2, OneWithout
<1> DEFINE loop == [k \in DOMAIN is |-> OneItem(h, is[k], ans)]
           walk == [k \in DOMAIN is |-> << Stmt("visit") >> \o OneItem(h, is[k], ans)]
<1>4. loop \in [1 .. Len(is) -> Without("iterate")] /\ walk \in [1 .. Len(is) -> Without("iterate")]
  BY <1>1, <1>2, ItemWithout, WithoutConcat
<1>5. WalkFiles(h, is, ans) =
        << [op |-> "walk", files |-> Len(is)] >> \o FlattenSeq(walk) \o << Stmt("visit") >>
  BY DEF WalkFiles
<1> HIDE DEF loop, walk
<1>6. FlattenSeq(loop) \in Without("iterate") /\ FlattenSeq(walk) \in Without("iterate")
  BY <1>1, <1>4, WithoutConcat, FlattenIn
<1>7. << [op |-> "walk", files |-> Len(is)] >> \o FlattenSeq(walk) \o << Stmt("visit") >> \in Without("iterate")
  BY <1>2, <1>3, <1>6, WithoutConcat
<1> QED BY <1>5, <1>6, <1>7 DEF loop

\* The batches of a group do not return.
LEMMA BatchesWithout == ASSUME NEW is \in Seq(Items) PROVE Batches(is) \in Without("return")
<1> DEFINE maps == AsSliceOfMaps(is)
           n == (Len(is) + AppMapSize - 1) \div AppMapSize
           N == IF n \in Nat THEN n ELSE 0
<1>1. n \in Int
  BY StreamAssumption
<1>2. DOMAIN maps = 1 .. n /\ \A k \in 1 .. n : maps[k] \subseteq Items
  BY DEF AsSliceOfMaps
<1> HIDE DEF maps, n
<1>3. N \in Nat /\ 1 .. n = 1 .. N
  BY <1>1
<1> DEFINE seqs == [k \in DOMAIN maps |-> << Stmt("check"), [op |-> "iterate", keys |-> maps[k]],
                                             Stmt("drain"), Stmt("collect") >>]
<1>4. ASSUME NEW K \in SUBSET Items
      PROVE  << Stmt("check"), [op |-> "iterate", keys |-> K], Stmt("drain"), Stmt("collect") >> \in Without("return")
  <2>1. PICK a, b, c, d \in Statements :
          /\ a = Stmt("check") /\ b = [op |-> "iterate", keys |-> K]
          /\ c = Stmt("drain") /\ d = Stmt("collect")
    BY StatementFacts DEF Ops
  <2>2. a.op = "check" /\ b.op = "iterate" /\ c.op = "drain" /\ d.op = "collect"
    BY <2>1 DEF Stmt
  <2> DEFINE s == << a, b, c, d >>
  <2>3. s \in Seq(Statements) /\ DOMAIN s = {1, 2, 3, 4} /\ s[1] = a /\ s[2] = b /\ s[3] = c /\ s[4] = d
    OBVIOUS
  <2> HIDE DEF s
  <2>4. s \in Without("return")
    BY <2>2, <2>3 DEF Without
  <2> QED BY <2>1, <2>4 DEF s
<1>5. seqs \in [1 .. N -> Without("return")]
  BY <1>2, <1>3, <1>4
<1>6. Batches(is) = FlattenSeq(seqs)
  BY DEF Batches, maps
<1> HIDE DEF N, seqs
<1> QED BY <1>3, <1>5, <1>6, WithoutConcat, FlattenIn

\* A group of a batched handler is a plan of its items, or an error and, where
\* the query goes on behind failures, its end.
Trouble(h, s) == Will(s, "err") /\ (Deletes(h.how) => Will(s, "cancel"))
LEMMA GroupPlan ==
  ASSUME NEW h \in Handlers, h.shape = "batched", NEW is, NEW a, NEW b, From1(is, a, b), NEW ans,
         NEW r \in {"ok", "notFound", "fail", "empty"},
         r = "fail" => h.onResolve # Never, r = "notFound" => h.onNotFound # Never,
         r = "empty" => h.onNone # Never
  PROVE  /\ OneGroup(h, is, r, ans) \in Seq(Statements)
         /\ \/ Trouble(h, OneGroup(h, is, r, ans))
            \/ Plan(OneGroup(h, is, r, ans), a, b) /\ OneGroup(h, is, r, ans) \in Without("return")
<1>1. is \in Seq(Items)
  BY DEF From1
<1>2. CASE r = "ok"
  <2>1. OneGroup(h, is, r, ans) = << Stmt("group") >> \o Batches(is)
    BY <1>2 DEF OneGroup
  <2>2. Plan(<< Stmt("group") >> \o Batches(is), a, b)
    BY BatchesPlan, PlanGroup
  <2>3. << Stmt("group") >> \in Without("return")
    BY StatementFacts, OneWithout DEF Ops
  <2>4. << Stmt("group") >> \o Batches(is) \in Without("return")
    BY <1>1, <2>3, BatchesWithout, WithoutConcat
  <2> QED BY <2>1, <2>2, <2>4 DEF Plan
<1>3. ASSUME r # "ok" PROVE OneGroup(h, is, r, ans) \in Seq(Statements) /\ Trouble(h, OneGroup(h, is, r, ans))
  <2>1. PICK arm : /\ arm \in {h.onResolve, h.onNotFound, h.onNone} \ {Never}
                   /\ OneGroup(h, is, r, ans) = Arm(arm)
    BY <1>3 DEF OneGroup
  <2>2. Says(arm, "err") /\ (Deletes(h.how) => Says(arm, "cancel")) /\ arm \in Seq(ArmOps)
    BY <2>1, BatchedAssumption, HandlersAssumption
  <2> QED BY <2>1, <2>2, ArmWill DEF Trouble
<1> QED BY <1>2, <1>3

\* A group that was not found is reported behind other groups, and in front of them.
LEMMA TroubleConcat ==
  ASSUME NEW h, NEW s \in Seq(Statements), NEW t \in Seq(Statements)
  PROVE  /\ Trouble(h, s) => Trouble(h, s \o t)
         /\ s \in Without("return") /\ Trouble(h, t) => Trouble(h, s \o t)
BY WillConcat DEF Trouble

\* What fetchData sets out to do: it iterates over nothing, or will say that a
\* group was not found, or takes all the items in their order.
LEMMA FetchPlan ==
  ASSUME NEW h \in Handlers, NEW res \in [1 .. 2 -> {"ok", "notFound", "fail", "empty"}],
         NEW ans \in [Items -> Answers], Possible(h, res, ans)
  PROVE  \/ FetchData(h, res, ans) \in Without("iterate")
         \/ Trouble(h, FetchData(h, res, ans))
         \/ Plan(FetchData(h, res, ans), 0, NItems)
<1> DEFINE all == [k \in Items |-> k]
           grouped == IF h.groups = "each" /\ NItems > 1
                      THEN << SubSeq(all, 1, NItems - 1), << NItems >> >>
                      ELSE << all >>
           groups == [g \in DOMAIN grouped |-> OneGroup(h, grouped[g], res[g], ans)]
           body == FlattenSeq(groups)
           sends == {k \in DOMAIN body : body[k].op \in {"item", "iterate"}}
<1>1. FetchData(h, res, ans) = IF sends = {} THEN body \o Arm(h.atEnd) ELSE body
  BY Zenon DEF FetchData
<1>2. NItems \in Nat \ {0} /\ Items = 1 .. NItems
  BY StreamAssumption DEF Items
<1>3. From1(all, 0, NItems)
  <2>1. all \in Seq(Items) /\ Len(all) = NItems /\ \A j \in 1 .. NItems : all[j] = j
    BY <1>2
  <2> HIDE DEF all
  <2> QED BY <1>2, <2>1 DEF From1
<1>4. NItems > 1 => From1(SubSeq(all, 1, NItems - 1), 0, NItems - 1)
  <2> SUFFICES ASSUME NItems > 1 PROVE From1(SubSeq(all, 1, NItems - 1), 0, NItems - 1)
    OBVIOUS
  <2>1. all \in Seq(Items) /\ Len(all) = NItems /\ \A j \in 1 .. NItems : all[j] = j
    BY <1>2
  <2> HIDE DEF all
  <2>2. PICK m \in Nat : m = NItems - 1 /\ m <= NItems
    BY <1>2
  <2>3. SubSeq(all, 1, m) \in Seq(Items) /\ Len(SubSeq(all, 1, m)) = m
        /\ \A j \in 1 .. m : SubSeq(all, 1, m)[j] = all[j]
    BY <1>2, <2>1, <2>2
  <2> QED BY <1>2, <2>1, <2>2, <2>3 DEF From1
<1>5. NItems > 1 => From1(<< NItems >>, NItems - 1, NItems)
  <2> SUFFICES ASSUME NItems > 1 PROVE From1(<< NItems >>, NItems - 1, NItems)
    OBVIOUS
  <2>1. << NItems >> \in Seq(Items) /\ Len(<< NItems >>) = 1 /\ << NItems >>[1] = NItems
    BY <1>2
  <2> QED BY <1>2, <2>1 DEF From1
<1> HIDE DEF all
<1>6. PICK x, y \in Seq(Items), m \in Nat :
        \/ grouped = << x >> /\ From1(x, 0, NItems)
        \/ grouped = << x, y >> /\ From1(x, 0, m) /\ From1(y, m, NItems)
  <2>1. CASE h.groups = "each" /\ NItems > 1
    <3>1. PICK x, y \in Seq(Items) : x = SubSeq(all, 1, NItems - 1) /\ y = << NItems >>
      BY <1>4, <1>5, <2>1 DEF From1
    <3>2. grouped = << x, y >>
      BY <2>1, <3>1
    <3>3. NItems - 1 \in Nat /\ From1(x, 0, NItems - 1) /\ From1(y, NItems - 1, NItems)
      BY <1>2, <1>4, <1>5, <2>1, <3>1
    <3> HIDE DEF grouped
    <3> QED BY <3>2, <3>3
  <2>2. CASE ~(h.groups = "each" /\ NItems > 1)
    <3>1. all \in Seq(Items)
      BY <1>3 DEF From1
    <3> QED BY <1>2, <1>3, <2>2, <3>1
  <2> QED BY <2>1, <2>2
<1> HIDE DEF grouped
<1> DEFINE A == OneGroup(h, x, res[1], ans)
           B == OneGroup(h, y, res[2], ans)
<1>7. A \in Seq(Statements) /\ B \in Seq(Statements)
  BY GroupIs DEF Programs
<1>8. grouped = << x >> => body = A
  <2> SUFFICES ASSUME grouped = << x >> PROVE body = A
    OBVIOUS
  <2>1. groups = << A >>
    OBVIOUS
  <2> HIDE DEF A, groups
  <2> QED BY <1>7, <2>1, FlattenTwo
<1>9. grouped = << x, y >> => body = A \o B
  <2> SUFFICES ASSUME grouped = << x, y >> PROVE body = A \o B
    OBVIOUS
  <2>1. groups = << A, B >>
    OBVIOUS
  <2> HIDE DEF A, B, groups
  <2> QED BY <1>7, <2>1, FlattenTwo
<1> HIDE DEF groups
<1>10. body \in Seq(Statements)
  <2> HIDE DEF A, B, body
  <2>1. A \o B \in Seq(Statements)
    BY <1>7
  <2> QED BY <1>6, <1>7, <1>8, <1>9, <2>1
<1>11. CASE sends = {}
  <2>1. body \in Without("iterate")
    BY <1>10, <1>11 DEF Without
  <2>2. Arm(h.atEnd) \in Without("iterate")
    BY HandlersAssumption, ArmWill
  <2>3. body \o Arm(h.atEnd) \in Without("iterate")
    BY <2>1, <2>2, WithoutConcat
  <2> QED BY <1>1, <1>11, <2>3
<1>12. CASE h.shape # "batched"
  <2>1. A \in Without("iterate") /\ B \in Without("iterate")
    <3> SUFFICES ASSUME NEW is \in Seq(Items), NEW r PROVE OneGroup(h, is, r, ans) \in Without("iterate")
      OBVIOUS
    <3>1. /\ Arm(h.onResolve) \in Without("iterate") /\ Arm(h.onNotFound) \in Without("iterate")
          /\ Arm(h.onNone) \in Without("iterate")
      BY HandlersAssumption, ArmWill
    <3>2. << Stmt("group") >> \in Without("iterate")
      BY StatementFacts, OneWithout DEF Ops
    <3>3. PICK work \in Without("iterate") :
            work = CASE h.shape = "batched" -> Batches(is)
                     [] h.shape = "walk"    -> WalkFiles(h, is, ans)
                     [] OTHER -> FlattenSeq([k \in DOMAIN is |-> OneItem(h, is[k], ans)])
      BY <1>12, LoopWithout
    <3>4. << Stmt("group") >> \o work \in Without("iterate")
      BY <3>2, WithoutConcat
    <3> QED BY <3>1, <3>3, <3>4, Zenon DEF OneGroup
  <2>2. A \o B \in Without("iterate")
    BY <2>1, WithoutConcat
  <2>3. body \in Without("iterate")
    BY <1>6, <1>8, <1>9, <2>1, <2>2
  <2> QED BY <1>1, <1>11, <2>3
<1>13. CASE h.shape = "batched" /\ sends # {}
  <2>1. /\ \A g \in 1 .. 2 : /\ res[g] \in {"ok", "notFound", "fail", "empty"}
                             /\ res[g] = "fail" => h.onResolve # Never
                             /\ res[g] = "notFound" => h.onNotFound # Never
                             /\ res[g] = "empty" => h.onNone # Never
    BY DEF Possible
  <2>2. ASSUME NEW a, NEW b, From1(x, a, b)
        PROVE  Trouble(h, A) \/ (Plan(A, a, b) /\ A \in Without("return"))
    BY <1>13, <2>1, <2>2, GroupPlan
  <2>3. ASSUME NEW a, NEW b, From1(y, a, b)
        PROVE  Trouble(h, B) \/ (Plan(B, a, b) /\ B \in Without("return"))
    BY <1>13, <2>1, <2>3, GroupPlan
  <2>4. FetchData(h, res, ans) = body
    BY <1>1, <1>13
  <2> HIDE DEF A, B, body, sends
  <2>5. CASE grouped = << x >> /\ From1(x, 0, NItems)
    BY <1>8, <2>2, <2>4, <2>5
  <2>6. CASE grouped = << x, y >> /\ From1(x, 0, m) /\ From1(y, m, NItems)
    <3>1. Trouble(h, A) \/ (Plan(A, 0, m) /\ A \in Without("return"))
      BY <2>2, <2>6
    <3>2. Trouble(h, B) \/ Plan(B, m, NItems)
      BY <2>3, <2>6
    <3>3. Plan(A, 0, m) /\ Plan(B, m, NItems) => Plan(A \o B, 0, NItems)
      BY PlanConcat
    <3>4. /\ Trouble(h, A) => Trouble(h, A \o B)
          /\ A \in Without("return") /\ Trouble(h, B) => Trouble(h, A \o B)
      BY <1>7, TroubleConcat
    <3>5. Trouble(h, A \o B) \/ Plan(A \o B, 0, NItems)
      BY <3>1, <3>2, <3>3, <3>4
    <3>6. FetchData(h, res, ans) = A \o B
      BY <1>9, <2>4, <2>6
    <3> QED BY <3>5, <3>6
  <2> QED BY <1>6, <2>5, <2>6
<1> QED BY <1>11, <1>12, <1>13

\* A statement in front of others.
LEMMA ConsIs ==
  ASSUME NEW S, NEW x \in S, NEW u \in Seq(S)
  PROVE  /\ << x >> \o u \in Seq(S) /\ << x >> \o u # <<>> /\ (<< x >> \o u)[1] = x
         /\ Head(<< x >> \o u) = x /\ Tail(<< x >> \o u) = u
<1>1. PICK s : s = << x >> \o u
  OBVIOUS
<1>2. /\ s \in Seq(S) /\ Len(s) = 1 + Len(u) /\ Len(u) \in Nat
      /\ \A k \in 1 .. 1 + Len(u) : s[k] = IF k <= 1 THEN << x >>[k] ELSE u[k - 1]
  <2>1. << x >> \in Seq(S) /\ Len(<< x >>) = 1
    OBVIOUS
  <2>2. PICK one : one \in Seq(S) /\ one = << x >> /\ Len(one) = 1
    BY <2>1
  <2>3. /\ one \o u \in Seq(S) /\ Len(one \o u) = Len(one) + Len(u)
        /\ \A k \in 1 .. Len(one) + Len(u) : (one \o u)[k] = IF k <= Len(one) THEN one[k] ELSE u[k - Len(one)]
    BY <2>2, ConcatProperties, Zenon
  <2>4. Len(u) \in Nat
    OBVIOUS
  <2> QED BY <1>1, <2>2, <2>3, <2>4
<1>3. s # <<>> /\ s[1] = x /\ Head(s) = x
  <2>1. 1 \in 1 .. 1 + Len(u) /\ 1 <= 1
    BY <1>2
  <2>2. << x >>[1] = x
    OBVIOUS
  <2>3. s[1] = x
    BY <1>2, <2>1, <2>2
  <2> QED BY <1>2, <2>3
<1>4. Tail(s) = u
  <2>1. /\ Tail(s) \in Seq(S) /\ Len(Tail(s)) = Len(u)
        /\ \A k \in 1 .. Len(u) : Tail(s)[k] = s[k + 1]
    BY <1>2, <1>3
  <2>2. ASSUME NEW k \in 1 .. Len(u) PROVE Tail(s)[k] = u[k]
    <3>1. k + 1 \in 1 .. 1 + Len(u) /\ ~ (k + 1 <= 1) /\ (k + 1) - 1 = k
      BY <1>2
    <3>2. s[k + 1] = u[k]
      BY <1>2, <3>1
    <3> QED BY <2>1, <3>2
  <2>3. PICK v \in Seq(S) : v = Tail(s)
    BY <2>1
  <2>4. Len(v) = Len(u) /\ \A k \in 1 .. Len(u) : v[k] = u[k]
    BY <2>1, <2>2, <2>3
  <2> QED BY <2>3, <2>4, SeqEqual
<1> QED BY <1>1, <1>2, <1>3, <1>4

\* A map that is passed over, statement by statement.
LEMMA SkipParts ==
  ASSUME NEW s \in Seq(Statements), s # <<>>, Ordered(s), s[1].op = "check"
  PROVE  \E a, b, c \in Seq(Statements) :
           /\ a = Tail(s) /\ a # <<>> /\ a[1].op = "iterate"
           /\ b = Tail(a) /\ b # <<>> /\ b[1].op = "drain"
           /\ c = Tail(b) /\ c # <<>> /\ c[1].op = "collect"
           /\ SubSeq(s, 5, Len(s)) = Tail(c)
<1>0. 1 \in DOMAIN s
  OBVIOUS
<1>1. 4 \in DOMAIN s /\ s[2].op = "iterate" /\ s[3].op = "drain" /\ s[4].op = "collect"
  BY <1>0 DEF Ordered
<1>2. Len(s) \in Nat /\ 4 <= Len(s)
  BY <1>1
<1>3. PICK a, b, c : a = Tail(s) /\ b = Tail(a) /\ c = Tail(b)
  OBVIOUS
<1>4. /\ a = SubSeq(s, 2, Len(s)) /\ b = SubSeq(s, 3, Len(s)) /\ c = SubSeq(s, 4, Len(s))
      /\ SubSeq(s, 5, Len(s)) = Tail(c)
  <2>1. a = SubSeq(s, 2, Len(s))
    BY <1>3, TailIsSubSeq
  <2>2. \A m \in 1 .. Len(s) : Tail(SubSeq(s, m, Len(s))) = SubSeq(s, m + 1, Len(s))
    BY <1>2, HeadTailOfSubSeq
  <2>3. 2 \in 1 .. Len(s) /\ 3 \in 1 .. Len(s) /\ 4 \in 1 .. Len(s)
        /\ 2 + 1 = 3 /\ 3 + 1 = 4 /\ 4 + 1 = 5
    BY <1>2
  <2> QED BY <1>3, <2>1, <2>2, <2>3
<1>5. /\ a \in Seq(Statements) /\ a # <<>> /\ a[1] = s[2]
      /\ b \in Seq(Statements) /\ b # <<>> /\ b[1] = s[3]
      /\ c \in Seq(Statements) /\ c # <<>> /\ c[1] = s[4]
  <2>1. ASSUME NEW m \in 1 .. 4
        PROVE  /\ SubSeq(s, m, Len(s)) \in Seq(Statements) /\ SubSeq(s, m, Len(s)) # <<>>
               /\ SubSeq(s, m, Len(s))[1] = s[m]
    <3>1. \A i \in m .. Len(s) : s[i] \in Statements
      OBVIOUS
    <3>2. /\ SubSeq(s, m, Len(s)) \in Seq(Statements)
          /\ Len(SubSeq(s, m, Len(s))) = IF m <= Len(s) THEN Len(s) - m + 1 ELSE 0
          /\ \A i \in 1 .. Len(s) - m + 1 : SubSeq(s, m, Len(s))[i] = s[m + i - 1]
      BY <1>2, <3>1, SubSeqProperties
    <3>3. PICK q : q = SubSeq(s, m, Len(s))
      OBVIOUS
    <3>4. q \in Seq(Statements) /\ Len(q) >= 1
      BY <1>2, <3>2, <3>3
    <3>5. 1 \in 1 .. Len(s) - m + 1 /\ m + 1 - 1 = m
      BY <1>2
    <3>6. q[1] = s[m]
      BY <3>2, <3>3, <3>5
    <3>7. q # <<>>
      BY <3>4
    <3> QED BY <3>3, <3>4, <3>6, <3>7, Zenon
  <2> QED BY <1>4, <2>1
<1> QED BY <1>1, <1>3, <1>4, <1>5

\* What is left to do when the first statement is done.
LEMMA WillTail ==
  ASSUME NEW s \in Seq(Statements), s # <<>>, NEW op
  PROVE  /\ Tail(s) \in Seq(Statements)
         /\ Will(s, op) => s[1].op = op \/ (s[1].op # "return" /\ Will(Tail(s), op))
         /\ s \in Without(op) => Tail(s) \in Without(op)
<1>1. PICK t : t = Tail(s)
  OBVIOUS
<1>2. /\ t \in Seq(Statements) /\ DOMAIN s = 1 .. Len(s) /\ Len(s) \in Nat /\ Len(s) >= 1
      /\ DOMAIN t = 1 .. Len(s) - 1 /\ \A k \in 1 .. Len(s) - 1 : t[k] = s[k + 1]
  BY <1>1
<1>3. ASSUME Will(s, op), s[1].op # op PROVE s[1].op # "return" /\ Will(t, op)
  <2>1. PICK k \in DOMAIN s : s[k].op = op /\ \A j \in 1 .. k - 1 : s[j].op # "return"
    BY <1>3 DEF Will
  <2>2. k # 1 /\ 1 \in 1 .. k - 1
    BY <1>2, <1>3, <2>1
  <2>3. PICK m \in DOMAIN t : k = m + 1
    <3>1. k - 1 \in DOMAIN t /\ k = (k - 1) + 1
      BY <1>2, <2>2
    <3> QED BY <3>1
  <2>4. t[m].op = op
    BY <1>2, <2>1, <2>3
  <2>5. \A j \in 1 .. m - 1 : t[j].op # "return"
    <3>1. \A j \in 1 .. m - 1 : j \in 1 .. Len(s) - 1 /\ j + 1 \in 1 .. k - 1
      BY <1>2, <2>3
    <3> QED BY <1>2, <2>1, <3>1
  <2> QED BY <2>1, <2>2, <2>3, <2>4, <2>5 DEF Will
<1>4. ASSUME s \in Without(op) PROVE t \in Without(op)
  <2>1. \A k \in 1 .. Len(s) - 1 : k + 1 \in DOMAIN s
    BY <1>2
  <2> QED BY <1>2, <1>4, <2>1 DEF Without
<1> QED BY <1>1, <1>2, <1>3, <1>4

\* Passing over a map loses nothing that will be said.
LEMMA WillSkip ==
  ASSUME NEW s \in Seq(Statements), s # <<>>, Ordered(s), s[1].op = "check", NEW op \in {"err", "cancel"}
  PROVE  /\ Will(s, op) => Will(SubSeq(s, 5, Len(s)), op)
         /\ s \in Without("iterate") => SubSeq(s, 5, Len(s)) \in Without("iterate")
<1>1. PICK a, b, c \in Seq(Statements) :
        /\ a = Tail(s) /\ a # <<>> /\ a[1].op = "iterate"
        /\ b = Tail(a) /\ b # <<>> /\ b[1].op = "drain"
        /\ c = Tail(b) /\ c # <<>> /\ c[1].op = "collect"
        /\ SubSeq(s, 5, Len(s)) = Tail(c)
  BY SkipParts
<1>2. Will(s, op) => Will(a, op)
  BY <1>1, WillTail
<1>3. Will(a, op) => Will(b, op)
  BY <1>1, WillTail
<1>4. Will(b, op) => Will(c, op)
  BY <1>1, WillTail
<1>5. Will(c, op) => Will(Tail(c), op)
  BY <1>1, WillTail
<1>6. s \in Without("iterate") => Tail(c) \in Without("iterate")
  BY <1>1, WillTail
<1> QED BY <1>1, <1>2, <1>3, <1>4, <1>5, <1>6

\* The records that are sent are announced.
LEMMA SendsSpell ==
  ASSUME TypeInv, NEW recs \in Seq(Items),
         how.collect # "append" => \A k \in DOMAIN recs : recs[k] \in DOMAIN thisMap
  PROVE  /\ Spells(Sends(recs), recs)
         /\ Sends(recs) \in Without("return") /\ Sends(recs) \in Without("iterate")
<1> DEFINE one(k) == (IF how.articulate = "fetcher" /\ answer[recs[k]] = "garbled"
                      THEN Arm(<<"err">>) ELSE <<>>)
                     \o << Send(recs[k], IF how.collect = "append" THEN "fetched" ELSE thisMap[recs[k]]) >>
           seqs == [k \in DOMAIN recs |-> one(k)]
<1>1. Sends(recs) = FlattenSeq(seqs)
  BY DEF Sends
<1>2. PICK n \in Nat : n = Len(recs) /\ DOMAIN recs = 1 .. n
  OBVIOUS
<1>3. PICK e \in Statements : e = Stmt("err") /\ e.op = "err" /\ Arm(<<"err">>) = << e >>
  <2>1. Stmt("err") \in Statements /\ Stmt("err").op = "err"
    BY StatementFacts DEF Ops, ArmOps
  <2>2. Arm(<<"err">>) = << Stmt("err") >>
    BY DEF Arm
  <2> QED BY <2>1, <2>2
<1>4. ASSUME NEW k \in 1 .. n
      PROVE  /\ Spells(one(k), << recs[k] >>)
             /\ one(k) \in Without("return") /\ one(k) \in Without("iterate")
  <2>1. PICK v \in {"fetched", "blank"} : v = IF how.collect = "append" THEN "fetched" ELSE thisMap[recs[k]]
    BY <1>2 DEF TypeInv
  <2>2. PICK i \in Items : i = recs[k]
    BY <1>2
  <2>3. PICK t \in Statements : t = Send(i, v) /\ t.op = "item"
    BY StatementFacts
  <2>4. << t >> \o <<>> = << t >> /\ << i >> \o <<>> = << i >> /\ <<>> \o << t >> = << t >>
    OBVIOUS
  <2>5. Spells(<< t >>, << i >>)
    <3>1. Spells(<< Send(i, v) >> \o <<>>, << i >> \o <<>>)
      BY SpellsNone, SpellsSend
    <3> QED BY <2>3, <2>4, <3>1
  <2>6. Spells(<< e >> \o << t >>, << i >>)
    <3>1. Spells(<< Stmt("err") >> \o << t >>, << i >>)
      BY <2>5, SpellsErr
    <3> QED BY <1>3, <3>1
  <2>7. << t >> \in Without("return") /\ << t >> \in Without("iterate")
    BY <2>3, OneWithout
  <2>8. << e >> \in Without("return") /\ << e >> \in Without("iterate")
    BY <1>3, OneWithout
  <2>9. << e >> \o << t >> \in Without("return") /\ << e >> \o << t >> \in Without("iterate")
    BY <2>7, <2>8, WithoutConcat
  <2>10. one(k) \in {<< e >> \o << t >>, << t >>}
    <3>1. one(k) = (IF how.articulate = "fetcher" /\ answer[recs[k]] = "garbled" THEN << e >> ELSE <<>>) \o << t >>
      BY <1>3, <2>1, <2>2, <2>3
    <3> QED BY <2>4, <3>1
  <2> HIDE DEF one
  <2> QED BY <2>2, <2>5, <2>6, <2>7, <2>9, <2>10
<1>5. seqs = [k \in 1 .. n |-> seqs[k]] /\ \A k \in 1 .. n : seqs[k] = one(k)
  BY <1>2
<1> HIDE DEF one, seqs
<1>6. seqs \in [1 .. n -> Without("return")] /\ seqs \in [1 .. n -> Without("iterate")]
  BY <1>4, <1>5
<1>7. FlattenSeq(seqs) \in Without("return")
  BY <1>6, WithoutConcat, FlattenIn
<1>8. FlattenSeq(seqs) \in Without("iterate")
  BY <1>6, WithoutConcat, FlattenIn
<1> DEFINE D == [k \in 0 .. n |-> {s \in Seq(Statements) : Spells(s, SubSeq(recs, 1, k))}]
<1>9. seqs \in [1 .. n -> Seq(Statements)]
  BY <1>6 DEF Without
<1>10. <<>> \in D[0]
  <2>1. SubSeq(recs, 1, 0) = <<>>
    OBVIOUS
  <2>2. Spells(<<>>, SubSeq(recs, 1, 0))
    BY <2>1, SpellsNone, Zenon
  <2>3. <<>> \in Seq(Statements)
    OBVIOUS
  <2>4. 0 \in 0 .. n
    OBVIOUS
  <2> QED BY <2>2, <2>3, <2>4
<1>11. ASSUME NEW k \in 1 .. n, NEW s \in D[k - 1] PROVE s \o seqs[k] \in D[k]
  <2>1. k - 1 \in 0 .. n /\ k \in 0 .. n
    OBVIOUS
  <2>2. s \in Seq(Statements) /\ Spells(s, SubSeq(recs, 1, k - 1))
    BY <2>1
  <2>3. Spells(s \o seqs[k], SubSeq(recs, 1, k - 1) \o << recs[k] >>)
    BY <1>4, <1>5, <2>2, SpellsConcat
  <2>4. SubSeq(recs, 1, k - 1) \o << recs[k] >> = SubSeq(recs, 1, k)
    <3>0. ASSUME NEW l \in 0 .. n
          PROVE  \E a \in Seq(Items) : /\ a = SubSeq(recs, 1, l) /\ Len(a) = l
                                        /\ \A j \in 1 .. l : a[j] = recs[j]
      <4>1. /\ SubSeq(recs, 1, l) \in Seq(Items)
            /\ Len(SubSeq(recs, 1, l)) = IF 1 <= l THEN l - 1 + 1 ELSE 0
            /\ \A i \in 1 .. l - 1 + 1 : SubSeq(recs, 1, l)[i] = recs[1 + i - 1]
        <5>1. \A i \in 1 .. l : recs[i] \in Items
          BY <1>2
        <5> QED BY <5>1, SubSeqProperties
      <4>2. (IF 1 <= l THEN l - 1 + 1 ELSE 0) = l /\ l - 1 + 1 = l /\ \A i \in 1 .. l : 1 + i - 1 = i
        OBVIOUS
      <4> QED BY <4>1, <4>2
    <3>1. PICK a \in Seq(Items) : a = SubSeq(recs, 1, k - 1) /\ Len(a) = k - 1
                                   /\ \A j \in 1 .. k - 1 : a[j] = recs[j]
      BY <2>1, <3>0
    <3>2. PICK i \in Items : i = recs[k]
      BY <1>2
    <3>3. PICK b \in Seq(Items) : b = SubSeq(recs, 1, k) /\ Len(b) = k
                                   /\ \A j \in 1 .. k : b[j] = recs[j]
      BY <2>1, <3>0
    <3>4. a \o << i >> \in Seq(Items) /\ Len(a \o << i >>) = k
          /\ \A j \in 1 .. k : (a \o << i >>)[j] = IF j <= k - 1 THEN a[j] ELSE i
      BY <3>1
    <3>5. \A j \in 1 .. k : (a \o << i >>)[j] = b[j]
      <4> SUFFICES ASSUME NEW j \in 1 .. k PROVE (a \o << i >>)[j] = b[j]
        OBVIOUS
      <4>1. CASE j <= k - 1
        BY <3>1, <3>3, <3>4, <4>1
      <4>2. CASE j = k
        <5>1. ~ (k <= k - 1) /\ k \in 1 .. k
          OBVIOUS
        <5> QED BY <3>2, <3>3, <3>4, <4>2, <5>1
      <4>3. j <= k - 1 \/ j = k
        OBVIOUS
      <4> QED BY <4>1, <4>2, <4>3
    <3>6. a \o << i >> = b
      <4>1. PICK d \in Seq(Items) : d = a \o << i >>
        BY <3>4
      <4> QED BY <3>3, <3>4, <3>5, <4>1, SeqEqual
    <3> QED BY <3>1, <3>2, <3>3, <3>6
  <2>5. s \o seqs[k] \in Seq(Statements)
    BY <2>3 DEF Spells
  <2> QED BY <2>1, <2>3, <2>4, <2>5
<1>12. FlattenSeq(seqs) \in D[n]
  <2> HIDE DEF D
  <2> QED BY <1>9, <1>10, <1>11, FlattenUp
<1>13. SubSeq(recs, 1, n) = recs
  BY <1>2
<1>14. Spells(FlattenSeq(seqs), recs)
  <2>1. n \in 0 .. n
    OBVIOUS
  <2>2. D[n] = {s \in Seq(Statements) : Spells(s, SubSeq(recs, 1, n))}
    BY <2>1
  <2> HIDE DEF D
  <2> QED BY <1>12, <1>13, <2>2, Zenon
<1> QED BY <1>1, <1>7, <1>8, <1>14

-----------------------------------------------------------------------------
(* The invariant *)

\* The handlers of which it speaks, and those that go on behind a failure: every
\* payload has one item then.
LostCase == how.collect # "append" /\ how.limit # "map"
OnePer == Deletes(how) /\ AppMapSize < 2 * NRoutines

\* Nothing is promised: the query is canceled, an error was or will be reported
\* that the handler does not get over, or no map was iterated over.
Excused ==
    \/ canceled \/ Will(todo, "cancel")
    \/ ~OnePer /\ (reported > 0 \/ Will(todo, "err"))
    \/ dist.pc = "idle" /\ todo \in Without("iterate")

\* The items up to the n-th are done with: q are the shown ones of them.
Settled(q, n, c) == IsOrder(q, Chosen(n)) /\ CountsTo(c, n)

\* Within a map.
AtCollect(t, u) == t = << Stmt("collect") >> \o u
AtDrain(t, u) == \E v \in Seq(Statements) : AtCollect(v, u) /\ t = << Stmt("drain") >> \o v
AtErr(t, u) == \E v \in Seq(Statements) : AtDrain(v, u) /\ t = << Stmt("err") >> \o v
AtMap(t, n, m, u) == \E v \in Seq(Statements) : AtDrain(v, u) /\ t = << Mapping(n, m) >> \o v

\* What is known of the map of the items behind n up to m while it is fetched.
MapFacts(n, m) ==
    /\ DOMAIN thisMap \subseteq n + 1 .. m
    /\ \A i \in n + 1 .. m : i \notin DOMAIN thisMap => Failing(i)
    /\ OnePer =>
         /\ dist.pc = "range" => dist.per = 1
         /\ dist.payload = <<>>
         /\ \A i \in DOMAIN thisMap : thisMap[i] = "blank" => Under(i)
         /\ \A s \in Slots :
              /\ workers[s].pc # "idle" => Len(workers[s].args) <= 1
              /\ workers[s].pc = "failed" =>
                   \A k \in DOMAIN workers[s].args : workers[s].args[k] \notin DOMAIN thisMap

\* Between two maps, before a map, and within one.
Sending ==
    \E n, pre, u, pend, q, c :
        /\ n \in Nat /\ pre \in Seq(Statements) /\ u \in Seq(Statements)
        /\ todo = pre \o u /\ Spells(pre, pend) /\ Plan(u, n, NItems)
        /\ q = ShownItems /\ c = counter /\ Settled(q \o pend, n, c)
Starting ==
    \E n, m, u, q, c :
        /\ n \in Nat /\ m \in Nat /\ u \in Seq(Statements)
        /\ n < m /\ m <= NItems /\ m - n <= AppMapSize
        /\ AtMap(todo, n, m, u) /\ Plan(u, m, NItems)
        /\ q = ShownItems /\ c = counter /\ Settled(q, n, c)
Fetching ==
    \E n, m, u, q, c :
        /\ n \in Nat /\ m \in Nat /\ u \in Seq(Statements)
        /\ n < m /\ m <= NItems
        /\ AtErr(todo, u) \/ AtDrain(todo, u) \/ AtCollect(todo, u)
        /\ Plan(u, m, NItems)
        /\ q = ShownItems /\ c = counter /\ Settled(q, n, c)
        /\ MapFacts(n, m)

\* What the workers know of the answers.
KnownInv ==
    /\ Deletes(how) => /\ how.articulate # "recon"
                       /\ how.missingIsSent => how.limit = "map"
    /\ \A i \in DOMAIN thisMap : thisMap[i] = "fetched" => answer[i] \in {"ok", "garbled", "empty"}
    /\ \A s \in Slots : /\ workers[s].pc = "delete" => Failing(workers[s].args[1])
                        /\ workers[s].pc = "send" => ~Failing(workers[s].args[1])

LostInv == KnownInv /\ (LostCase => Excused \/ Sending \/ Starting \/ Fetching)

-----------------------------------------------------------------------------
(* The answers *)

\* A step that stores only what answered and sends workers on as the answer asks.
LEMMA KnownKeeps ==
  ASSUME KnownInv, answer' = answer, how' = how,
         \A i \in DOMAIN thisMap' : thisMap'[i] = "fetched" =>
            (i \in DOMAIN thisMap /\ thisMap[i] = "fetched") \/ answer[i] \in {"ok", "garbled", "empty"},
         \A t \in Slots : \/ workers'[t] = workers[t]
                          \/ workers'[t].pc \notin {"delete", "send"}
                          \/ workers'[t].pc = "delete" /\ Failing(workers'[t].args[1])
                          \/ workers'[t].pc = "send" /\ ~Failing(workers'[t].args[1])
  PROVE  KnownInv'
<1>1. \A i : Failing(i)' <=> Failing(i)
  BY DEF Failing
<1>2. Deletes(how') => /\ how'.articulate # "recon"
                       /\ how'.missingIsSent => how'.limit = "map"
  BY DEF KnownInv
<1>3. \A i \in DOMAIN thisMap' : thisMap'[i] = "fetched" => answer[i] \in {"ok", "garbled", "empty"}
  BY DEF KnownInv
<1>4. ASSUME NEW t \in Slots
      PROVE  /\ workers'[t].pc = "delete" => Failing(workers'[t].args[1])
             /\ workers'[t].pc = "send" => ~Failing(workers'[t].args[1])
  <2>1. CASE workers'[t] = workers[t]
    BY <2>1 DEF KnownInv
  <2>2. CASE workers'[t].pc \notin {"delete", "send"}
    BY <2>2
  <2> QED BY <2>1, <2>2
<1>5. ASSUME NEW t \in Slots
      PROVE  /\ workers'[t].pc = "delete" => Failing(workers[t].args[1])'
             /\ workers'[t].pc = "send" => ~Failing(workers[t].args[1])'
  BY <1>4 DEF Failing
<1> QED BY <1>2, <1>3, <1>5 DEF KnownInv

\* A worker makes its step.
LEMMA KnownWorker == ASSUME StreamInv, KnownInv, NEW s \in Slots, Worker(s) PROVE KnownInv'
<1>0. answer' = answer /\ how' = how
  BY DEF Worker, Begin, Step, AppendItem, Delete, SendDirect, WorkerOnly
<1>1. /\ workers \in [Slots -> Goroutines] /\ workers[s] \in Goroutines /\ workers[s].args \in Seq(Items)
      /\ thisMap \in [DOMAIN thisMap -> {"blank", "fetched"}] /\ DOMAIN thisMap \subseteq Items
  BY WorkerIs
<1>2. CASE Begin(s)
  <2>1. UNCHANGED thisMap /\ workers' \in {[workers EXCEPT ![s] = Idle], [workers EXCEPT ![s].pc = "step"]}
    BY <1>2 DEF Begin
  <2>2. \A t \in Slots : workers'[t] = workers[t] \/ workers'[t].pc \in {"idle", "step"}
    BY <1>1, <2>1 DEF Goroutines, Idle
  <2>3. \A t \in Slots : workers'[t] = workers[t] \/ workers'[t].pc \notin {"delete", "send"}
    BY <2>2
  <2> QED BY <1>0, <2>1, <2>3, KnownKeeps
<1>3. CASE AppendItem(s)
  <2>1. PICK q \in Seq(Items) : q = workers[s].args /\ q # <<>>
    BY <1>1, <1>3 DEF AppendItem, StreamInv, WorkInv
  <2>2. PICK w \in Goroutines : w = [Idle EXCEPT !.pc = "step", !.args = Tail(q)] /\ w.pc = "step"
    <3>1. Tail(q) \in Seq(Items)
      BY <2>1, RestIs, Zenon
    <3> QED BY <3>1, FreshWorker, Zenon
  <2>3. UNCHANGED thisMap /\ workers' = [workers EXCEPT ![s] = w]
    BY <1>3, <2>1, <2>2 DEF AppendItem
  <2>4. \A t \in Slots : workers'[t] = workers[t] \/ workers'[t].pc = "step"
    BY <1>1, <2>2, <2>3
  <2>5. \A t \in Slots : workers'[t] = workers[t] \/ workers'[t].pc \notin {"delete", "send"}
    BY <2>4
  <2> QED BY <1>0, <2>3, <2>5, KnownKeeps
<1>4. CASE Delete(s)
  <2>1. PICK gone : thisMap' = [i \in DOMAIN thisMap \ {gone} |-> thisMap[i]]
    BY <1>4 DEF Delete
  <2>2. \A i \in DOMAIN thisMap' : i \in DOMAIN thisMap /\ thisMap'[i] = thisMap[i]
    BY <2>1
  <2>3. workers' = [workers EXCEPT ![s].pc = "failed"]
    BY <1>4 DEF Delete
  <2>4. \A t \in Slots : workers'[t] = workers[t] \/ workers'[t].pc = "failed"
    BY <1>1, <2>3 DEF Goroutines
  <2>5. \A t \in Slots : workers'[t] = workers[t] \/ workers'[t].pc \notin {"delete", "send"}
    BY <2>4
  <2> QED BY <1>0, <2>2, <2>5, KnownKeeps
<1>5. CASE SendDirect(s)
  <2>0. UNCHANGED thisMap
    BY <1>5 DEF SendDirect
  <2>1. PICK q \in Seq(Items) : q = workers[s].args /\ q # <<>>
    BY <1>1, <1>5 DEF SendDirect, StreamInv, WorkInv
  <2>2. PICK w \in Goroutines : w = [Idle EXCEPT !.pc = "step", !.args = Tail(q)] /\ w.pc = "step"
    <3>1. Tail(q) \in Seq(Items)
      BY <2>1, RestIs, Zenon
    <3> QED BY <3>1, FreshWorker, Zenon
  <2>3. workers' = workers \/ workers' = [workers EXCEPT ![s] = w]
    BY <1>5, <2>1, <2>2 DEF SendDirect
  <2>4. \A t \in Slots : workers'[t] = workers[t] \/ workers'[t].pc = "step"
    BY <1>1, <2>2, <2>3
  <2>5. \A t \in Slots : workers'[t] = workers[t] \/ workers'[t].pc \notin {"delete", "send"}
    BY <2>4
  <2> QED BY <1>0, <2>0, <2>5, KnownKeeps
<1>6. CASE Step(s)
  <2>1. PICK q \in Seq(Items) : q = workers[s].args
    BY <1>1
  <2>2. CASE q = <<>> /\ workers' = [workers EXCEPT ![s] = Idle] /\ UNCHANGED thisMap
    <3>1. \A t \in Slots : workers'[t] = workers[t] \/ workers'[t].pc = "idle"
      BY <1>1, <2>2 DEF Idle
    <3>2. \A t \in Slots : workers'[t] = workers[t] \/ workers'[t].pc \notin {"delete", "send"}
      BY <3>1
    <3> QED BY <1>0, <2>2, <3>2, KnownKeeps
  <2>3. CASE /\ q # <<>> /\ Failing(Head(q)) /\ UNCHANGED thisMap
             /\ workers' = [workers EXCEPT ![s].pc = IF how.failed = "keep" THEN "failed" ELSE "delete"]
    <3>1. PICK pc \in {"failed", "delete"} : pc = IF how.failed = "keep" THEN "failed" ELSE "delete"
      OBVIOUS
    <3>2. workers' = [workers EXCEPT ![s].pc = pc]
      BY <2>3, <3>1
    <3>3. workers'[s].pc = pc /\ workers'[s].args = q /\ \A t \in Slots \ {s} : workers'[t] = workers[t]
      BY <1>1, <2>1, <3>2 DEF Goroutines
    <3>4. PICK i \in Items : i = Head(q) /\ i = q[1]
      BY <2>3, RestIs
    <3>5. Failing(workers'[s].args[1])
      BY <2>3, <3>3, <3>4
    <3>6. \A t \in Slots : \/ workers'[t] = workers[t]
                           \/ workers'[t].pc \notin {"delete", "send"}
                           \/ workers'[t].pc = "delete" /\ Failing(workers'[t].args[1])
      BY <3>1, <3>3, <3>5
    <3> QED BY <1>0, <2>3, <3>6, KnownKeeps
  <2>4. CASE /\ q # <<>> /\ ~Failing(Head(q))
             /\ thisMap' = IF answer[Head(q)] = "notFound" THEN thisMap ELSE [thisMap EXCEPT ![Head(q)] = "fetched"]
             /\ workers' = IF how.collect = "append" /\ answer[Head(q)] # "empty"
                           THEN [workers EXCEPT ![s].pc = "append", ![s].snap = items]
                           ELSE IF Reports(Head(q)) THEN [workers EXCEPT ![s].pc = "send"]
                           ELSE [workers EXCEPT ![s].args = Tail(@)]
    <3>1. PICK i \in Items : i = Head(q) /\ i = q[1]
      BY <2>4, RestIs
    <3>2. answer[i] \in {"ok", "empty", "notFound", "garbled"}
      BY <2>4, <3>1 DEF Failing, StreamInv, TypeInv, Answers
    <3>3. \A j \in DOMAIN thisMap' : thisMap'[j] = "fetched" =>
             (j \in DOMAIN thisMap /\ thisMap[j] = "fetched") \/ answer[j] \in {"ok", "garbled", "empty"}
      <4>1. CASE answer[i] = "notFound"
        BY <2>4, <3>1, <4>1
      <4>2. CASE answer[i] # "notFound"
        <5>1. thisMap' = [thisMap EXCEPT ![i] = "fetched"]
          BY <2>4, <3>1, <4>2
        <5>2. DOMAIN thisMap' = DOMAIN thisMap /\ \A j \in DOMAIN thisMap : j # i => thisMap'[j] = thisMap[j]
          BY <1>1, <5>1
        <5> QED BY <3>2, <4>2, <5>2
      <4> QED BY <4>1, <4>2
    <3>4. PICK r \in Seq(Items) : r = Tail(q)
      BY <2>4, RestIs
    <3>5. \/ workers' = [workers EXCEPT ![s].pc = "append", ![s].snap = items]
          \/ workers' = [workers EXCEPT ![s].pc = "send"]
          \/ workers' = [workers EXCEPT ![s].args = r]
      BY <2>1, <2>4, <3>4
    <3>6. \A t \in Slots \ {s} : workers'[t] = workers[t]
      BY <1>1, <3>5
    <3>7. \/ workers'[s].pc \in {"append", "step"}
          \/ workers'[s].pc = "send" /\ workers'[s].args = q
      BY <1>1, <1>6, <2>1, <3>5 DEF Goroutines, Step
    <3>8. workers'[s].pc = "send" => ~Failing(workers'[s].args[1])
      BY <2>4, <3>1, <3>7
    <3>9. \A t \in Slots : \/ workers'[t] = workers[t]
                           \/ workers'[t].pc \notin {"delete", "send"}
                           \/ workers'[t].pc = "send" /\ ~Failing(workers'[t].args[1])
      BY <3>6, <3>7, <3>8
    <3> QED BY <1>0, <3>3, <3>9, KnownKeeps
  <2> QED BY <1>6, <2>1, <2>2, <2>3, <2>4, Zenon DEF Step
<1> QED BY <1>2, <1>3, <1>4, <1>5, <1>6 DEF Worker

\* The others send workers out and take them back.
LEMMA KnownStep == StreamInv /\ KnownInv /\ [Next]_vars => KnownInv'
<1> SUFFICES ASSUME StreamInv, KnownInv, [Next]_vars PROVE KnownInv'
  OBVIOUS
<1>1. workers \in [Slots -> Goroutines] /\ TypeInv /\ dist.payload \in Seq(Items) /\ dist.left \subseteq Items
  BY DEF StreamInv, TypeInv, Goroutines
<1>2. CASE UNCHANGED <<answer, how, thisMap, workers>>
  BY <1>2, KnownKeeps
<1>3. CASE Iterate
  <2>1. answer' = answer /\ how' = how /\ workers' = workers
    BY <1>3 DEF Iterate
  <2>2. \A i \in DOMAIN thisMap' : thisMap'[i] = "blank"
    BY <1>3 DEF Iterate
  <2>3. \A i \in DOMAIN thisMap' : thisMap'[i] # "fetched"
    BY <2>2
  <2> QED BY <2>1, <2>3, KnownKeeps
<1>4. CASE Drain
  <2>1. UNCHANGED <<answer, how, thisMap>>
    BY <1>4 DEF Drain
  <2>2. workers' = workers \/ \E s \in Slots : workers' = [workers EXCEPT ![s] = Idle]
    BY <1>4, Zenon DEF Drain
  <2>3. \A t \in Slots : workers'[t] = workers[t] \/ workers'[t].pc = "idle"
    BY <1>1, <2>2 DEF Idle
  <2>4. \A t \in Slots : workers'[t] = workers[t] \/ workers'[t].pc \notin {"delete", "send"}
    BY <2>3
  <2> QED BY <2>1, <2>4, KnownKeeps
<1>5. CASE RangeOverMap \/ RangeEnds
  <2>1. UNCHANGED <<answer, how, thisMap>>
    BY <1>5 DEF RangeOverMap, RangeEnds
  <2>2. workers' = workers \/ \E payload \in Seq(Items) : Invoke(payload)
    <3>1. \A i \in dist.left : Append(dist.payload, i) \in Seq(Items)
      BY <1>1
    <3> QED BY <1>1, <1>5, <3>1 DEF RangeOverMap, RangeEnds
  <2>3. \A t \in Slots : workers'[t] = workers[t] \/ workers'[t].pc = "start"
    BY <1>1, <2>2, InvokeIs
  <2>4. \A t \in Slots : workers'[t] = workers[t] \/ workers'[t].pc \notin {"delete", "send"}
    BY <2>3
  <2> QED BY <2>1, <2>4, KnownKeeps
<1>6. ASSUME NEW s \in Slots, Worker(s) PROVE KnownInv'
  BY <1>6, KnownWorker
<1>7. SendError \/ SendItem \/ Local \/ Loop \/ Collect \/ StartWalk \/ Visit \/ Close
        => UNCHANGED <<answer, how, thisMap, workers>>
  BY DEF SendError, SendItem, Local, Loop, Collect, StartWalk, Visit, Close, FetcherOnly
<1>8. Renderer \/ WaitGroup \/ UNCHANGED vars => UNCHANGED <<answer, how, thisMap, workers>>
  BY DEF Renderer, RenderCanceled, RenderDone, WaitGroup, vars
<1> QED BY <1>2, <1>3, <1>4, <1>5, <1>6, <1>7, <1>8, Zenon DEF Next, Fetcher, Distributor

-----------------------------------------------------------------------------
(* What is excused stays excused *)

\* An excuse lasts: the query stays canceled, an error that will be reported is reported.
LEMMA ExcusedKeeps ==
  ASSUME Excused, how' = how, canceled => canceled',
         reported \in Nat, reported' \in Nat, reported' >= reported,
         Will(todo, "cancel") => canceled' \/ Will(todo', "cancel") \/ (~OnePer /\ Will(todo', "err")),
         Will(todo, "err") => canceled' \/ reported' > 0 \/ Will(todo', "err"),
         dist.pc = "idle" /\ todo \in Without("iterate") =>
            dist'.pc = "idle" /\ todo' \in Without("iterate")
  PROVE  Excused'
<1>1. OnePer' <=> OnePer
  BY DEF OnePer
<1>2. \/ canceled' \/ Will(todo', "cancel")
      \/ ~OnePer /\ (reported' > 0 \/ Will(todo', "err"))
      \/ dist'.pc = "idle" /\ todo' \in Without("iterate")
  <2>1. CASE canceled \/ Will(todo, "cancel")
    BY <2>1
  <2>2. CASE ~OnePer /\ reported > 0
    BY <2>2
  <2>3. CASE ~OnePer /\ Will(todo, "err")
    BY <2>3
  <2>4. CASE dist.pc = "idle" /\ todo \in Without("iterate")
    BY <2>4
  <2> QED BY <2>1, <2>2, <2>3, <2>4, Zenon DEF Excused
<1> QED BY <1>1, <1>2, Zenon DEF Excused

\* The fetcher goes on with its next statement.
LEMMA TailExcused ==
  ASSUME StreamInv, Excused, todo # <<>>, todo' = Tail(todo), how' = how, canceled => canceled',
         reported' \in Nat, reported' >= reported,
         todo[1].op = "cancel" => canceled', todo[1].op = "err" => reported' > 0,
         dist'.pc = dist.pc \/ todo[1].op = "iterate"
  PROVE  Excused'
<1>1. todo \in Seq(Statements) /\ reported \in Nat
  BY DEF StreamInv, TypeInv
<1>2. \A op : /\ Will(todo, op) => todo[1].op = op \/ Will(Tail(todo), op)
              /\ todo \in Without(op) => Tail(todo) \in Without(op) /\ todo[1].op # op
  BY <1>1, WillTail DEF Without
<1>3. /\ Will(todo, "cancel") => canceled' \/ Will(todo', "cancel")
      /\ Will(todo, "err") => reported' > 0 \/ Will(todo', "err")
      /\ dist.pc = "idle" /\ todo \in Without("iterate") =>
            dist'.pc = "idle" /\ todo' \in Without("iterate")
  BY <1>2
<1> QED BY <1>1, <1>3, ExcusedKeeps

\* The fetcher says this instead of the rest.
LEMMA ErrorWill ==
  /\ Arm(<<"err", "return">>) \in Without("iterate") /\ Will(Arm(<<"err", "return">>), "err")
  /\ Arm(<<"err">>) \in Seq(Statements) /\ Arm(<<"err">>) \in Without("return")
  /\ Arm(<<"err">>) \in Without("iterate") /\ Will(Arm(<<"err">>), "err")
<1>1. \A ops \in {<<"err">>, <<"err", "return">>} :
         /\ Arm(ops) \in Seq(Statements) /\ Len(Arm(ops)) = Len(ops)
         /\ \A k \in DOMAIN ops : Arm(ops)[k].op = ops[k]
  BY ErrArms DEF Programs
<1>2. /\ Len(Arm(<<"err">>)) = 1 /\ Arm(<<"err">>) \in Seq(Statements) /\ Arm(<<"err">>)[1].op = "err"
      /\ Len(Arm(<<"err", "return">>)) = 2 /\ Arm(<<"err", "return">>) \in Seq(Statements)
      /\ Arm(<<"err", "return">>)[1].op = "err" /\ Arm(<<"err", "return">>)[2].op = "return"
  BY <1>1
<1> QED BY <1>2 DEF Without, Will

\* A step of the fetcher.
LEMMA ExcusedFetcher == ASSUME StreamInv, KnownInv, Excused, Fetcher PROVE Excused'
<1>0. TypeInv /\ todo \in Seq(Statements) /\ reported \in Nat /\ Ordered(todo)
  BY DEF StreamInv, TypeInv
<1>1. CASE SendError
  <2>1. todo # <<>> /\ todo[1].op = "err" /\ todo' = Tail(todo)
    BY <1>0, <1>1, HeadIs DEF SendError
  <2>2. how' = how /\ canceled' = canceled /\ dist' = dist /\ reported' = reported + 1
    BY <1>1 DEF SendError, FetcherOnly, ReceiveError
  <2> QED BY <1>0, <2>1, <2>2, TailExcused
<1>2. CASE SendItem
  <2>1. todo # <<>> /\ todo[1].op = "item" /\ todo' = Tail(todo)
    BY <1>0, <1>2, HeadIs DEF SendItem
  <2>2. how' = how /\ canceled' = canceled /\ dist' = dist /\ reported' = reported
    BY <1>2 DEF SendItem, FetcherOnly, Receive
  <2> QED BY <1>0, <2>1, <2>2, TailExcused
<1>3. CASE Local
  <2>1. how' = how /\ dist' = dist /\ reported' = reported
    BY <1>3 DEF Local, FetcherOnly
  <2>2. CASE Is("cancel") /\ canceled' = TRUE /\ todo' = Tail(todo)
    <3>1. todo # <<>> /\ todo[1].op = "cancel" /\ todo' = Tail(todo)
      BY <1>0, <2>2, HeadIs
    <3> QED BY <1>0, <2>1, <2>2, <3>1, TailExcused
  <2>3. CASE Is("warn") /\ todo' = Tail(todo) /\ UNCHANGED canceled
    <3>1. todo # <<>> /\ todo[1].op = "warn" /\ todo' = Tail(todo)
      BY <1>0, <2>3, HeadIs
    <3> QED BY <1>0, <2>1, <2>3, <3>1, TailExcused
  <2>4. CASE Is("return") /\ todo' = <<>> /\ UNCHANGED canceled
    <3>1. todo # <<>> /\ todo[1].op = "return"
      BY <1>0, <2>4, HeadIs
    <3>2. ~ Will(todo, "cancel") /\ ~ Will(todo, "err")
      BY <1>0, <3>1, WillTail
    <3>3. todo' \in Without("iterate")
      BY <2>4, WithoutConcat
    <3> QED BY <1>0, <2>1, <2>4, <3>2, <3>3, ExcusedKeeps
  <2> QED BY <1>3, <2>2, <2>3, <2>4 DEF Local
<1>4. CASE Loop
  <2>1. how' = how /\ dist' = dist /\ reported' = reported /\ canceled' = canceled
    BY <1>4 DEF Loop, FetcherOnly
  <2>2. CASE Is("group") /\ todo' = Tail(todo)
    <3>1. todo # <<>> /\ todo[1].op = "group" /\ todo' = Tail(todo)
      BY <1>0, <2>2, HeadIs
    <3> QED BY <1>0, <2>1, <3>1, TailExcused
  <2>3. CASE Is("check") /\ todo' = (IF canceled THEN <<>>
                        ELSE IF counter.finished THEN SubSeq(todo, 5, Len(todo))
                        ELSE Tail(todo))
    <3>1. todo # <<>> /\ todo[1].op = "check"
      BY <1>0, <2>3, HeadIs
    <3>2. CASE canceled
      BY <2>1, <3>2 DEF Excused
    <3>3. CASE ~canceled /\ counter.finished
      <4>1. todo' = SubSeq(todo, 5, Len(todo))
        BY <2>3, <3>3
      <4>2. /\ Will(todo, "cancel") => Will(todo', "cancel")
            /\ Will(todo, "err") => Will(todo', "err")
            /\ todo \in Without("iterate") => todo' \in Without("iterate")
        BY <1>0, <3>1, <4>1, WillSkip
      <4> QED BY <1>0, <2>1, <4>2, ExcusedKeeps
    <3>4. CASE ~canceled /\ ~counter.finished
      <4>1. todo' = Tail(todo)
        BY <2>3, <3>4
      <4> QED BY <1>0, <2>1, <3>1, <4>1, TailExcused
    <3> QED BY <3>2, <3>3, <3>4
  <2> QED BY <1>4, <2>2, <2>3 DEF Loop
<1>5. CASE Iterate
  <2>1. todo # <<>> /\ todo[1].op = "iterate" /\ todo' = Tail(todo)
    BY <1>0, <1>5, HeadIs DEF Iterate
  <2>2. how' = how /\ canceled' = canceled /\ reported' = reported
    BY <1>5 DEF Iterate
  <2> QED BY <1>0, <2>1, <2>2, TailExcused
<1>6. CASE Drain
  <2>1. todo # <<>> /\ todo[1].op = "drain"
    BY <1>0, <1>6, HeadIs DEF Drain
  <2>2. how' = how /\ canceled' = canceled /\ reported' = reported /\ dist' = dist
    BY <1>6 DEF Drain
  <2>3. CASE todo' = Tail(todo)
    BY <1>0, <2>1, <2>2, <2>3, TailExcused
  <2>4. ASSUME NEW s \in Slots, workers[s].pc = "failed",
               todo' = IF how.drain = "first" THEN Arm(<<"err", "return">>) ELSE Arm(<<"err">>) \o todo
        PROVE  Excused'
    <3>1. dist.pc # "idle"
      BY <2>4 DEF StreamInv, WorkInv
    <3>2. CASE how.drain = "first"
      <4>1. ~ OnePer
        BY <3>2 DEF OnePer, Deletes
      <4>2. Will(todo', "err")
        BY <2>4, <3>2, ErrorWill
      <4> QED BY <1>0, <2>2, <3>1, <4>1, <4>2, ExcusedKeeps
    <3>3. CASE how.drain # "first"
      <4>1. todo' = Arm(<<"err">>) \o todo
        BY <2>4, <3>3
      <4>2. Will(todo, "cancel") => Will(todo', "cancel")
        BY <1>0, <4>1, ErrorWill, WillConcat
      <4>3. Will(todo', "err")
        BY <1>0, <4>1, ErrorWill, WillConcat
      <4> QED BY <1>0, <2>2, <3>1, <4>2, <4>3, ExcusedKeeps
    <3> QED BY <3>2, <3>3
  <2> QED BY <1>6, <2>3, <2>4 DEF Drain
<1>7. CASE Collect
  <2>1. todo # <<>> /\ todo[1].op = "collect"
    BY <1>0, <1>7, HeadIs DEF Collect
  <2>2. how' = how /\ canceled' = canceled /\ reported' = reported /\ dist' = dist
    BY <1>7 DEF Collect
  <2>3. CASE todo' = todo
    BY <1>0, <2>2, <2>3, ExcusedKeeps
  <2>4. CASE Unreconciled /\ todo' = Arm(<<"err", "return">>)
    <3>1. ~ OnePer
      BY <2>4 DEF OnePer, KnownInv, Unreconciled
    <3> QED BY <1>0, <2>2, <2>4, <3>1, ErrorWill, ExcusedKeeps
  <2>5. CASE todo' = Sends(Counted(Collected).pass) \o Tail(todo)
    <3>1. PICK recs : recs = Counted(Collected).pass /\ recs \in Seq(Items)
                      /\ (how.collect # "append" => \A k \in DOMAIN recs : recs[k] \in DOMAIN thisMap)
      <4>1. counter \in [seen : Nat, exported : 0 .. MaxRecords, finished : BOOLEAN]
        BY <1>0 DEF TypeInv
      <4>2. CASE how.collect = "append"
        <5>1. Counted(Collected).pass \in Seq(Items)
          BY <1>0, <4>1, CollectedIs, CountedIs
        <5> QED BY <4>2, <5>1
      <4>3. CASE how.collect # "append"
        <5>1. Collected \in Seq(DOMAIN thisMap)
          BY <1>0, <4>3, CollectedIs
        <5>2. Counted(Collected).pass \in Seq(DOMAIN thisMap)
          BY <4>1, <5>1, CountedIs
        <5>3. DOMAIN thisMap \subseteq Items
          BY <1>0 DEF TypeInv
        <5> QED BY <5>2, <5>3
      <4> QED BY <4>2, <4>3
    <3>2. PICK a \in Seq(Statements) : a = Sends(recs) /\ a \in Without("return") /\ a \in Without("iterate")
      BY <1>0, <3>1, SendsSpell DEF Without
    <3>3. PICK b \in Seq(Statements) : b = Tail(todo)
      BY <1>0, <2>1, WillTail
    <3>4. todo' = a \o b
      BY <2>5, <3>1, <3>2, <3>3
    <3>5. \A op \in {"cancel", "err"} : Will(todo, op) => Will(b, op)
      BY <1>0, <2>1, <3>3, WillTail
    <3>6. \A op \in {"cancel", "err"} : Will(b, op) => Will(a \o b, op)
      BY <3>2, WillConcat
    <3>7. todo \in Without("iterate") => a \o b \in Without("iterate")
      BY <1>0, <2>1, <3>2, <3>3, WillTail, WithoutConcat
    <3> QED BY <1>0, <2>2, <3>4, <3>5, <3>6, <3>7, ExcusedKeeps
  <2> QED BY <1>7, <2>3, <2>4, <2>5 DEF Collect
<1>8. CASE StartWalk \/ Visit
  <2>1. todo # <<>> /\ todo[1].op \in {"walk", "visit"} /\ todo' = Tail(todo)
    BY <1>0, <1>8, HeadIs DEF StartWalk, Visit
  <2>2. how' = how /\ canceled' = canceled /\ reported' = reported /\ dist' = dist
    BY <1>8 DEF StartWalk, Visit
  <2> QED BY <1>0, <2>1, <2>2, TailExcused
<1>9. CASE Close
  <2>1. how' = how /\ canceled' = canceled /\ reported' = reported /\ dist' = dist /\ todo' = todo
    BY <1>9 DEF Close
  <2> QED BY <1>0, <2>1, ExcusedKeeps
<1> QED BY <1>1, <1>2, <1>3, <1>4, <1>5, <1>6, <1>7, <1>8, <1>9 DEF Fetcher

\* The others leave the statements alone.
LEMMA ExcusedStep == StreamInv /\ KnownInv /\ Excused /\ [Next]_vars => Excused'
<1> SUFFICES ASSUME StreamInv, KnownInv, Excused, [Next]_vars PROVE Excused'
  OBVIOUS
<1>0. reported \in Nat
  BY DEF StreamInv, TypeInv
<1>1. CASE Fetcher
  BY <1>1, ExcusedFetcher
<1>2. CASE Renderer \/ UNCHANGED vars
  <2>1. how' = how /\ canceled' = canceled /\ reported' = reported /\ dist' = dist /\ todo' = todo
    BY <1>2 DEF Renderer, RenderCanceled, RenderDone, vars
  <2> QED BY <1>0, <2>1, ExcusedKeeps
<1>3. CASE Distributor
  <2>1. /\ how' = how /\ canceled' = canceled /\ reported' = reported /\ todo' = todo
        /\ dist.pc # "idle"
    BY <1>3 DEF Distributor, RangeOverMap, RangeEnds, WaitGroup
  <2> QED BY <1>0, <2>1, ExcusedKeeps
<1>4. ASSUME NEW s \in Slots, Worker(s) PROVE Excused'
  <2>1. how' = how /\ canceled' = canceled /\ dist' = dist /\ todo' = todo
    BY <1>4 DEF Worker, Begin, Step, AppendItem, Delete, SendDirect, WorkerOnly
  <2>2. reported' \in {reported, reported + 1}
    BY <1>4 DEF Worker, Begin, Step, AppendItem, Delete, SendDirect, ReceiveError
  <2> QED BY <1>0, <2>1, <2>2, ExcusedKeeps
<1> QED BY <1>1, <1>2, <1>3, <1>4 DEF Next

-----------------------------------------------------------------------------
(* The start *)

\* What is settled depends on the answers and on the handler.
LEMMA SettledSame ==
  ASSUME answer' = answer, how' = how
  PROVE  /\ \A q, n, c : Settled(q, n, c)' <=> Settled(q, n, c)
         /\ (LostCase' <=> LostCase) /\ (OnePer' <=> OnePer)
         /\ \A i : Failing(i)' <=> Failing(i)
<1>1. \A a, b : GoodIn(a, b)' = GoodIn(a, b)
  BY DEF GoodIn, Good
<1>2. \A n : Chosen(n)' = Chosen(n) /\ Count(n)' = Count(n)
  BY <1>1 DEF Chosen, Count
<1>3. \A c, n : CountsTo(c, n)' <=> CountsTo(c, n)
  BY <1>2 DEF CountsTo
<1> QED BY <1>2, <1>3 DEF Settled, LostCase, OnePer, Failing

\* Before the first item nothing is settled.
LEMMA SettledNone ==
  ASSUME NEW c, c.seen = 0, c.exported = 0, c.finished = FALSE
  PROVE  Settled(<<>>, 0, c)
<1>1. GoodIn(0, 0) = {}
  BY DEF GoodIn
<1>2. Chosen(0) = {}
  BY <1>1 DEF Chosen
<1>3. Count(0) = 0
  BY CountIs
<1>4. Passed(0) = 0
  BY StreamAssumption DEF Passed, From
<1>5. CountsTo(c, 0)
  BY <1>3, <1>4 DEF CountsTo
<1> QED BY <1>2, <1>5, OrderEmpty DEF Settled

\* One way to be between two maps.
LEMMA SendingIf ==
  ASSUME NEW n \in Nat, NEW pre, NEW u, NEW pend, todo = pre \o u, Spells(pre, pend), Plan(u, n, NItems),
         Settled(ShownItems \o pend, n, counter)
  PROVE  Sending
<1>1. pre \in Seq(Statements) /\ u \in Seq(Statements)
  BY SpellsCases, PlanCases
<1>2. PICK q, c : q = ShownItems /\ c = counter
  OBVIOUS
<1> QED BY <1>1, <1>2 DEF Sending

\* At the start nothing is stored.
LEMMA KnownStart == Init => KnownInv
<1> SUFFICES ASSUME Init PROVE KnownInv
  OBVIOUS
<1>1. PICK h \in Handlers : how = h.how
  BY DEF Init
<1>2. thisMap = [i \in {} |-> "blank"] /\ workers = [s \in Slots |-> Idle]
  BY DEF Init
<1>3. \A s \in Slots : workers[s].pc = "idle"
  BY <1>2 DEF Idle
<1>4. DOMAIN thisMap = {}
  BY <1>2
<1> QED BY <1>1, <1>3, <1>4, BatchedAssumption DEF KnownInv

\* At the start the query is a plan of all its items, or excused.
LEMMA LostStart == Init => LostInv
<1> SUFFICES ASSUME Init PROVE LostInv
  OBVIOUS
<1>1. /\ dist.pc = "idle" /\ shown = <<>>
      /\ counter.seen = 0 /\ counter.exported = 0 /\ counter.finished = FALSE
  BY DEF Init, NoIteration
<1>2. PICK h \in Handlers, res \in [1 .. 2 -> {"ok", "notFound", "fail", "empty"}], ans \in [Items -> Answers] :
         /\ Possible(h, res, ans) /\ how = h.how
         /\ todo = FetchData(h, res, ans) \/ todo = <<>>
  <2>1. PICK h \in Handlers, res \in [1 .. 2 -> {"ok", "notFound", "fail", "empty"}], ans \in [Items -> Answers] :
         /\ Possible(h, res, ans) /\ how = h.how
         /\ \E ready \in IF h.mayRefuse THEN BOOLEAN ELSE {TRUE} : Start(h, res, ans, ready)
    BY Zenon DEF Init
  <2>2. todo = FetchData(h, res, ans) \/ todo = <<>>
    BY <2>1, Zenon DEF Start
  <2> QED BY <2>1, <2>2
<1>4. CASE todo \in Without("iterate")
  BY <1>1, <1>4, KnownStart DEF LostInv, Excused
<1>5. CASE Trouble(h, todo)
  <2>1. ~ OnePer \/ Will(todo, "cancel")
    BY <1>2, <1>5 DEF OnePer, Trouble
  <2> QED BY <1>5, <2>1, KnownStart DEF LostInv, Excused, Trouble
<1>6. CASE Plan(todo, 0, NItems)
  <2>1. PICK u \in Seq(Statements) : u = todo
    BY <1>6, PlanCases
  <2>2. todo = <<>> \o u
    BY <2>1
  <2>3. ShownItems \o <<>> = <<>>
    BY <1>1 DEF ShownItems
  <2>4. Settled(ShownItems \o <<>>, 0, counter)
    BY <1>1, <2>3, SettledNone
  <2>5. Sending
    BY <1>6, <2>1, <2>2, <2>4, SpellsNone, SendingIf
  <2> QED BY <2>5, KnownStart DEF LostInv
<1>7. <<>> \in Without("iterate")
  BY WithoutConcat
<1> QED BY <1>2, <1>4, <1>5, <1>6, <1>7, FetchPlan

-----------------------------------------------------------------------------
(* Before a map, and between two *)

\* A record that is rendered is shown behind the others.
LEMMA ShownMore ==
  ASSUME TypeInv, NEW i \in Items, NEW v \in {"fetched", "blank"}, shown' = Append(shown, <<i, v>>)
  PROVE  ShownItems \in Seq(Items) /\ ShownItems' = ShownItems \o << i >>
<1>1. PICK s \in Seq(Items \X {"fetched", "blank"}) : s = shown
  BY DEF TypeInv
<1>2. /\ ShownItems \in Seq(Items) /\ Len(ShownItems) = Len(s)
      /\ \A k \in 1 .. Len(s) : ShownItems[k] = s[k][1]
  BY <1>1 DEF ShownItems
<1>3. PICK t \in Seq(Items \X {"fetched", "blank"}) : t = Append(s, <<i, v>>)
  <2>1. PICK r \in Items \X {"fetched", "blank"} : r = <<i, v>>
    OBVIOUS
  <2>2. \A S : \A x \in Seq(S), y \in S : Append(x, y) \in Seq(S)
    OBVIOUS
  <2> QED BY <2>1, <2>2, Zenon
<1>4. /\ Len(t) = Len(s) + 1 /\ t[Len(s) + 1] = <<i, v>>
      /\ \A k \in 1 .. Len(s) : t[k] = s[k]
  BY <1>3
<1>5. PICK b : b = ShownItems'
  OBVIOUS
<1>a. PICK a : a = ShownItems
  OBVIOUS
<1>6. a \in Seq(Items) /\ Len(a) = Len(s) /\ \A k \in 1 .. Len(s) : a[k] = s[k][1]
  BY <1>2, <1>a
<1>7. b = [k \in 1 .. Len(t) |-> t[k][1]]
  BY <1>1, <1>3, <1>5 DEF ShownItems
<1>8. b \in Seq(Items) /\ Len(b) = Len(s) + 1 /\ \A k \in 1 .. Len(s) + 1 : b[k] = t[k][1]
  BY <1>4, <1>7
<1>9. b = a \o << i >>
  <2>1. /\ (a \o << i >>) \in Seq(Items) /\ Len(a \o << i >>) = Len(s) + 1
        /\ \A k \in 1 .. Len(s) : (a \o << i >>)[k] = a[k]
        /\ (a \o << i >>)[Len(s) + 1] = i
    BY <1>6
  <2>2. \A k \in 1 .. Len(s) + 1 : b[k] = (a \o << i >>)[k]
    BY <1>4, <1>6, <1>8, <2>1
  <2> QED BY <1>8, <2>1, <2>2
<1> QED BY <1>5, <1>a, <1>6, <1>9

\* Sequences that are put together.
LEMMA SeqsOf ==
  ASSUME NEW S
  PROVE  /\ <<>> \in Seq(S)
         /\ \A x \in S : << x >> \in Seq(S)
         /\ \A a, b \in Seq(S) : a \o b \in Seq(S)
OBVIOUS

\* A sequence of two, three or four, put together from its first and the others.
LEMMA Longer ==
  ASSUME NEW S, NEW x \in S, NEW t \in Seq(S), NEW a, a = << x >> \o t
  PROVE  /\ a \in Seq(S) /\ Len(a) = Len(t) + 1 /\ a[1] = x
         /\ \A k \in 1 .. Len(t) : a[k + 1] = t[k]
<1>1. PICK b \in Seq(S) : b = << x >>
  BY SeqsOf, Zenon
<1>2. Len(b) = 1 /\ b[1] = x
  BY <1>1
<1>3. a = b \o t
  BY <1>1, Zenon
<1>4. /\ a \in Seq(S) /\ Len(a) = 1 + Len(t) /\ a[1] = b[1]
      /\ \A k \in 1 .. Len(t) : a[1 + k] = t[k]
  BY <1>1, <1>2, <1>3
<1>5. \A k \in 1 .. Len(t) : k + 1 = 1 + k
  OBVIOUS
<1> QED BY <1>2, <1>4, <1>5

\* Two, and three, statements as the ones put together.
LEMMA TwoIs ==
  ASSUME NEW S, NEW x \in S, NEW y \in S
  PROVE  << x, y >> = << x >> \o << y >> /\ << x, y >> \in Seq(S)
<1>1. PICK t \in Seq(S) : t = << y >>
  BY SeqsOf, Zenon
<1>2. Len(t) = 1 /\ t[1] = y
  BY <1>1
<1>3. PICK d : d = << x >> \o t
  OBVIOUS
<1>4. d \in Seq(S) /\ Len(d) = 2 /\ d[1] = x /\ d[1 + 1] = y
  BY <1>1, <1>2, <1>3, Longer
<1>5. << x, y >> \in Seq(S)
  OBVIOUS
<1>6. PICK c \in Seq(S) : c = << x, y >>
  BY <1>5, Zenon
<1>7. Len(c) = 2 /\ c[1] = x /\ c[2] = y
  BY <1>6
<1>8. c = d
  BY <1>4, <1>6, <1>7
<1> QED BY <1>1, <1>3, <1>6, <1>8, <1>5, Zenon
LEMMA ThreeIs ==
  ASSUME NEW S, NEW x \in S, NEW y \in S, NEW z \in S
  PROVE  << x, y, z >> = << x >> \o << y, z >> /\ << x, y, z >> \in Seq(S)
<1>1. << x, y, z >> \in Seq(S)
  OBVIOUS
<1>2. << x, y, z >> = << x >> \o << y, z >>
  OBVIOUS
<1> QED BY <1>1, <1>2

\* The four statements of a map, one after the other.
Parted(a, x, y, z, w, v) == a = << x >> \o (<< y >> \o (<< z >> \o (<< w >> \o v)))
LEMMA FourIs ==
  ASSUME NEW S, NEW x \in S, NEW y \in S, NEW z \in S, NEW w \in S, NEW v \in Seq(S)
  PROVE  /\ << x, y, z, w >> \in Seq(S) /\ << x, y, z, w >>[2] = y /\ 2 \in DOMAIN << x, y, z, w >>
         /\ Parted(<< x, y, z, w >> \o v, x, y, z, w, v)
<1>1. PICK a \in Seq(S) : a = << x >>
  BY SeqsOf, Zenon
<1>2. PICK b \in Seq(S) : b = << y >>
  BY SeqsOf, Zenon
<1>3. PICK c \in Seq(S) : c = << z >>
  BY SeqsOf, Zenon
<1>4. PICK d \in Seq(S) : d = << w >>
  BY SeqsOf, Zenon
<1>5. PICK cd \in Seq(S) : cd = << z, w >> /\ cd = << z >> \o << w >>
  BY TwoIs, Zenon
<1>6. PICK bcd \in Seq(S) : bcd = << y, z, w >> /\ bcd = << y >> \o << z, w >>
  BY ThreeIs, Zenon
<1>7. << x, y, z, w >> \in Seq(S)
  OBVIOUS
<1>8. << x, y, z, w >> = << x >> \o << y, z, w >>
  OBVIOUS
<1>9. PICK abcd \in Seq(S) : abcd = << x, y, z, w >>
  BY <1>7, Zenon
<1>10. abcd = a \o bcd /\ bcd = b \o cd /\ cd = c \o d
  BY <1>1, <1>2, <1>3, <1>4, <1>5, <1>6, <1>8, <1>9, Zenon
<1>11. /\ abcd \o v = a \o (bcd \o v)
       /\ bcd \o v = b \o (cd \o v)
       /\ cd \o v = c \o (d \o v)
  <2>1. /\ a \in Seq(S) /\ b \in Seq(S) /\ c \in Seq(S) /\ d \in Seq(S)
        /\ cd \in Seq(S) /\ bcd \in Seq(S)
    BY <1>1, <1>2, <1>3, <1>4, <1>5, <1>6, Zenon
  <2>2. abcd \o v = a \o (bcd \o v)
    <3>1. abcd = a \o bcd
      BY <1>10, Zenon
    <3>2. (a \o bcd) \o v = a \o (bcd \o v)
      <4>1. Regroups(a, bcd, v)
        BY <2>1, Reassociated, Zenon
      <4> QED BY <4>1, Zenon DEF Regroups
    <3> QED BY <3>1, <3>2, Zenon
  <2>3. bcd \o v = b \o (cd \o v)
    <3>1. bcd = b \o cd
      BY <1>10, Zenon
    <3>2. (b \o cd) \o v = b \o (cd \o v)
      <4>1. Regroups(b, cd, v)
        BY <2>1, Reassociated, Zenon
      <4> QED BY <4>1, Zenon DEF Regroups
    <3> QED BY <3>1, <3>2, Zenon
  <2>4. cd \o v = c \o (d \o v)
    <3>1. cd = c \o d
      BY <1>10, Zenon
    <3>2. (c \o d) \o v = c \o (d \o v)
      <4>1. Regroups(c, d, v)
        BY <2>1, Reassociated, Zenon
      <4> QED BY <4>1, Zenon DEF Regroups
    <3> QED BY <3>1, <3>2, Zenon
  <2> QED BY <2>2, <2>3, <2>4
<1>12. << x, y, z, w >>[2] = y /\ 2 \in DOMAIN << x, y, z, w >>
  OBVIOUS
<1>13. << x, y, z, w >> \o v = << x >> \o (<< y >> \o (<< z >> \o (<< w >> \o v)))
  BY <1>1, <1>2, <1>3, <1>4, <1>9, <1>11, Zenon
<1> QED BY <1>7, <1>12, <1>13, Zenon DEF Parted

\* A block is checked first; then comes the map.
InBlock(s, n, m, v) ==
    /\ m <= NItems /\ s # <<>> /\ Head(s) = Stmt("check")
    /\ AtMap(Tail(s), n, m, v) /\ Tail(Tail(Tail(Tail(s)))) = v
LEMMA BlockParts ==
  ASSUME NEW n \in Nat, NEW m \in Nat, n < m, NEW v \in Seq(Statements),
         NEW s \in Seq(Statements), s = Block(n, m) \o v
  PROVE  InBlock(s, n, m, v)
<1>1. m <= NItems
  <2> DEFINE S == Statements \cup {Mapping(n, m)}
  <2>1. Stmt("check") \in Statements /\ Stmt("drain") \in Statements /\ Stmt("collect") \in Statements
    BY StatementFacts DEF Ops, ArmOps
  <2>2. PICK x, y, z, w \in S : x = Stmt("check") /\ y = Mapping(n, m) /\ z = Stmt("drain") /\ w = Stmt("collect")
    BY <2>1
  <2> HIDE DEF S
  <2>3. Statements \subseteq S
    BY DEF S
  <2>4. PICK b \in Seq(S) : b = << x, y, z, w >> /\ b[2] = y /\ 2 \in DOMAIN b
    <3>1. PICK v0 \in Seq(S) : v0 = <<>>
      BY SeqsOf, Zenon
    <3>2. << x, y, z, w >> \in Seq(S) /\ << x, y, z, w >>[2] = y /\ 2 \in DOMAIN << x, y, z, w >>
      BY FourIs, <3>1, Zenon
    <3> QED BY <3>2, Zenon
  <2>5. v \in Seq(S)
    BY <2>3
  <2>6. s = b \o v
    BY <2>2, <2>4 DEF Block
  <2>7. 2 \in DOMAIN s /\ s[2] = Mapping(n, m)
    BY <2>2, <2>4, <2>5, <2>6, ParallelIs
  <2>8. Mapping(n, m) \in Statements
    BY <2>7
  <2>9. (n + 1 .. m) \subseteq Items
    BY <2>8, StatementFacts DEF Mapping
  <2> QED BY <2>9 DEF Items
<1>2. PICK x, y, z, w \in Statements : x = Stmt("check") /\ y = Mapping(n, m) /\ z = Stmt("drain") /\ w = Stmt("collect")
  BY <1>1, BlockIs
<1>3. s = << x >> \o (<< y >> \o (<< z >> \o (<< w >> \o v)))
  <2>1. Parted(<< x, y, z, w >> \o v, x, y, z, w, v)
    BY <1>2, FourIs, Zenon
  <2>2. Block(n, m) = << x, y, z, w >>
    BY <1>2, Zenon DEF Block
  <2> QED BY <2>1, <2>2, Zenon DEF Parted
<1>4. PICK d \in Seq(Statements) : d = << w >> \o v /\ Tail(d) = v
  BY ConsIs
<1>5. PICK c \in Seq(Statements) : c = << z >> \o d /\ Tail(c) = d
  BY ConsIs
<1>6. PICK b \in Seq(Statements) : b = << y >> \o c /\ Tail(b) = c
  BY ConsIs
<1>7. s = << x >> \o b
  BY <1>3, <1>4, <1>5, <1>6
<1>8. s # <<>> /\ Head(s) = x /\ Tail(s) = b
  BY <1>7, ConsIs
<1>9. AtCollect(d, v)
  BY <1>2, <1>4 DEF AtCollect
<1>10. AtDrain(c, v)
  BY <1>2, <1>5, <1>9 DEF AtDrain
<1>11. AtMap(b, n, m, v)
  BY <1>2, <1>6, <1>10 DEF AtMap
<1> QED BY <1>1, <1>2, <1>4, <1>5, <1>6, <1>8, <1>11 DEF InBlock

\* What is behind a map that is passed over.
LEMMA SkipTail ==
  ASSUME NEW s \in Seq(Statements), s # <<>>, Ordered(s), s[1].op = "check"
  PROVE  SubSeq(s, 5, Len(s)) = Tail(Tail(Tail(Tail(s))))
<1>1. PICK a, b, c \in Seq(Statements) :
           /\ a = Tail(s) /\ a # <<>> /\ a[1].op = "iterate"
           /\ b = Tail(a) /\ b # <<>> /\ b[1].op = "drain"
           /\ c = Tail(b) /\ c # <<>> /\ c[1].op = "collect"
           /\ SubSeq(s, 5, Len(s)) = Tail(c)
  BY SkipParts
<1> QED BY <1>1

\* The fetcher does what is next.
LEMMA FetcherBy ==
  ASSUME Fetcher
  PROVE  \/ todo = <<>> /\ Close
         \/ /\ todo # <<>> /\ ~crashed
            /\ \/ Head(todo).op = "err" /\ SendError
               \/ Head(todo).op = "item" /\ SendItem
               \/ Head(todo).op \in {"cancel", "warn", "return"} /\ Local
               \/ Head(todo).op \in {"group", "check"} /\ Loop
               \/ Head(todo).op = "iterate" /\ Iterate
               \/ Head(todo).op = "drain" /\ Drain
               \/ Head(todo).op = "collect" /\ Collect
               \/ Head(todo).op \in {"walk", "visit"} /\ (StartWalk \/ Visit)
<1>1. \A op : Is(op) => todo # <<>> /\ ~crashed /\ Head(todo).op = op
  BY DEF Is
<1>2. Close => todo = <<>>
  BY DEF Close
<1>3. /\ SendError => Is("err")
      /\ SendItem => Is("item")
      /\ Local => Is("cancel") \/ Is("warn") \/ Is("return")
      /\ Loop => Is("group") \/ Is("check")
  BY Zenon DEF SendError, SendItem, Local, Loop
<1>4. /\ Iterate => Is("iterate")
      /\ Drain => Is("drain")
      /\ Collect => Is("collect")
      /\ StartWalk => Is("walk")
      /\ Visit => Is("visit")
  <2>1. Iterate => Is("iterate")
    BY Zenon DEF Iterate
  <2>2. Drain => Is("drain")
    BY Zenon DEF Drain
  <2>3. Collect => Is("collect")
    BY Zenon DEF Collect
  <2>4. StartWalk => Is("walk")
    BY Zenon DEF StartWalk
  <2>5. Visit => Is("visit")
    BY Zenon DEF Visit
  <2> QED BY <2>1, <2>2, <2>3, <2>4, <2>5, Zenon
<1> QED BY <1>1, <1>2, <1>3, <1>4 DEF Fetcher

\* The answers and the handler stay.
LEMMA NextSame == [Next]_vars => answer' = answer /\ how' = how
  BY DEF Next, Fetcher, SendError, SendItem, Local, Loop, Iterate, Drain, Collect, StartWalk, Visit, Close,
         FetcherOnly, Renderer, RenderCanceled, RenderDone, Distributor, RangeOverMap, RangeEnds, WaitGroup,
         Worker, Begin, Step, AppendItem, Delete, SendDirect, WorkerOnly, vars

\* Steps that lead between two maps, and to a map.
LEMMA SendingNext ==
  ASSUME answer' = answer, how' = how, NEW n \in Nat, NEW pre \in Seq(Statements), NEW u \in Seq(Statements),
         NEW pend, NEW q, NEW c, todo' = pre \o u, Spells(pre, pend), Plan(u, n, NItems),
         q = ShownItems', c = counter', Settled(q \o pend, n, c)
  PROVE  Sending'
<1>1. Settled(q \o pend, n, c)'
  BY SettledSame
<1> QED BY <1>1 DEF Sending

LEMMA StartingNext ==
  ASSUME answer' = answer, how' = how, NEW n \in Nat, NEW m \in Nat, n < m, m <= NItems, m - n <= AppMapSize,
         NEW u \in Seq(Statements), NEW q, NEW c, AtMap(todo', n, m, u), Plan(u, m, NItems),
         q = ShownItems', c = counter', Settled(q, n, c)
  PROVE  Starting'
<1>1. Settled(q, n, c)'
  BY SettledSame
<1> QED BY <1>1 DEF Starting

\* When a group is finished nothing more of it is to be shown.
LEMMA FinishedSame ==
  ASSUME NEW n \in Nat, NEW m \in Nat, n <= m, NEW c, CountsTo(c, n), c.finished
  PROVE  Chosen(m) = Chosen(n) /\ CountsTo(c, m)
<1>0. From \in Nat /\ From # 0 /\ MaxRecords \in Nat /\ MaxRecords # 0 /\ Count(n) \in Nat /\ Count(m) \in Nat
  BY StreamAssumption, CountIs DEF From
<1>1. /\ how.limit # "none" /\ c.exported = MaxRecords /\ c.exported = Passed(Count(n))
      /\ c.exported = Passed(c.seen)
  BY DEF CountsTo
<1>2. Count(n) >= From + MaxRecords - 1
  BY <1>0, <1>1 DEF Passed
<1>3. Count(m) >= Count(n)
  BY CountUp
<1>4. Passed(Count(m)) = MaxRecords
  BY <1>0, <1>2, <1>3 DEF Passed
<1>5. CountsTo(c, m)
  BY <1>1, <1>4 DEF CountsTo
<1>6. ASSUME NEW i \in GoodIn(n, m) PROVE Count(i) \notin From .. From + MaxRecords - 1
  <2>1. i \in n + 1 .. m /\ Good(i)
    BY DEF GoodIn
  <2>2. i - 1 \in Nat /\ i \in Nat /\ n <= i - 1 /\ i - 1 < i
    BY <2>1
  <2>3. GoodIn(i - 1, i - 1) = {}
    BY <2>2 DEF GoodIn
  <2>4. Count(i) = Count(i - 1) + 1
    BY <2>1, <2>2, <2>3, CountNext
  <2>5. Count(i - 1) \in Nat /\ Count(n) <= Count(i - 1)
    BY <2>2, CountUp, CountIs
  <2> QED BY <1>0, <1>2, <2>4, <2>5
<1>7. Chosen(m) \ Chosen(n) = {} /\ Chosen(n) \subseteq Chosen(m)
  BY <1>1, <1>6, ChosenStep
<1> QED BY <1>5, <1>7

\* Between two maps.
LEMMA SendingFetcher ==
  ASSUME StreamInv, LostCase, Sending, Fetcher
  PROVE  Excused' \/ Sending' \/ Starting'
<1>0. TypeInv /\ answer' = answer /\ how' = how
  BY NextSame DEF StreamInv, Next
<1>1. PICK n, pre, u, pend, q, c :
        /\ n \in Nat /\ pre \in Seq(Statements) /\ u \in Seq(Statements)
        /\ todo = pre \o u /\ Spells(pre, pend) /\ Plan(u, n, NItems)
        /\ q = ShownItems /\ c = counter /\ Settled(q \o pend, n, c)
  BY Zenon DEF Sending
<1>n. n \in Nat /\ pre \in Seq(Statements) /\ u \in Seq(Statements)
  BY <1>1
<1>2. q \in Seq(Items)
  <2>1. PICK s \in Seq(Items \X {"fetched", "blank"}) : s = shown
    BY <1>0 DEF TypeInv
  <2>2. ShownItems = [k \in 1 .. Len(s) |-> s[k][1]]
    BY <2>1 DEF ShownItems
  <2>3. Len(s) \in Nat /\ \A k \in 1 .. Len(s) : s[k][1] \in Items
    OBVIOUS
  <2> QED BY <1>1, <2>2, <2>3
<1>a. todo \in Seq(Statements) /\ Ordered(todo)
  BY <1>0 DEF TypeInv
<1>3. CASE pre = <<>> /\ pend = <<>>
  <2>1. todo = u /\ q \o pend = q
    BY <1>1, <1>2, <1>3, ConcatEmptySeq
  <2>2. Settled(q, n, c)
    BY <1>1, <2>1
  <2>3. CASE u = <<>>
    <3>1. UNCHANGED <<todo, shown, counter>>
      BY <2>1, <2>3, FetcherBy DEF Close
    <3>2. q = ShownItems' /\ c = counter'
      BY <1>1, <3>1 DEF ShownItems
    <3> QED BY <1>0, <1>1, <3>1, <3>2, SendingNext
  <2>4. ASSUME NEW v \in Seq(Statements), u = << Stmt("group") >> \o v, Plan(v, n, NItems)
        PROVE  Sending'
    <3>1. PICK x \in Statements : x = Stmt("group") /\ x.op = "group"
      BY StatementFacts DEF Ops
    <3>2. todo # <<>> /\ Head(todo) = x /\ Tail(todo) = v
      BY <2>1, <2>4, <3>1, ConsIs
    <3>3. Loop
      BY <3>1, <3>2, FetcherBy
    <3>4. todo' = v /\ counter' = [counter EXCEPT !.finished = FALSE] /\ shown' = shown
      BY <3>1, <3>2, <3>3 DEF Loop, Is
    <3>5. q = ShownItems'
      BY <1>1, <3>4 DEF ShownItems
    <3>6. PICK d : d = counter'
      OBVIOUS
    <3>7. d.seen = c.seen /\ d.exported = c.exported /\ d.finished = FALSE
      BY <1>0, <1>1, <3>4, <3>6 DEF TypeInv
    <3>8. Settled(q, n, d)
      BY <2>2, <3>7 DEF Settled, CountsTo
    <3>9. todo' = <<>> \o v /\ <<>> \in Seq(Statements) /\ Settled(q \o <<>>, n, d)
      BY <1>2, <3>4, <3>8, ConcatEmptySeq
    <3> QED BY <1>0, <1>n, <2>4, <3>5, <3>6, <3>9, SpellsNone, SendingNext
  <2>5. ASSUME NEW v \in Seq(Statements), NEW m \in Nat, n < m, m - n <= AppMapSize,
               u = Block(n, m) \o v, Plan(v, m, NItems)
        PROVE  Excused' \/ Sending' \/ Starting'
    <3>1. /\ m <= NItems /\ todo # <<>> /\ Head(todo) = Stmt("check")
          /\ AtMap(Tail(todo), n, m, v) /\ Tail(Tail(Tail(Tail(todo)))) = v
      <4>1. todo = Block(n, m) \o v
        BY <2>1, <2>5
      <4>2. InBlock(todo, n, m, v)
        BY <1>1, <1>a, <2>5, <4>1, BlockParts
      <4> QED BY <4>2 DEF InBlock
    <3>2. Head(todo).op = "check" /\ todo[1].op = "check"
      BY <1>a, <3>1, StatementFacts, TailIs DEF Ops
    <3>3. Loop
      BY <3>1, <3>2, FetcherBy
    <3>4. /\ todo' = (IF canceled THEN <<>> ELSE IF counter.finished THEN SubSeq(todo, 5, Len(todo)) ELSE Tail(todo))
          /\ UNCHANGED <<counter, shown, canceled>>
      BY <3>2, <3>3 DEF Loop, Is
    <3>5. q = ShownItems' /\ c = counter'
      BY <1>1, <3>4 DEF ShownItems
    <3>6. CASE canceled
      BY <3>4, <3>6 DEF Excused
    <3>7. CASE ~canceled /\ counter.finished
      <4>1. SubSeq(todo, 5, Len(todo)) = Tail(Tail(Tail(Tail(todo))))
        <5>1. PICK t \in Seq(Statements) : t = todo /\ t # <<>> /\ Ordered(t) /\ t[1].op = "check"
          BY <1>a, <3>1, <3>2
        <5>2. SubSeq(t, 5, Len(t)) = Tail(Tail(Tail(Tail(t))))
          BY <5>1, SkipTail
        <5> QED BY <5>1, <5>2
      <4>2. todo' = v
        BY <3>1, <3>4, <3>7, <4>1
      <4>3. IsOrder(q, Chosen(n)) /\ CountsTo(c, n) /\ c.finished
        BY <1>1, <2>2, <3>7 DEF Settled
      <4>4. Chosen(m) = Chosen(n) /\ CountsTo(c, m)
        BY <1>n, <2>5, <4>3, FinishedSame
      <4>5. Settled(q, m, c)
        BY <4>3, <4>4 DEF Settled
      <4>6. todo' = <<>> \o v /\ <<>> \in Seq(Statements) /\ Settled(q \o <<>>, m, c)
        BY <1>2, <4>2, <4>5, ConcatEmptySeq
      <4> QED BY <1>0, <2>5, <3>5, <4>6, SpellsNone, SendingNext
    <3>8. CASE ~canceled /\ ~counter.finished
      <4>1. AtMap(todo', n, m, v)
        BY <3>1, <3>4, <3>8
      <4> QED BY <1>0, <1>n, <2>2, <2>5, <3>1, <3>5, <4>1, StartingNext
    <3> QED BY <3>6, <3>7, <3>8
  <2> QED BY <1>1, <2>3, <2>4, <2>5, PlanCases
<1>4. ASSUME NEW rest \in Seq(Statements), pre = << Stmt("err") >> \o rest, Spells(rest, pend)
      PROVE  Sending'
  <2>1. PICK x \in Statements : x = Stmt("err") /\ x.op = "err"
    BY StatementFacts DEF Ops, ArmOps
  <2>2. PICK one \in Seq(Statements) : one = << x >>
    BY SeqsOf, Zenon
  <2>3. PICK w \in Seq(Statements) : w = rest \o u
    BY <1>n, SeqsOf, Zenon
  <2>4. todo = << x >> \o w
    <3>1. Regroups(one, rest, u)
      BY <1>n, <1>4, <2>2, Reassociated, Zenon
    <3> QED BY <1>1, <1>4, <2>1, <2>2, <2>3, <3>1, Zenon DEF Regroups
  <2>5. todo # <<>> /\ Head(todo) = x /\ Tail(todo) = w
    BY <2>4, ConsIs
  <2>6. SendError
    BY <2>1, <2>5, FetcherBy
  <2>7. todo' = rest \o u /\ UNCHANGED <<shown, counter>>
    BY <2>3, <2>5, <2>6 DEF SendError, ReceiveError
  <2>8. q = ShownItems' /\ c = counter'
    BY <1>1, <2>7 DEF ShownItems
  <2> QED BY <1>0, <1>1, <1>4, <2>7, <2>8, SendingNext
<1>5. ASSUME NEW rest \in Seq(Statements), NEW r \in Seq(Items), NEW i \in Items, NEW b \in {"fetched", "blank"},
             pre = << Send(i, b) >> \o rest, pend = << i >> \o r, Spells(rest, r)
      PROVE  Sending'
  <2>1. PICK x \in Statements : x = Send(i, b) /\ x.op = "item" /\ x.rec = <<i, b>>
    BY StatementFacts
  <2>2. PICK one \in Seq(Statements) : one = << x >>
    BY SeqsOf, Zenon
  <2>3. PICK w \in Seq(Statements) : w = rest \o u
    BY <1>n, SeqsOf, Zenon
  <2>4. todo = << x >> \o w
    <3>1. Regroups(one, rest, u)
      BY <1>n, <1>5, <2>2, Reassociated, Zenon
    <3> QED BY <1>1, <1>5, <2>1, <2>2, <2>3, <3>1, Zenon DEF Regroups
  <2>5. todo # <<>> /\ Head(todo) = x /\ Tail(todo) = w
    BY <2>4, ConsIs
  <2>6. SendItem
    BY <2>1, <2>5, FetcherBy
  <2>7. todo' = rest \o u /\ UNCHANGED counter /\ shown' = Append(shown, <<i, b>>)
    BY <2>1, <2>3, <2>5, <2>6 DEF SendItem, Receive
  <2>8. PICK d : d = ShownItems'
    OBVIOUS
  <2>9. d = q \o << i >>
    BY <1>0, <1>1, <2>7, <2>8, ShownMore
  <2>10. << i >> \in Seq(Items)
    OBVIOUS
  <2>11. d \o r = q \o pend
    <3>1. Regroups(q, << i >>, r)
      BY <1>2, <1>5, <2>10, Reassociated, Zenon
    <3> QED BY <1>5, <2>9, <3>1, Zenon DEF Regroups
  <2>12. Settled(d \o r, n, c) /\ c = counter'
    BY <1>1, <2>7, <2>11
  <2> QED BY <1>0, <1>1, <1>5, <2>7, <2>8, <2>12, SendingNext
<1>6. SpellsFirst(pre, pend)
  BY <1>1, SpellsCases
<1> QED BY <1>3, <1>4, <1>5, <1>6, Zenon DEF SpellsFirst

-----------------------------------------------------------------------------
(* Within a map *)

\* Nobody else touches what has been settled.
LEMMA QuietSame ==
  ASSUME answer' = answer, how' = how, UNCHANGED <<todo, shown, counter>>
  PROVE  (Sending => Sending') /\ (Starting => Starting')
<1>1. ShownItems' = ShownItems
  BY DEF ShownItems
<1>2. ASSUME Sending PROVE Sending'
  <2>1. PICK n, pre, u, pend, q, c :
          /\ n \in Nat /\ pre \in Seq(Statements) /\ u \in Seq(Statements)
          /\ todo = pre \o u /\ Spells(pre, pend) /\ Plan(u, n, NItems)
          /\ q = ShownItems /\ c = counter /\ Settled(q \o pend, n, c)
    BY <1>2, Zenon DEF Sending
  <2>2. todo' = pre \o u /\ q = ShownItems' /\ c = counter'
    BY <1>1, <2>1
  <2> QED BY <2>1, <2>2, SendingNext
<1>3. ASSUME Starting PROVE Starting'
  <2>1. PICK n, m, u, q, c :
          /\ n \in Nat /\ m \in Nat /\ u \in Seq(Statements)
          /\ n < m /\ m <= NItems /\ m - n <= AppMapSize
          /\ AtMap(todo, n, m, u) /\ Plan(u, m, NItems)
          /\ q = ShownItems /\ c = counter /\ Settled(q, n, c)
    BY <1>3, Zenon DEF Starting
  <2>2. AtMap(todo', n, m, u) /\ q = ShownItems' /\ c = counter'
    BY <1>1, <2>1
  <2> QED BY <2>1, <2>2, StartingNext
<1> QED BY <1>2, <1>3

\* A step that leads into a map, or stays within it.
LEMMA FetchingNext ==
  ASSUME answer' = answer, how' = how, NEW n \in Nat, NEW m \in Nat, n < m, m <= NItems,
         NEW u \in Seq(Statements), NEW q, NEW c,
         AtErr(todo', u) \/ AtDrain(todo', u) \/ AtCollect(todo', u), Plan(u, m, NItems),
         q = ShownItems', c = counter', Settled(q, n, c), MapFacts(n, m)'
  PROVE  Fetching'
<1>1. Settled(q, n, c)'
  BY SettledSame
<1> QED BY <1>1 DEF Fetching

\* A payload of the pool has one item.
LEMMA OneEach ==
  ASSUME AppMapSize < 2 * NRoutines, NEW n \in Nat, NEW m \in Nat, n < m, m - n <= AppMapSize
  PROVE  (IF Cardinality(n + 1 .. m) \div NRoutines = 0 THEN 1 ELSE Cardinality(n + 1 .. m) \div NRoutines) = 1
<1>1. Cardinality(n + 1 .. m) = m - n
  <2>1. n + 1 \in Int /\ m \in Int /\ ~ (n + 1 > m) /\ m - (n + 1) + 1 = m - n
    OBVIOUS
  <2> QED BY <2>1, FS_Interval
<1>2. NRoutines \in Nat /\ NRoutines # 0 /\ AppMapSize \in Nat
  BY StreamAssumption
<1>3. PICK x \in Nat : x = m - n /\ x < 2 * NRoutines
  BY <1>2
<1>4. PICK d : d = x \div NRoutines
  OBVIOUS
<1>5. d = 0 \/ d = 1
  <2>1. CASE x < NRoutines
    <3>1. 0 * NRoutines <= x /\ x < 0 * NRoutines + NRoutines
      BY <1>2, <2>1
    <3>2. x \div NRoutines = 0
      BY <1>2, <3>1, DivIs
    <3> QED BY <1>4, <3>2
  <2>2. CASE NRoutines <= x
    <3>1. 1 * NRoutines <= x /\ x < 1 * NRoutines + NRoutines
      BY <1>2, <1>3, <2>2
    <3>2. x \div NRoutines = 1
      BY <1>2, <3>1, DivIs
    <3> QED BY <1>4, <3>2
  <2> QED BY <1>2, <2>1, <2>2
<1>6. Cardinality(n + 1 .. m) \div NRoutines = d
  BY <1>1, <1>3, <1>4
<1> QED BY <1>5, <1>6

\* The iteration starts.
LEMMA StartingFetcher ==
  ASSUME StreamInv, Starting, Fetcher
  PROVE  Fetching'
<1>0. TypeInv /\ answer' = answer /\ how' = how
  BY NextSame DEF StreamInv, Next
<1>1. PICK n, m, u, q, c :
        /\ n \in Nat /\ m \in Nat /\ u \in Seq(Statements)
        /\ n < m /\ m <= NItems /\ m - n <= AppMapSize
        /\ AtMap(todo, n, m, u) /\ Plan(u, m, NItems)
        /\ q = ShownItems /\ c = counter /\ Settled(q, n, c)
  BY Zenon DEF Starting
<1>2. PICK v \in Seq(Statements) : AtDrain(v, u) /\ todo = << Mapping(n, m) >> \o v
  BY <1>1 DEF AtMap
<1>3. PICK x \in Statements : x = Mapping(n, m) /\ x.op = "iterate" /\ x.keys = n + 1 .. m
  BY <1>1, BlockIs DEF Mapping
<1>4. todo = << x >> \o v
  BY <1>2, <1>3, Zenon
<1>5. todo # <<>> /\ Head(todo) = x /\ Tail(todo) = v /\ todo[1] = x
  BY <1>4, ConsIs
<1>6. Iterate
  BY <1>3, <1>5, FetcherBy
<1>7. /\ todo' = v /\ thisMap' = [i \in n + 1 .. m |-> "blank"]
      /\ UNCHANGED <<counter, workers, shown>>
      /\ dist' = [pc |-> "range", left |-> n + 1 .. m, payload |-> <<>>,
                  per |-> IF Cardinality(n + 1 .. m) \div NRoutines = 0 THEN 1
                          ELSE Cardinality(n + 1 .. m) \div NRoutines]
  BY <1>3, <1>5, <1>6 DEF Iterate
<1>8. dist'.pc = "range" /\ dist'.left = n + 1 .. m /\ dist'.payload = <<>>
  BY <1>7
<1>9. \A s \in Slots : workers'[s].pc = "idle"
  <2>1. ~Next1("drain") /\ ~Waiting
    BY <1>3, <1>5 DEF Next1, Waiting
  <2>2. dist.pc \in {"idle", "done"}
    BY <1>0, <2>1 DEF StreamInv, ActiveInv, TypeInv
  <2> QED BY <1>7, <2>2 DEF StreamInv, WorkInv
<1>10. AppMapSize < 2 * NRoutines => dist'.per = 1
  BY <1>1, <1>7, OneEach
<1>11. DOMAIN thisMap' = n + 1 .. m
  BY <1>7
<1>12. MapFacts(n, m)'
  BY <1>8, <1>9, <1>10, <1>11 DEF MapFacts, OnePer, Under
<1>13. q = ShownItems' /\ c = counter'
  BY <1>1, <1>7 DEF ShownItems
<1> QED BY <1>0, <1>1, <1>2, <1>7, <1>12, <1>13, FetchingNext

\* The facts of a map are about these variables.
LEMMA MapSame ==
  ASSUME NEW n \in Nat, NEW m \in Nat, MapFacts(n, m), UNCHANGED <<answer, how, thisMap, dist, workers>>
  PROVE  MapFacts(n, m)'
BY DEF MapFacts, OnePer, Failing, Under

\* A worker that failed is free again.
LEMMA MapDrained ==
  ASSUME NEW n \in Nat, NEW m \in Nat, MapFacts(n, m), UNCHANGED <<answer, how, thisMap, dist>>, TypeInv,
         NEW s \in Slots, workers[s].pc = "failed", workers' = [workers EXCEPT ![s] = Idle]
  PROVE  MapFacts(n, m)'
<1>1. /\ \A i : Failing(i)' <=> Failing(i)
      /\ OnePer' <=> OnePer
  BY SettledSame
<1>2. workers \in [Slots -> Goroutines]
  BY DEF TypeInv, Goroutines
<1>3. workers'[s].pc = "idle" /\ \A t \in Slots \ {s} : workers'[t] = workers[t]
  BY <1>2 DEF Idle
<1>4. ASSUME OnePer
      PROVE  /\ \A i \in DOMAIN thisMap : thisMap[i] = "blank" => Under(i)'
             /\ \A t \in Slots :
                  /\ workers'[t].pc # "idle" => Len(workers'[t].args) <= 1
                  /\ workers'[t].pc = "failed" =>
                       \A k \in DOMAIN workers'[t].args : workers'[t].args[k] \notin DOMAIN thisMap
  <2>1. \A k \in DOMAIN workers[s].args : workers[s].args[k] \notin DOMAIN thisMap
    BY <1>4 DEF MapFacts
  <2>2. ASSUME NEW i \in DOMAIN thisMap, thisMap[i] = "blank" PROVE Under(i)'
    <3>1. Under(i)
      BY <1>4, <2>2 DEF MapFacts
    <3>2. CASE i \in dist.left \/ \E k \in DOMAIN dist.payload : dist.payload[k] = i
      BY <3>2 DEF Under
    <3>3. ASSUME NEW t \in Slots, workers[t].pc # "idle", \E k \in DOMAIN workers[t].args : workers[t].args[k] = i
          PROVE  Under(i)'
      <4>1. t # s
        BY <2>1, <3>3
      <4>2. workers'[t] = workers[t]
        BY <1>3, <4>1
      <4> QED BY <3>3, <4>2 DEF Under
    <3> QED BY <3>1, <3>2, <3>3 DEF Under
  <2>3. ASSUME NEW t \in Slots
        PROVE  /\ workers'[t].pc # "idle" => Len(workers'[t].args) <= 1
               /\ workers'[t].pc = "failed" =>
                     \A k \in DOMAIN workers'[t].args : workers'[t].args[k] \notin DOMAIN thisMap
    <3>1. CASE t = s
      BY <1>3, <3>1
    <3>2. CASE t # s
      <4>1. workers'[t] = workers[t]
        BY <1>3, <3>2
      <4> QED BY <1>4, <4>1 DEF MapFacts
    <3> QED BY <3>1, <3>2
  <2> QED BY <2>2, <2>3
<1> QED BY <1>1, <1>4 DEF MapFacts

\* When the map is collected everything in it was fetched, so that what is kept of it
\* are the items that answered.
LEMMA CollectedAll ==
  ASSUME StreamInv, KnownInv, LostCase, OnePer \/ reported = 0, Next1("collect"),
         NEW n \in Nat, NEW m \in Nat, m <= NItems, MapFacts(n, m)
  PROVE  IsOrder(Collected, GoodIn(n, m))
<1>0. TypeInv /\ thisMap \in [DOMAIN thisMap -> {"blank", "fetched"}] /\ DOMAIN thisMap \subseteq Items
  BY DEF StreamInv, TypeInv
<1>1. ~ Next1("drain") /\ ~ Next1("err") /\ ~ Waiting
  BY DEF Next1, Waiting
<1>2. dist.pc \in {"idle", "done"}
  BY <1>0, <1>1 DEF StreamInv, ActiveInv, TypeInv
<1>3. \A i : ~ Under(i)
  BY <1>2 DEF StreamInv, WorkInv, Under
<1>4. ASSUME NEW i \in DOMAIN thisMap PROVE thisMap[i] = "fetched" /\ answer[i] \in {"ok", "garbled", "empty"}
  <2>1. thisMap[i] # "blank"
    <3>1. CASE OnePer
      BY <1>3, <3>1 DEF MapFacts
    <3>2. CASE reported = 0
      BY <1>1, <3>2 DEF StreamInv, MapInv
    <3> QED BY <3>1, <3>2
  <2>2. thisMap[i] = "fetched"
    BY <1>0, <2>1
  <2> QED BY <2>2 DEF KnownInv
<1> DEFINE keep == {i \in DOMAIN thisMap : answer[i] # "empty"}
<1>5. keep = GoodIn(n, m)
  <2>1. ASSUME NEW i \in keep PROVE i \in GoodIn(n, m)
    BY <1>4 DEF MapFacts, GoodIn, Good
  <2>2. ASSUME NEW i \in GoodIn(n, m) PROVE i \in keep
    <3>1. i \in n + 1 .. m /\ answer[i] \in {"ok", "garbled"}
      BY DEF GoodIn, Good
    <3>2. ~ Failing(i)
      BY <3>1 DEF Failing
    <3> QED BY <3>1, <3>2 DEF MapFacts
  <2> QED BY <2>1, <2>2
<1>6. Collected = InOrder({}) \o InOrder(keep)
  <2>1. how.collect # "append"
    BY DEF LostCase
  <2>2. keep = {i \in DOMAIN thisMap : thisMap[i] = "fetched" /\ answer[i] # "empty"}
    BY <1>4
  <2>3. {i \in keep : how.collect # "append" /\ thisMap[i] = "blank"} = {} /\ keep \ {} = keep
    BY <1>4
  <2>4. (CASE how.collect = "append" -> items
            [] how.collect = "values" -> {i \in DOMAIN thisMap : answer[i] # "empty"}
            [] OTHER -> {i \in DOMAIN thisMap : thisMap[i] = "fetched" /\ answer[i] # "empty"}) = keep
    BY <2>1, <2>2
  <2> HIDE DEF keep
  <2> QED BY <2>3, <2>4, Zenon DEF Collected
<1> HIDE DEF keep
<1>7. GoodIn(n, m) \subseteq Items
  BY StreamAssumption DEF GoodIn, Items
<1>8. IsOrder(InOrder(keep), keep)
  BY <1>5, <1>7, InOrderOrder
<1>9. InOrder({}) = <<>>
  <2>1. IsOrder(InOrder({}), {}) /\ {} \subseteq Items /\ {} \subseteq Nat
    BY InOrderOrder
  <2> QED BY <2>1, OrderEmpty, OrderUnique
<1>10. InOrder(keep) \in Seq(keep)
  BY <1>8 DEF IsOrder
<1>11. Collected = InOrder(keep)
  BY <1>6, <1>9, <1>10, ConcatEmptySeq
<1> QED BY <1>5, <1>8, <1>11

\* What is behind a map is settled with it.
LEMMA SettledMore ==
  ASSUME StreamInv, LostCase, NEW n \in Nat, NEW m \in Nat, n <= m, NEW q, Settled(q, n, counter),
         NEW recs, IsOrder(recs, GoodIn(n, m)), NEW pass, NEW c,
         pass = Counted(recs).pass, c = Counted(recs).counter
  PROVE  Settled(q \o pass, m, c)
<1>1. counter \in [seen : Nat, exported : 0 .. MaxRecords, finished : BOOLEAN]
  BY DEF StreamInv, TypeInv
<1>2. how.limit # "map"
  BY DEF LostCase
<1>3. IsOrder(q, Chosen(n)) /\ CountsTo(counter, n)
  BY DEF Settled
<1>4. IsOrder(pass, Chosen(m) \ Chosen(n)) /\ CountsTo(c, m)
  BY <1>1, <1>2, <1>3, CountedPass
<1>5. /\ Chosen(n) \subseteq Chosen(m) /\ Chosen(n) \subseteq 1 .. n /\ Chosen(m) \subseteq 1 .. m
      /\ Chosen(m) \ Chosen(n) \subseteq n + 1 .. m
  <2>1. /\ Chosen(n) \subseteq Chosen(m) /\ Chosen(m) \subseteq 1 .. m
        /\ Chosen(m) \ Chosen(n) =
             {i \in GoodIn(n, m) : how.limit = "none" \/ Count(i) \in From .. From + MaxRecords - 1}
    BY ChosenStep
  <2>2. Chosen(n) \subseteq 1 .. n
    BY ChosenStep
  <2> QED BY <2>1, <2>2 DEF GoodIn
<1>6. PICK S \in SUBSET Nat : S = Chosen(n)
  BY <1>5
<1>7. PICK T \in SUBSET Nat : T = Chosen(m) \ Chosen(n)
  <2>1. Chosen(m) \ Chosen(n) \in SUBSET Nat
    BY <1>5
  <2> QED BY <2>1, Zenon
<1>8. \A x \in S, y \in T : x < y
  BY <1>5, <1>6, <1>7
<1>9. IsOrder(q \o pass, S \cup T)
  BY <1>3, <1>4, <1>6, <1>7, <1>8, OrderConcat
<1>10. S \cup T = Chosen(m)
  BY <1>5, <1>6, <1>7
<1> QED BY <1>4, <1>9, <1>10 DEF Settled

\* The map is collected.
LEMMA FetchingCollect ==
  ASSUME StreamInv, KnownInv, LostCase, OnePer \/ reported = 0, Collect, ~ Panics, ~ Unreconciled,
         NEW n \in Nat, NEW m \in Nat, n < m, m <= NItems, NEW u \in Seq(Statements), AtCollect(todo, u),
         Plan(u, m, NItems), NEW q, NEW c, q = ShownItems, c = counter, Settled(q, n, c), MapFacts(n, m)
  PROVE  Sending'
<1>0. TypeInv /\ answer' = answer /\ how' = how /\ UNCHANGED shown
  BY DEF StreamInv, Collect
<1>1. PICK x \in Statements : x = Stmt("collect") /\ x.op = "collect"
  BY StatementFacts DEF Ops
<1>2. todo = << x >> \o u
  BY <1>1, Zenon DEF AtCollect
<1>3. todo # <<>> /\ todo[1] = x /\ Tail(todo) = u
  BY <1>2, ConsIs
<1>4. Next1("collect")
  BY <1>1, <1>3 DEF Next1
<1>5. PICK recs : recs = Collected
  OBVIOUS
<1>6. IsOrder(recs, GoodIn(n, m))
  BY <1>4, <1>5, CollectedAll
<1>7. PICK pass : pass = Counted(recs).pass
  OBVIOUS
<1>8. PICK d : d = Counted(recs).counter
  OBVIOUS
<1>9. todo' = Sends(pass) \o u /\ counter' = d
  BY <1>3, <1>5, <1>7, <1>8, Zenon DEF Collect
<1>10. Settled(q \o pass, m, d)
  <2>1. Settled(q, n, counter) /\ n <= m
    OBVIOUS
  <2> QED BY <1>6, <1>7, <1>8, <2>1, SettledMore
<1>11. Spells(Sends(pass), pass) /\ Sends(pass) \in Seq(Statements)
  <2>1. counter \in [seen : Nat, exported : 0 .. MaxRecords, finished : BOOLEAN]
    BY <1>0 DEF TypeInv
  <2>2. how.collect # "append"
    BY DEF LostCase
  <2>3. Collected \in Seq(DOMAIN thisMap) /\ DOMAIN thisMap \subseteq Items
    BY <1>0, <2>2, CollectedIs DEF TypeInv
  <2>4. pass \in Seq(DOMAIN thisMap)
    BY <1>5, <1>7, <2>1, <2>3, CountedIs
  <2>5. pass \in Seq(Items) /\ \A k \in DOMAIN pass : pass[k] \in DOMAIN thisMap
    BY <2>3, <2>4
  <2> QED BY <1>0, <2>5, SendsSpell, SpellsCases
<1>12. q = ShownItems' /\ d = counter'
  BY <1>0, <1>9 DEF ShownItems
<1> QED BY <1>0, <1>9, <1>10, <1>11, <1>12, SendingNext

\* The fetcher reports what failed in the map, drains its errors, and collects it.
LEMMA FetchingFetcher ==
  ASSUME StreamInv, KnownInv, LostCase, Fetching, Fetcher
  PROVE  Excused' \/ Sending' \/ Fetching'
<1>0. TypeInv /\ answer' = answer /\ how' = how
  BY NextSame DEF StreamInv, Next
<1>1. PICK n, m, u, q, c :
        /\ n \in Nat /\ m \in Nat /\ u \in Seq(Statements)
        /\ n < m /\ m <= NItems
        /\ AtErr(todo, u) \/ AtDrain(todo, u) \/ AtCollect(todo, u)
        /\ Plan(u, m, NItems)
        /\ q = ShownItems /\ c = counter /\ Settled(q, n, c)
        /\ MapFacts(n, m)
  BY Zenon DEF Fetching
<1>n. n \in Nat /\ m \in Nat /\ u \in Seq(Statements)
  BY <1>1
<1>2. ASSUME AtErr(todo, u) PROVE Fetching'
  <2>1. PICK v \in Seq(Statements) : AtDrain(v, u) /\ todo = << Stmt("err") >> \o v
    BY <1>2 DEF AtErr
  <2>2. PICK x \in Statements : x = Stmt("err") /\ x.op = "err"
    BY StatementFacts DEF Ops, ArmOps
  <2>3. todo = << x >> \o v
    BY <2>1, <2>2, Zenon
  <2>4. todo # <<>> /\ Head(todo) = x /\ Tail(todo) = v
    BY <2>3, ConsIs
  <2>5. SendError
    BY <2>2, <2>4, FetcherBy
  <2>6. todo' = v /\ UNCHANGED <<thisMap, dist, workers, counter, shown>>
    BY <2>4, <2>5 DEF SendError, ReceiveError, FetcherOnly
  <2>7. MapFacts(n, m)'
    BY <1>0, <1>1, <2>6, MapSame
  <2>8. q = ShownItems' /\ c = counter' /\ AtDrain(todo', u)
    BY <1>1, <2>1, <2>6 DEF ShownItems
  <2> QED BY <1>0, <1>1, <2>7, <2>8, FetchingNext
<1>3. ASSUME AtDrain(todo, u) PROVE Excused' \/ Fetching'
  <2>1. PICK v \in Seq(Statements) : AtCollect(v, u) /\ todo = << Stmt("drain") >> \o v
    BY <1>3 DEF AtDrain
  <2>2. PICK x \in Statements : x = Stmt("drain") /\ x.op = "drain"
    BY StatementFacts DEF Ops
  <2>3. todo = << x >> \o v
    BY <2>1, <2>2, Zenon
  <2>4. todo \in Seq(Statements) /\ todo # <<>> /\ Head(todo) = x /\ Tail(todo) = v
    BY <2>3, ConsIs
  <2>5. Drain
    BY <2>2, <2>4, FetcherBy
  <2>6. UNCHANGED <<thisMap, dist, counter, shown, reported>>
    BY <2>5 DEF Drain
  <2>7. q = ShownItems' /\ c = counter'
    BY <1>1, <2>6 DEF ShownItems
  <2>8. CASE todo' = Tail(todo) /\ UNCHANGED workers
    <3>1. AtCollect(todo', u)
      BY <2>1, <2>4, <2>8
    <3>2. MapFacts(n, m)'
      BY <1>0, <1>1, <2>6, <2>8, MapSame
    <3> QED BY <1>0, <1>1, <2>7, <3>1, <3>2, FetchingNext
  <2>9. ASSUME NEW s \in Slots, workers[s].pc = "failed", workers' = [workers EXCEPT ![s] = Idle],
               todo' = IF how.drain = "first" THEN Arm(<<"err", "return">>) ELSE Arm(<<"err">>) \o todo
        PROVE  Excused' \/ Fetching'
    <3>1. CASE how.drain = "first"
      <4>1. ~ OnePer' /\ Will(todo', "err")
        BY <1>0, <2>9, <3>1, ErrorWill DEF OnePer, Deletes
      <4> QED BY <4>1, Zenon DEF Excused
    <3>2. CASE how.drain # "first"
      <4>1. Arm(<<"err">>) = << Stmt("err") >>
        BY DEF Arm
      <4>2. todo' = << Stmt("err") >> \o todo
        BY <2>9, <3>2, <4>1
      <4>3. AtErr(todo', u)
        BY <1>3, <2>4, <4>2 DEF AtErr
      <4>4. MapFacts(n, m)'
        BY <1>0, <1>1, <2>6, <2>9, MapDrained
      <4> QED BY <1>0, <1>1, <2>7, <4>3, <4>4, FetchingNext
    <3> QED BY <3>1, <3>2
  <2> QED BY <2>5, <2>8, <2>9 DEF Drain
<1>4. ASSUME AtCollect(todo, u) PROVE Excused' \/ Sending' \/ Fetching'
  <2>1. PICK x \in Statements : x = Stmt("collect") /\ x.op = "collect"
    BY StatementFacts DEF Ops
  <2>2. todo = << x >> \o u
    BY <1>4, <2>1, Zenon DEF AtCollect
  <2>3. todo # <<>> /\ Head(todo) = x /\ Tail(todo) = u
    BY <1>n, <2>2, ConsIs
  <2>4. Collect
    BY <2>1, <2>3, FetcherBy
  <2>5. UNCHANGED <<thisMap, dist, workers, shown, reported>>
    BY <2>4 DEF Collect
  <2>6. CASE UNCHANGED <<todo, counter>>
    <3>1. MapFacts(n, m)'
      BY <1>0, <1>1, <2>5, MapSame
    <3>2. q = ShownItems' /\ c = counter' /\ AtCollect(todo', u)
      BY <1>1, <1>4, <2>5, <2>6 DEF ShownItems
    <3> QED BY <1>0, <1>1, <3>1, <3>2, FetchingNext
  <2>7. CASE Unreconciled /\ todo' = Arm(<<"err", "return">>)
    <3>1. ~ OnePer' /\ Will(todo', "err")
      BY <1>0, <2>7, ErrorWill DEF OnePer, KnownInv, Unreconciled
    <3> QED BY <3>1, Zenon DEF Excused
  <2>8. CASE ~ Panics /\ ~ Unreconciled
    <3>1. CASE OnePer \/ reported = 0
      BY <1>1, <1>4, <2>4, <2>8, <3>1, FetchingCollect
    <3>2. CASE ~ OnePer /\ reported # 0
      <4>1. ~ OnePer' /\ reported' > 0
        BY <1>0, <2>5, <3>2 DEF OnePer, TypeInv
      <4> QED BY <4>1, Zenon DEF Excused
    <3> QED BY <3>1, <3>2
  <2> QED BY <2>4, <2>6, <2>7, <2>8 DEF Collect
<1> QED BY <1>1, <1>2, <1>3, <1>4

-----------------------------------------------------------------------------
(* The goroutines of the iteration *)

\* A worker may only let go of an item that it fetched, or took out of the map.
LEMMA MapWorker ==
  ASSUME NEW n \in Nat, NEW m \in Nat, MapFacts(n, m), UNCHANGED <<answer, how, dist>>,
         DOMAIN thisMap' \subseteq DOMAIN thisMap,
         \A i \in DOMAIN thisMap : i \notin DOMAIN thisMap' => Failing(i),
         \A i \in DOMAIN thisMap' : thisMap'[i] = "blank" => thisMap[i] = "blank",
         NEW s \in Slots, NEW w, workers'[s] = w, \A t \in Slots \ {s} : workers'[t] = workers[t],
         OnePer =>
           /\ w.pc # "idle" => Len(w.args) <= 1
           /\ w.pc = "failed" => \A k \in DOMAIN w.args : w.args[k] \notin DOMAIN thisMap'
           /\ \A i \in DOMAIN thisMap' :
                thisMap'[i] = "blank" /\ Holds(workers[s].args, i) => w.pc # "idle" /\ Holds(w.args, i)
  PROVE  MapFacts(n, m)'
<1>1. /\ \A i : Failing(i)' <=> Failing(i)
      /\ OnePer' <=> OnePer
  BY SettledSame
<1>2. /\ DOMAIN thisMap' \subseteq n + 1 .. m
      /\ \A i \in n + 1 .. m : i \notin DOMAIN thisMap' => Failing(i)
  BY DEF MapFacts
<1>3. ASSUME OnePer
      PROVE  /\ dist.pc = "range" => dist.per = 1
             /\ dist.payload = <<>>
             /\ \A i \in DOMAIN thisMap' : thisMap'[i] = "blank" => Under(i)'
             /\ \A t \in Slots :
                  /\ workers'[t].pc # "idle" => Len(workers'[t].args) <= 1
                  /\ workers'[t].pc = "failed" =>
                       \A k \in DOMAIN workers'[t].args : workers'[t].args[k] \notin DOMAIN thisMap'
  <2>1. ASSUME NEW i \in DOMAIN thisMap', thisMap'[i] = "blank" PROVE Under(i)'
    <3>1. Under(i)
      BY <1>3, <2>1 DEF MapFacts
    <3>2. CASE i \in dist.left \/ \E k \in DOMAIN dist.payload : dist.payload[k] = i
      BY <3>2 DEF Under
    <3>3. ASSUME NEW t \in Slots, workers[t].pc # "idle", \E k \in DOMAIN workers[t].args : workers[t].args[k] = i
          PROVE  Under(i)'
      <4>1. CASE t = s
        <5>1. w.pc # "idle" /\ Holds(w.args, i)
          BY <1>3, <2>1, <3>3, <4>1 DEF Holds
        <5> QED BY <5>1 DEF Under, Holds
      <4>2. CASE t # s
        <5>1. workers'[t] = workers[t]
          BY <4>2
        <5> QED BY <3>3, <5>1 DEF Under
      <4> QED BY <4>1, <4>2
    <3> QED BY <3>1, <3>2, <3>3 DEF Under
  <2>2. ASSUME NEW t \in Slots
        PROVE  /\ workers'[t].pc # "idle" => Len(workers'[t].args) <= 1
               /\ workers'[t].pc = "failed" =>
                     \A k \in DOMAIN workers'[t].args : workers'[t].args[k] \notin DOMAIN thisMap'
    <3>1. CASE t = s
      BY <1>3, <3>1
    <3>2. CASE t # s
      <4>1. workers'[t] = workers[t]
        BY <3>2
      <4> QED BY <1>3, <4>1 DEF MapFacts
    <3> QED BY <3>1, <3>2
  <2>3. (dist.pc = "range" => dist.per = 1) /\ dist.payload = <<>>
    BY <1>3 DEF MapFacts
  <2> QED BY <2>1, <2>2, <2>3
<1> QED BY <1>1, <1>2, <1>3 DEF MapFacts

\* A worker makes its step.
LEMMA MapStep ==
  ASSUME StreamInv, KnownInv, LostCase, todo # <<>>, NEW n \in Nat, NEW m \in Nat, MapFacts(n, m),
         NEW s \in Slots, Worker(s)
  PROVE  MapFacts(n, m)'
<1>0. UNCHANGED <<answer, how, dist>> /\ closed = 0
  <2>1. UNCHANGED <<answer, how, dist>>
    BY DEF Worker, Begin, Step, AppendItem, Delete, SendDirect, WorkerOnly
  <2>2. closed = 0
    BY DEF StreamInv, SaidInv, TypeInv
  <2> QED BY <2>1, <2>2
<1>1. /\ workers \in [Slots -> Goroutines] /\ workers[s] \in Goroutines
      /\ thisMap \in [DOMAIN thisMap -> {"blank", "fetched"}]
  BY WorkerIs
<1>2. PICK q \in Seq(Items) : q = workers[s].args
  BY WorkerIs
<1>3. OnePer /\ workers[s].pc # "idle" => Len(q) <= 1
  BY <1>2 DEF MapFacts
<1>4. OnePer => how.failed # "keep"
  BY DEF OnePer, Deletes
<1>5. q # <<>> => /\ Head(q) = q[1] /\ q[1] \in Items /\ Tail(q) \in Seq(Items) /\ Len(Tail(q)) = Len(q) - 1
                  /\ \A i : Holds(q, i) => i = q[1] \/ Holds(Tail(q), i)
  BY RestIs
<1>6. OnePer => \A i \in Items : answer[i] = "notFound" => Failing(i)
  BY DEF OnePer, KnownInv, LostCase, Failing
<1>7. CASE Begin(s)
  <2>1. workers[s].pc = "start" /\ UNCHANGED thisMap /\ workers' = [workers EXCEPT ![s].pc = "step"]
    BY <1>0, <1>7 DEF Begin
  <2>2. PICK w : w = workers'[s] /\ w.pc = "step" /\ w.args = q
    BY <1>1, <1>2, <2>1 DEF Goroutines
  <2>3. \A t \in Slots \ {s} : workers'[t] = workers[t]
    BY <1>1, <2>1
  <2>4. /\ DOMAIN thisMap' = DOMAIN thisMap
        /\ \A i \in DOMAIN thisMap' : thisMap'[i] = "blank" => thisMap[i] = "blank"
    BY <2>1
  <2>5. OnePer => Len(w.args) <= 1
    BY <1>3, <2>1, <2>2
  <2>6. workers[s].args = w.args
    BY <1>2, <2>2
  <2> QED BY <1>0, <2>2, <2>3, <2>4, <2>5, <2>6, MapWorker
<1>8. CASE Delete(s)
  <2>1. workers[s].pc = "delete" /\ workers' = [workers EXCEPT ![s].pc = "failed"]
    BY <1>8 DEF Delete
  <2>2. q # <<>> /\ Failing(q[1])
    BY <1>2, <2>1 DEF StreamInv, WorkInv, KnownInv
  <2>3. thisMap' = [i \in DOMAIN thisMap \ {q[1]} |-> thisMap[i]]
    BY <1>2, <1>5, <1>8, <2>2 DEF Delete
  <2>4. DOMAIN thisMap' = DOMAIN thisMap \ {q[1]} /\ \A i \in DOMAIN thisMap' : thisMap'[i] = thisMap[i]
    BY <2>3
  <2>5. PICK w : w = workers'[s] /\ w.pc = "failed" /\ w.args = q
    BY <1>1, <1>2, <2>1 DEF Goroutines
  <2>6. \A t \in Slots \ {s} : workers'[t] = workers[t]
    BY <1>1, <2>1
  <2>7. OnePer => \A k \in DOMAIN w.args : w.args[k] \notin DOMAIN thisMap'
    <3>1. OnePer => \A k \in DOMAIN q : k = 1
      BY <1>3, <2>1
    <3> QED BY <2>4, <2>5, <3>1
  <2>8. \A i \in DOMAIN thisMap : i \notin DOMAIN thisMap' => Failing(i)
    BY <2>2, <2>4
  <2>9. OnePer => Len(w.args) <= 1
    BY <1>3, <2>1, <2>5
  <2> QED BY <1>0, <1>2, <2>4, <2>5, <2>6, <2>7, <2>8, <2>9, MapWorker
<1>9. ASSUME q # <<>>, UNCHANGED thisMap, workers[s].pc # "idle",
             thisMap[q[1]] = "fetched" \/ q[1] \notin DOMAIN thisMap \/ ~ OnePer,
             workers' = [workers EXCEPT ![s] = [Idle EXCEPT !.pc = "step", !.args = Tail(workers[s].args)]]
      PROVE  MapFacts(n, m)'
  <2>1. PICK w \in Goroutines : w = [Idle EXCEPT !.pc = "step", !.args = Tail(q)] /\ w.pc = "step" /\ w.args = Tail(q)
    BY <1>5, <1>9, FreshWorker
  <2>2. workers' = [workers EXCEPT ![s] = w]
    BY <1>2, <1>9, <2>1
  <2>3. workers'[s] = w /\ \A t \in Slots \ {s} : workers'[t] = workers[t]
    BY <1>1, <2>2
  <2>4. OnePer => Len(w.args) <= 1
    BY <1>3, <1>5, <1>9, <2>1
  <2>5. OnePer => \A i \in DOMAIN thisMap : thisMap[i] = "blank" /\ Holds(q, i) => Holds(w.args, i)
    BY <1>5, <1>9, <2>1
  <2> QED BY <1>0, <1>2, <1>9, <2>1, <2>3, <2>4, <2>5, MapWorker
<1>10. CASE AppendItem(s)
  <2>1. workers[s].pc = "append" /\ q # <<>> /\ UNCHANGED thisMap
    BY <1>2, <1>10 DEF AppendItem, StreamInv, WorkInv
  <2>2. thisMap[q[1]] = "fetched" \/ q[1] \notin DOMAIN thisMap
    BY <1>2, <2>1 DEF StreamInv, WorkInv
  <2> QED BY <1>9, <1>10, <2>1, <2>2 DEF AppendItem
<1>11. CASE SendDirect(s)
  <2>1. workers[s].pc = "send" /\ q # <<>> /\ UNCHANGED thisMap
    BY <1>2, <1>11 DEF SendDirect, StreamInv, WorkInv
  <2>2. thisMap[q[1]] = "fetched" \/ q[1] \notin DOMAIN thisMap \/ ~ OnePer
    <3>1. ~ Failing(q[1])
      BY <1>2, <2>1 DEF KnownInv
    <3>2. q[1] \in DOMAIN thisMap => thisMap[q[1]] = "fetched" \/ answer[q[1]] = "notFound"
      BY <1>2, <2>1 DEF StreamInv, WorkInv
    <3> QED BY <1>5, <1>6, <2>1, <3>1, <3>2
  <2> QED BY <1>0, <1>9, <1>11, <2>1, <2>2 DEF SendDirect
<1>12. CASE Step(s)
  <2>1. workers[s].pc = "step"
    BY <1>12 DEF Step
  <2>2. CASE q = <<>> /\ workers' = [workers EXCEPT ![s] = Idle] /\ UNCHANGED thisMap
    <3>1. PICK w : w = workers'[s] /\ w.pc = "idle"
      BY <1>1, <2>2 DEF Idle
    <3>2. \A t \in Slots \ {s} : workers'[t] = workers[t]
      BY <1>1, <2>2
    <3>3. \A i : ~ Holds(q, i)
      BY <2>2 DEF Holds
    <3> QED BY <1>0, <1>2, <2>2, <3>1, <3>2, <3>3, MapWorker
  <2>3. CASE /\ q # <<>> /\ Failing(Head(q)) /\ UNCHANGED thisMap
             /\ workers' = [workers EXCEPT ![s].pc = IF how.failed = "keep" THEN "failed" ELSE "delete"]
    <3>1. PICK pc \in {"failed", "delete"} : pc = IF how.failed = "keep" THEN "failed" ELSE "delete"
      OBVIOUS
    <3>2. workers' = [workers EXCEPT ![s].pc = pc]
      BY <2>3, <3>1
    <3>3. PICK w : w = workers'[s] /\ w.pc = pc /\ w.args = q
      BY <1>1, <1>2, <3>2 DEF Goroutines
    <3>4. \A t \in Slots \ {s} : workers'[t] = workers[t]
      BY <1>1, <3>2
    <3>5. OnePer => w.pc = "delete" /\ Len(w.args) <= 1
      BY <1>3, <1>4, <2>1, <3>1, <3>3
    <3>6. /\ DOMAIN thisMap' = DOMAIN thisMap
          /\ \A i \in DOMAIN thisMap' : thisMap'[i] = "blank" => thisMap[i] = "blank"
      BY <2>3
    <3>7. workers[s].args = w.args
      BY <1>2, <3>3
    <3> QED BY <1>0, <3>3, <3>4, <3>5, <3>6, <3>7, MapWorker
  <2>4. CASE /\ q # <<>> /\ ~Failing(Head(q))
             /\ thisMap' = IF answer[Head(q)] = "notFound" THEN thisMap ELSE [thisMap EXCEPT ![Head(q)] = "fetched"]
             /\ workers' = IF how.collect = "append" /\ answer[Head(q)] # "empty"
                           THEN [workers EXCEPT ![s].pc = "append", ![s].snap = items]
                           ELSE IF Reports(Head(q)) THEN [workers EXCEPT ![s].pc = "send"]
                           ELSE [workers EXCEPT ![s].args = Tail(@)]
    <3>1. PICK i \in Items : i = Head(q) /\ i = q[1]
      BY <1>5, <2>4
    <3>2. thisMap' \in {thisMap, [thisMap EXCEPT ![i] = "fetched"]}
      BY <2>4, <3>1
    <3>3. DOMAIN thisMap' = DOMAIN thisMap /\ \A j \in DOMAIN thisMap' : thisMap'[j] = "blank" => thisMap[j] = "blank"
      BY <1>1, <3>2
    <3>4. OnePer => answer[i] # "notFound"
      BY <1>6, <2>4, <3>1
    <3>5. OnePer => \A j \in DOMAIN thisMap' : thisMap'[j] = "blank" => j # i
      <4>1. ASSUME OnePer PROVE thisMap' = [thisMap EXCEPT ![i] = "fetched"]
        BY <2>4, <3>1, <3>4, <4>1
      <4> QED BY <1>1, <4>1
    <3>6. how.collect # "append"
      BY DEF LostCase
    <3>7. PICK r \in Seq(Items) : r = Tail(q)
      BY <1>5, <2>4
    <3>8. \/ workers' = [workers EXCEPT ![s].pc = "send"]
          \/ workers' = [workers EXCEPT ![s].args = r]
      BY <1>2, <2>4, <3>6, <3>7
    <3>9. \A t \in Slots \ {s} : workers'[t] = workers[t]
      BY <1>1, <3>8
    <3>10. PICK w : w = workers'[s]
      OBVIOUS
    <3>11. w.pc \in {"send", "step"} /\ (w.args = q \/ w.args = r)
      BY <1>1, <1>2, <2>1, <3>8, <3>10 DEF Goroutines
    <3>12. OnePer => Len(w.args) <= 1
      BY <1>3, <1>5, <2>1, <2>4, <3>7, <3>11
    <3>13. OnePer => \A j \in DOMAIN thisMap' : thisMap'[j] = "blank" /\ Holds(q, j) => Holds(w.args, j)
      BY <1>5, <2>4, <3>1, <3>5, <3>7, <3>11
    <3> QED BY <1>0, <1>2, <3>3, <3>9, <3>10, <3>11, <3>12, <3>13, MapWorker
  <2> QED BY <1>2, <1>12, <2>2, <2>3, <2>4, Zenon DEF Step
<1> QED BY <1>7, <1>8, <1>10, <1>11, <1>12 DEF Worker

\* The distributor hands the items to the pool.
LEMMA MapDist ==
  ASSUME StreamInv, NEW n \in Nat, NEW m \in Nat, MapFacts(n, m), Distributor
  PROVE  MapFacts(n, m)'
<1>0. UNCHANGED <<answer, how, thisMap>>
  BY DEF Distributor, RangeOverMap, RangeEnds, WaitGroup
<1>1. /\ \A i : Failing(i)' <=> Failing(i)
      /\ OnePer' <=> OnePer
  BY <1>0, SettledSame
<1>2. CASE ~ OnePer
  BY <1>0, <1>1, <1>2 DEF MapFacts
<1>3. CASE OnePer
  <2>0. /\ TypeInv /\ DOMAIN dist = {"pc", "left", "payload", "per"} /\ workers \in [Slots -> Goroutines]
        /\ dist.left \subseteq Items
    BY DEF StreamInv, TypeInv, Goroutines
  <2>1. dist.payload = <<>> /\ (dist.pc = "range" => dist.per = 1)
    BY <1>3 DEF MapFacts
  <2>2. CASE RangeOverMap
    <3>1. PICK i \in dist.left :
            IF Len(Append(dist.payload, i)) = dist.per
            THEN /\ Invoke(Append(dist.payload, i))
                 /\ dist' = [dist EXCEPT !.left = @ \ {i}, !.payload = <<>>]
            ELSE /\ dist' = [dist EXCEPT !.left = @ \ {i}, !.payload = Append(dist.payload, i)]
                 /\ UNCHANGED workers
      BY <2>2, Zenon DEF RangeOverMap
    <3>2. dist.pc = "range" /\ dist.per = 1
      BY <2>1, <2>2 DEF RangeOverMap
    <3>3. PICK payload \in Seq(Items) : payload = Append(dist.payload, i) /\ Len(payload) = 1 /\ payload[1] = i
      <4>1. i \in Items
        BY <2>0
      <4>2. PICK e \in Seq(Items) : e = <<>>
        BY SeqsOf, Zenon
      <4>5. Len(e) = 0
        BY <4>2
      <4>3. Append(e, i) \in Seq(Items) /\ Len(Append(e, i)) = 1 /\ Append(e, i)[1] = i
        BY <4>1, <4>2, <4>5
      <4>4. Append(e, i) = Append(dist.payload, i)
        BY <2>1, <4>2
      <4> QED BY <4>3, <4>4, Zenon
    <3>4. Invoke(payload) /\ dist' = [dist EXCEPT !.left = @ \ {i}, !.payload = <<>>]
      BY <3>1, <3>2, <3>3
    <3>5. dist'.left = dist.left \ {i} /\ dist'.payload = <<>> /\ dist'.pc = dist.pc /\ dist'.per = dist.per
      BY <2>0, <3>4
    <3>6. PICK s \in Slots : /\ workers[s].pc = "idle" /\ workers'[s].pc = "start" /\ workers'[s].args = payload
                             /\ \A t \in Slots \ {s} : workers'[t] = workers[t]
      BY <2>0, <3>4, InvokeIs
    <3>7. ASSUME NEW j \in DOMAIN thisMap, thisMap[j] = "blank" PROVE Under(j)'
      <4>1. Under(j)
        BY <1>3, <3>7 DEF MapFacts
      <4>2. CASE j = i
        <5>1. 1 \in DOMAIN payload
          BY <3>3
        <5>2. workers'[s].pc # "idle" /\ \E k \in DOMAIN workers'[s].args : workers'[s].args[k] = j
          BY <3>3, <3>6, <4>2, <5>1
        <5> QED BY <5>2 DEF Under
      <4>3. CASE j # i /\ j \in dist.left
        BY <3>5, <4>3 DEF Under
      <4>4. ASSUME NEW t \in Slots, workers[t].pc # "idle", \E k \in DOMAIN workers[t].args : workers[t].args[k] = j
            PROVE  Under(j)'
        <5>1. workers'[t] = workers[t]
          BY <3>6, <4>4
        <5> QED BY <4>4, <5>1 DEF Under
      <4>5. \A k \in DOMAIN dist.payload : FALSE
        BY <2>1
      <4> QED BY <4>1, <4>2, <4>3, <4>4, <4>5 DEF Under
    <3>8. ASSUME NEW t \in Slots
          PROVE  /\ workers'[t].pc # "idle" => Len(workers'[t].args) <= 1
                 /\ workers'[t].pc = "failed" =>
                      \A k \in DOMAIN workers'[t].args : workers'[t].args[k] \notin DOMAIN thisMap
      <4>1. CASE t = s
        BY <3>3, <3>6, <4>1
      <4>2. CASE t # s
        <5>1. workers'[t] = workers[t]
          BY <3>6, <4>2
        <5> QED BY <1>3, <5>1 DEF MapFacts
      <4> QED BY <4>1, <4>2
    <3> QED BY <1>0, <1>1, <3>2, <3>5, <3>7, <3>8 DEF MapFacts
  <2>3. CASE RangeEnds
    <3>1. workers' = workers /\ dist' = [dist EXCEPT !.pc = "wait", !.payload = <<>>]
      BY <2>1, <2>3 DEF RangeEnds
    <3>2. dist'.left = dist.left /\ dist'.payload = <<>> /\ dist'.pc = "wait"
      BY <2>0, <3>1
    <3>3. \A i : Under(i) => Under(i)'
      BY <2>1, <3>1, <3>2 DEF Under
    <3> QED BY <1>0, <1>1, <3>1, <3>2, <3>3 DEF MapFacts
  <2>4. CASE WaitGroup
    <3>1. workers' = workers /\ dist' = [dist EXCEPT !.pc = "done"]
      BY <2>4 DEF WaitGroup
    <3>2. dist'.left = dist.left /\ dist'.payload = dist.payload /\ dist'.pc = "done"
      BY <2>0, <3>1
    <3>3. \A i : Under(i) => Under(i)'
      BY <3>1, <3>2 DEF Under
    <3> QED BY <1>0, <1>1, <2>1, <3>1, <3>2, <3>3 DEF MapFacts
  <2> QED BY <2>2, <2>3, <2>4 DEF Distributor
<1> QED BY <1>2, <1>3

\* The statements around a map.
LEMMA StatementsOfMap ==
  Stmt("err") \in Statements /\ Stmt("drain") \in Statements /\ Stmt("collect") \in Statements
<1>1. "err" \in Ops
  BY DEF Ops, ArmOps
<1>2. "drain" \in Ops /\ "collect" \in Ops
  BY DEF Ops
<1>3. Stmt("err") \in Statements
  BY <1>1, StatementFacts
<1>4. Stmt("drain") \in Statements /\ Stmt("collect") \in Statements
  BY <1>2, StatementFacts
<1> QED BY <1>3, <1>4

\* The other goroutines stay within the map.
LEMMA FetchingOthers ==
  ASSUME StreamInv, KnownInv, LostCase, Fetching,
         Distributor \/ Renderer \/ UNCHANGED vars \/ \E s \in Slots : Worker(s)
  PROVE  Fetching'
<1>1. PICK n, m, u, q, c :
        /\ n \in Nat /\ m \in Nat /\ u \in Seq(Statements)
        /\ n < m /\ m <= NItems
        /\ AtErr(todo, u) \/ AtDrain(todo, u) \/ AtCollect(todo, u)
        /\ Plan(u, m, NItems)
        /\ q = ShownItems /\ c = counter /\ Settled(q, n, c)
        /\ MapFacts(n, m)
  BY Zenon DEF Fetching
<1>2. todo # <<>>
  <2>1. \A x \in Statements, v \in Seq(Statements) : << x >> \o v # <<>>
    BY ConsIs
  <2>2. Stmt("err") \in Statements /\ Stmt("drain") \in Statements /\ Stmt("collect") \in Statements
    BY StatementsOfMap, Zenon
  <2> QED BY <1>1, <2>1, <2>2, Zenon DEF AtErr, AtDrain, AtCollect
<1>3. UNCHANGED <<answer, how, todo, shown, counter>>
  BY DEF Distributor, RangeOverMap, RangeEnds, WaitGroup, Renderer, RenderCanceled, RenderDone, vars,
         Worker, Begin, Step, AppendItem, Delete, SendDirect, WorkerOnly, ReceiveError
<1>5. MapFacts(n, m)'
  <2>1. CASE Renderer \/ UNCHANGED vars
    <3>1. UNCHANGED <<answer, how, thisMap, dist, workers>>
      BY <2>1 DEF Renderer, RenderCanceled, RenderDone, vars
    <3> QED BY <1>1, <3>1, MapSame
  <2>2. CASE Distributor
    BY <1>1, <2>2, MapDist
  <2>3. ASSUME NEW s \in Slots, Worker(s) PROVE MapFacts(n, m)'
    BY <1>1, <1>2, <2>3, MapStep
  <2> QED BY <2>1, <2>2, <2>3
<1>6. q = ShownItems' /\ c = counter' /\ (AtErr(todo', u) \/ AtDrain(todo', u) \/ AtCollect(todo', u))
  BY <1>1, <1>3 DEF ShownItems
<1> QED BY <1>1, <1>3, <1>5, <1>6, FetchingNext

\* Every step.
LEMMA LostStep == StreamInv /\ LostInv /\ [Next]_vars => LostInv'
<1> SUFFICES ASSUME StreamInv, LostInv, [Next]_vars PROVE LostInv'
  OBVIOUS
<1>0. KnownInv /\ KnownInv'
  BY KnownStep DEF LostInv
<1>1. answer' = answer /\ how' = how
  BY NextSame
<1>2. LostCase' <=> LostCase
  BY <1>1, SettledSame
<1>3. ASSUME LostCase PROVE Excused' \/ Sending' \/ Starting' \/ Fetching'
  <2>1. CASE Excused
    BY <1>0, <2>1, ExcusedStep
  <2>2. CASE Fetcher
    <3>1. CASE Sending
      BY <1>3, <2>2, <3>1, SendingFetcher
    <3>2. CASE Starting
      BY <2>2, <3>2, StartingFetcher
    <3>3. CASE Fetching
      BY <1>0, <1>3, <2>2, <3>3, FetchingFetcher
    <3> QED BY <1>3, <2>1, <3>1, <3>2, <3>3 DEF LostInv
  <2>3. CASE Distributor \/ Renderer \/ UNCHANGED vars \/ \E s \in Slots : Worker(s)
    <3>1. UNCHANGED <<todo, shown, counter>>
      BY <2>3 DEF Distributor, RangeOverMap, RangeEnds, WaitGroup, Renderer, RenderCanceled, RenderDone, vars,
             Worker, Begin, Step, AppendItem, Delete, SendDirect, WorkerOnly, ReceiveError
    <3>2. (Sending => Sending') /\ (Starting => Starting')
      BY <1>1, <3>1, QuietSame
    <3>3. Fetching => Fetching'
      BY <1>0, <1>3, <2>3, FetchingOthers
    <3> QED BY <1>3, <2>1, <3>2, <3>3, Zenon DEF LostInv
  <2> QED BY <2>2, <2>3 DEF Next
<1> QED BY <1>0, <1>2, <1>3 DEF LostInv

-----------------------------------------------------------------------------
(* The end *)

\* The items that are wanted are those that are chosen.
LEMMA WantedIs == TypeInv => IsOrder(Wanted, Chosen(NItems))
<1> SUFFICES ASSUME TypeInv PROVE IsOrder(Wanted, Chosen(NItems))
  OBVIOUS
<1>0. NItems \in Nat /\ FirstRecord \in Nat /\ MaxRecords \in Nat /\ MaxRecords # 0 /\ From \in Nat /\ From # 0
  BY StreamAssumption DEF From
<1>1. GoodIn(0, NItems) = {i \in Items : answer[i] \in {"ok", "garbled"}}
  BY DEF GoodIn, Good, Items
<1>2. PICK good : good = InOrder({i \in Items : answer[i] \in {"ok", "garbled"}})
  OBVIOUS
<1>3. IsOrder(good, GoodIn(0, NItems)) /\ GoodIn(0, NItems) \subseteq Nat
  <2>1. GoodIn(0, NItems) \subseteq Items
    BY <1>1
  <2>2. IsOrder(InOrder(GoodIn(0, NItems)), GoodIn(0, NItems))
    BY <2>1, InOrderOrder
  <2> QED BY <1>1, <1>2, <2>1, <2>2 DEF Items
<1>4. CASE how.limit = "none"
  <2>1. Wanted = good
    BY <1>2, <1>4 DEF Wanted
  <2>2. Chosen(NItems) = GoodIn(0, NItems)
    BY <1>4 DEF Chosen
  <2> QED BY <1>3, <2>1, <2>2
<1>5. CASE how.limit # "none"
  <2>1. /\ good \in Seq(Nat)
        /\ \A k \in DOMAIN good : Good(good[k]) /\ Count(good[k]) = Count(0) + k
        /\ Count(0) = 0
    BY <1>0, <1>3, RankIs, CountIs
  <2>2. PICK L \in Nat : L = Len(good)
    BY <2>1
  <2>3. PICK upto : upto = IF From + MaxRecords - 1 < L THEN From + MaxRecords - 1 ELSE L
    OBVIOUS
  <2>4. upto \in Nat /\ upto <= L /\ upto <= From + MaxRecords - 1
        /\ \A k \in 1 .. L : k \in From .. upto <=> k \in From .. From + MaxRecords - 1
    BY <1>0, <2>2, <2>3
  <2>5. PICK t : t = SubSeq(good, From, upto)
    OBVIOUS
  <2>6. Wanted = t
    BY <1>2, <1>5, <2>2, <2>3, <2>5 DEF Wanted, From
  <2>7. PICK c \in Nat, n \in Nat : IsPart(t, good, c, n) /\ \A k \in 1 .. L : k \in c + 1 .. c + n <=> k \in From .. upto
    <3>1. CASE From <= upto
      <4>1. PICK c \in Nat : c = From - 1 /\ c + 1 = From
        BY <1>0
      <4>2. PICK n \in Nat : n = upto - From + 1 /\ c + n = upto
        BY <1>0, <2>4, <3>1, <4>1
      <4>3. \A i \in From .. upto : good[i] \in Nat
        BY <1>0, <2>1, <2>2, <2>4
      <4>4. /\ t \in Seq(Nat)
            /\ Len(t) = IF From <= upto THEN upto - From + 1 ELSE 0
            /\ \A i \in 1 .. upto - From + 1 : t[i] = good[From + i - 1]
        BY <1>0, <2>4, <2>5, <4>3, SubSeqProperties
      <4>5. Len(t) = n /\ \A i \in 1 .. n : t[i] = good[From + i - 1]
        BY <3>1, <4>2, <4>4
      <4>6. \A i \in 1 .. n : From + i - 1 = c + i
        BY <1>0, <4>1
      <4>7. IsPart(t, good, c, n)
        BY <2>2, <2>4, <4>1, <4>2, <4>4, <4>5, <4>6 DEF IsPart
      <4> QED BY <4>1, <4>2, <4>7
    <3>2. CASE upto < From
      <4>1. t = <<>>
        BY <1>0, <2>4, <2>5, <3>2
      <4>2. IsPart(t, good, 0, 0)
        BY <2>2, <4>1 DEF IsPart
      <4>3. \A k \in 1 .. L : k \in 0 + 1 .. 0 + 0 <=> k \in From .. upto
        BY <1>0, <2>4, <3>2
      <4> QED BY <4>2, <4>3
    <3> QED BY <1>0, <2>4, <3>1, <3>2
  <2>8. IsOrder(t, {good[k] : k \in c + 1 .. c + n})
    BY <1>3, <2>7, OrderPart
  <2>9. c + n <= L
    BY <2>2, <2>7 DEF IsPart
  <2>10. {good[k] : k \in c + 1 .. c + n} = Chosen(NItems)
    <3>1. ASSUME NEW k \in c + 1 .. c + n PROVE good[k] \in Chosen(NItems)
      <4>1. k \in 1 .. L /\ k \in From .. From + MaxRecords - 1
        BY <2>4, <2>7, <2>9
      <4>2. k \in DOMAIN good /\ Count(good[k]) = k
        BY <2>1, <2>2, <4>1
      <4>3. good[k] \in GoodIn(0, NItems)
        BY <1>3, <4>2 DEF IsOrder
      <4> QED BY <4>1, <4>2, <4>3 DEF Chosen
    <3>2. ASSUME NEW i \in Chosen(NItems) PROVE \E k \in c + 1 .. c + n : good[k] = i
      <4>1. i \in GoodIn(0, NItems) /\ Count(i) \in From .. From + MaxRecords - 1
        BY <1>5 DEF Chosen
      <4>2. PICK k \in DOMAIN good : good[k] = i
        BY <1>3, <4>1 DEF IsOrder
      <4>3. k \in 1 .. L /\ Count(i) = k
        BY <2>1, <2>2, <4>2
      <4>4. k \in c + 1 .. c + n
        BY <2>4, <2>7, <4>1, <4>3
      <4> QED BY <4>2, <4>4
    <3> QED BY <3>1, <3>2
  <2> QED BY <2>6, <2>8, <2>10
<1> QED BY <1>4, <1>5

\* When the data has ended nothing is left to announce or to plan, and what is shown is
\* all that was to be shown.
LEMMA LostEnd == StreamInv /\ LostInv => NothingLost
<1> SUFFICES ASSUME StreamInv, LostInv, renderer = "done", ~canceled, dist.pc # "idle",
                    how.collect # "append", how.limit # "map",
                    reported = 0 \/ (Deletes(how) /\ AppMapSize < 2 * NRoutines)
             PROVE  ShownItems = Wanted
  BY DEF NothingLost
<1>1. todo = <<>>
  BY DEF StreamInv, SaidInv
<1>2. ~ Excused
  <2>1. \A op : ~ Will(todo, op)
    BY <1>1 DEF Will
  <2>2. OnePer \/ ~ (reported > 0)
    BY DEF OnePer
  <2> QED BY <2>1, <2>2 DEF Excused
<1>3. \A x \in Statements, v \in Seq(Statements) : << x >> \o v # <<>>
  BY ConsIs
<1>4. Stmt("err") \in Statements /\ Stmt("drain") \in Statements /\ Stmt("collect") \in Statements
  BY StatementFacts DEF Ops, ArmOps
<1>5. ~ Fetching
  BY <1>1, <1>3, <1>4, Zenon DEF Fetching, AtErr, AtDrain, AtCollect
<1>6. ~ Starting
  <2>1. SUFFICES ASSUME NEW n \in Nat, NEW m \in Nat, n < m, m <= NItems, NEW u, AtMap(todo, n, m, u) PROVE FALSE
    BY Zenon DEF Starting
  <2>2. Mapping(n, m) \in Statements
    BY <2>1, BlockIs
  <2> QED BY <1>1, <1>3, <2>1, <2>2, Zenon DEF AtMap
<1>7. Sending
  BY <1>2, <1>5, <1>6 DEF LostInv, LostCase
<1>8. PICK n, pre, u, pend, q, c :
        /\ n \in Nat /\ pre \in Seq(Statements) /\ u \in Seq(Statements)
        /\ todo = pre \o u /\ Spells(pre, pend) /\ Plan(u, n, NItems)
        /\ q = ShownItems /\ c = counter /\ Settled(q \o pend, n, c)
  BY <1>7, Zenon DEF Sending
<1>9. pre = <<>> /\ u = <<>>
  <2>1. Len(pre \o u) = Len(pre) + Len(u) /\ Len(pre) \in Nat /\ Len(u) \in Nat
    BY <1>8
  <2>3. pre \o u = <<>>
    BY <1>1, <1>8, Zenon
  <2>4. PICK t \in Seq(Statements) : t = <<>>
    BY SeqsOf, Zenon
  <2>5. Len(t) = 0
    BY <2>4
  <2>2. Len(pre \o u) = 0
    BY <2>3, <2>4, <2>5, Zenon
  <2> QED BY <1>8, <2>1, <2>2
<1>10. pend = <<>>
  <2>1. SpellsFirst(pre, pend)
    BY <1>8, SpellsCases
  <2>2. \A i \in Items, v \in {"fetched", "blank"} : Send(i, v) \in Statements
    BY StatementFacts
  <2> QED BY <1>3, <1>4, <1>9, <2>1, <2>2, Zenon DEF SpellsFirst
<1>11. n = NItems
  <2>1. \/ n = NItems
        \/ \E w \in Seq(Statements) : u = << Stmt("group") >> \o w /\ Plan(w, n, NItems)
        \/ \E w \in Seq(Statements), l \in Nat :
             /\ n < l /\ l - n <= AppMapSize
             /\ u = Block(n, l) \o w /\ Plan(w, l, NItems)
    BY <1>8, PlanCases
  <2>2. Stmt("group") \in Statements
    BY StatementFacts DEF Ops
  <2>3. ASSUME NEW w \in Seq(Statements), NEW l \in Nat, n < l, u = Block(n, l) \o w PROVE FALSE
    <3>1. InBlock(u, n, l, w)
      BY <1>8, <2>3, BlockParts
    <3> QED BY <1>9, <3>1 DEF InBlock
  <2> QED BY <1>3, <1>9, <2>1, <2>2, <2>3, Zenon
<1>12. q \in Seq(Items)
  <2>1. PICK s \in Seq(Items \X {"fetched", "blank"}) : s = shown
    BY DEF StreamInv, TypeInv
  <2>2. ShownItems = [k \in 1 .. Len(s) |-> s[k][1]]
    BY <2>1 DEF ShownItems
  <2>3. Len(s) \in Nat /\ \A k \in 1 .. Len(s) : s[k][1] \in Items
    OBVIOUS
  <2> QED BY <1>8, <2>2, <2>3
<1>13. q \o pend = q
  BY <1>10, <1>12, ConcatEmptySeq
<1>14. IsOrder(q, Chosen(NItems))
  BY <1>8, <1>11, <1>13 DEF Settled
<1>15. PICK S \in SUBSET Nat : S = Chosen(NItems)
  <2>1. Chosen(NItems) \subseteq Nat
    BY StreamAssumption, ChosenStep
  <2> QED BY <2>1
<1>16. q = Wanted
  BY <1>14, <1>15, WantedIs, OrderUnique DEF StreamInv
<1> QED BY <1>8, <1>16

\* At the end of the data every item that answered has been shown, once and in its
\* order, within --first_record and --max_records: the maps of AsSliceOfMaps take all the
\* items, a worker of IterateOverMap lets go of an item only when it is stored or
\* failed, and StreamMany renders the records of a map before the next one is fetched.
THEOREM NothingIsLost == Spec => []NothingLost
<1>1. Spec => []LostInv
  <2>1. LostInv /\ StreamInv /\ [Next]_vars => LostInv'
    BY LostStep
  <2> QED BY <2>1, LostStart, AlwaysStream, PTL DEF Spec
<1>2. StreamInv /\ LostInv => NothingLost
  BY LostEnd
<1> QED BY <1>1, <1>2, AlwaysStream, PTL

-----------------------------------------------------------------------------
(***************************************************************************)
(* The output of the commands (Render).  A JsonWriter is at rest between   *)
(* two steps: nothing is open, or the document and the field of it with    *)
(* the rows, and a parser that has read the output so far has the same     *)
(* open.                                                                   *)
(***************************************************************************)
\* What a JSON parser makes of the first n tokens of an output
Begin0 == [ok |-> TRUE, stack |-> <<>>, last |-> "open"]
Reads(f, o, n) == f = [k \in 0 .. n |-> IF k = 0 THEN Begin0 ELSE ParseToken(f[k - 1], o[k])]

\* There is such a reading of every output.
LEMMA ReadsExists ==
  ASSUME NEW o, NEW n \in Nat
  PROVE  \E f : Reads(f, o, n)
<1> DEFINE Bad == {m \in 0 .. n : ~ \E f : Reads(f, o, m)}
<1> SUFFICES ASSUME Bad # {} PROVE FALSE
  OBVIOUS
<1>1. PICK m \in Bad : \A i \in Bad : m <= i
  <2>1. Bad \in SUBSET Nat
    OBVIOUS
  <2> HIDE DEF Bad
  <2> QED BY <2>1, LeastOf
<1>2. m # 0
  <2>1. Reads([k \in 0 .. 0 |-> Begin0], o, 0)
    BY DEF Reads
  <2> QED BY <2>1
<1>3. m \in 0 .. n /\ m - 1 \in 0 .. n /\ m - 1 \notin Bad
  BY <1>1, <1>2
<1>4. PICK f : Reads(f, o, m - 1)
  BY <1>3
<1> DEFINE g == [k \in 0 .. m |-> IF k = m THEN ParseToken(f[m - 1], o[m]) ELSE f[k]]
<1>5. \A k \in 0 .. m : g[k] = IF k = 0 THEN Begin0 ELSE ParseToken(g[k - 1], o[k])
  <2> SUFFICES ASSUME NEW k \in 0 .. m
        PROVE  g[k] = IF k = 0 THEN Begin0 ELSE ParseToken(g[k - 1], o[k])
    OBVIOUS
  <2>1. k # 0 => g[k - 1] = f[k - 1]
    BY <1>3
  <2>2. CASE k = m
    <3>1. g[k] = ParseToken(f[m - 1], o[m])
      BY <2>2
    <3>2. g[k - 1] = f[m - 1]
      BY <2>1, <2>2, <1>2
    <3> HIDE DEF g
    <3> QED BY <2>2, <3>1, <3>2, <1>2
  <2>3. CASE k # m
    <3>1. k \in 0 .. m - 1 /\ g[k] = f[k]
      BY <1>3, <2>3
    <3>2. f[k] = IF k = 0 THEN Begin0 ELSE ParseToken(f[k - 1], o[k])
      BY <1>4, <3>1 DEF Reads
    <3> HIDE DEF g
    <3> QED BY <2>1, <3>1, <3>2
  <2> QED BY <2>2, <2>3
<1>6. Reads(g, o, m)
  <2>1. g = [k \in 0 .. m |-> g[k]]
    OBVIOUS
  <2> HIDE DEF g
  <2> QED BY <1>5, <2>1 DEF Reads
<1> QED BY <1>1, <1>6

\* Two readings agree as far as the outputs do.
LEMMA ReadsAgree ==
  ASSUME NEW o, NEW q, NEW n \in Nat, NEW m \in Nat, n <= m, \A k \in 1 .. n : o[k] = q[k],
         NEW f, NEW g, Reads(f, o, n), Reads(g, q, m)
  PROVE  f[n] = g[n]
<1> DEFINE Bad == {k \in 0 .. n : f[k] # g[k]}
<1> SUFFICES ASSUME Bad # {} PROVE FALSE
  OBVIOUS
<1>1. PICK k \in Bad : \A i \in Bad : k <= i
  <2>1. Bad \in SUBSET Nat
    OBVIOUS
  <2> HIDE DEF Bad
  <2> QED BY <2>1, LeastOf
<1>2. k \in 0 .. n /\ k \in 0 .. m /\ f[k] # g[k]
  BY <1>1
<1>3. /\ f[k] = IF k = 0 THEN Begin0 ELSE ParseToken(f[k - 1], o[k])
      /\ g[k] = IF k = 0 THEN Begin0 ELSE ParseToken(g[k - 1], q[k])
  BY <1>2 DEF Reads
<1>4. k # 0
  BY <1>2, <1>3
<1>5. k - 1 \in 0 .. n /\ k - 1 \notin Bad /\ k \in 1 .. n
  BY <1>1, <1>2, <1>4
<1>6. f[k - 1] = g[k - 1] /\ o[k] = q[k]
  BY <1>5
<1> QED BY <1>2, <1>3, <1>4, <1>6

\* Parse is the end of it.
LEMMA ParseIs ==
  ASSUME NEW o, NEW f, Len(o) \in Nat, Reads(f, o, Len(o))
  PROVE  Parse(o) = f[Len(o)]
<1> DEFINE c == CHOOSE g : Reads(g, o, Len(o))
<1>1. Parse(o) = c[Len(o)]
  BY DEF Parse, Reads, Begin0
<1>2. Reads(c, o, Len(o))
  BY ReadsExists
<1> HIDE DEF c
<1> QED BY <1>1, <1>2, ReadsAgree

\* Nothing is read.
LEMMA ParseEmpty == Parse(<<>>) = Begin0
<1>1. Len(<<>>) = 0 /\ Reads([k \in 0 .. 0 |-> Begin0], <<>>, 0)
  BY DEF Reads
<1> QED BY <1>1, ParseIs

\* What one more token makes of it, when the output is a sequence
LEMMA ParseOneMore ==
  ASSUME NEW o, NEW q, NEW n \in Nat, NEW k \in Nat, k = n + 1, Len(o) = n, Len(q) = k,
         \A i \in 1 .. n : o[i] = q[i]
  PROVE  Parse(q) = ParseToken(Parse(o), q[k])
<1>1. PICK f : Reads(f, o, n)
  BY ReadsExists
<1>2. PICK g : Reads(g, q, k)
  BY ReadsExists
<1>3. f[n] = g[n]
  BY <1>1, <1>2, ReadsAgree
<1>4. g[k] = ParseToken(g[n], q[k])
  BY <1>2 DEF Reads
<1>5. Parse(o) = f[n] /\ Parse(q) = g[k]
  BY <1>1, <1>2, ParseIs
<1> QED BY <1>3, <1>4, <1>5

\* ... of any tokens.
LEMMA ParseAppend ==
  ASSUME NEW S, NEW o \in Seq(S), NEW t \in S
  PROVE  Parse(Append(o, t)) = ParseToken(Parse(o), t)
<1>1. PICK n \in Nat, k \in Nat : n = Len(o) /\ k = n + 1
  OBVIOUS
<1>2. PICK q : q = Append(o, t)
  OBVIOUS
<1>3. Len(q) = k /\ q[k] = t /\ \A i \in 1 .. n : o[i] = q[i]
  BY <1>1, <1>2
<1>4. Parse(q) = ParseToken(Parse(o), q[k])
  <2>1. Len(o) = n
    BY <1>1
  <2> QED BY <1>1, <1>3, <2>1, ParseOneMore, Zenon
<1> QED BY <1>2, <1>3, <1>4, Zenon

-----------------------------------------------------------------------------
Tokens == {"{", "[", "]", "}", ",", "row", "meta", "errors", "header", "line"}

\* The same for the tokens that are written.
LEMMA OneMore ==
  ASSUME NEW o \in Seq(Tokens), NEW t \in Tokens
  PROVE  Append(o, t) \in Seq(Tokens) /\ Parse(Append(o, t)) = ParseToken(Parse(o), t)
<1>1. Append(o, t) \in Seq(Tokens)
  OBVIOUS
<1> QED BY <1>1, ParseAppend

\* Short sequences.
LEMMA Short ==
  ASSUME NEW a, NEW b
  PROVE  /\ Append(<<>>, a) = << a >> /\ Append(<< a >>, b) = << a, b >>
         /\ SubSeq(<< a >>, 1, Len(<< a >>) - 1) = <<>> /\ SubSeq(<< a, b >>, 1, Len(<< a, b >>) - 1) = << a >>
         /\ << a >> # <<>> /\ << a, b >> # <<>>
         /\ << a >>[Len(<< a >>)] = a /\ << a, b >>[Len(<< a, b >>)] = b
<1> DEFINE S == {a, b}
<1>1. /\ <<>> \in Seq(S) /\ << a >> \in Seq(S) /\ << a, b >> \in Seq(S)
      /\ Len(<<>>) = 0 /\ Len(<< a >>) = 1 /\ Len(<< a, b >>) = 2
      /\ << a >>[1] = a /\ << a, b >>[1] = a /\ << a, b >>[2] = b
  OBVIOUS
<1>2. Append(<<>>, a) = << a >>
  <2>1. Append(<<>>, a) \in Seq(S) /\ Len(Append(<<>>, a)) = 1 /\ Append(<<>>, a)[1] = a
    BY <1>1
  <2> QED BY <1>1, <2>1, SeqEqual
<1>3. Append(<< a >>, b) = << a, b >>
  <2>1. /\ Append(<< a >>, b) \in Seq(S) /\ Len(Append(<< a >>, b)) = 2
        /\ Append(<< a >>, b)[1] = a /\ Append(<< a >>, b)[2] = b
    BY <1>1
  <2>2. \A i \in 1 .. 2 : Append(<< a >>, b)[i] = << a, b >>[i]
    BY <1>1, <2>1
  <2> QED BY <1>1, <2>1, <2>2, SeqEqual, Zenon
<1>4. SubSeq(<< a >>, 1, 0) = <<>>
  BY SubSeqEmpty
<1>5. SubSeq(<< a, b >>, 1, 1) = << a >>
  <2>1. \A i \in 1 .. 1 : << a, b >>[i] \in S
    BY <1>1
  <2>2. /\ SubSeq(<< a, b >>, 1, 1) \in Seq(S) /\ Len(SubSeq(<< a, b >>, 1, 1)) = 1
        /\ SubSeq(<< a, b >>, 1, 1)[1] = a
    BY <1>1, <2>1, SubSeqProperties
  <2>3. \A i \in 1 .. 1 : SubSeq(<< a, b >>, 1, 1)[i] = << a >>[i]
    BY <1>1, <2>2
  <2> QED BY <1>1, <2>2, <2>3, SeqEqual, Zenon
<1> HIDE DEF S
<1> QED BY <1>1, <1>2, <1>3, <1>4, <1>5

Now(stack, last) == [ok |-> TRUE, stack |-> stack, last |-> last]

\* How the parser goes on at the top, and inside of something.
LEMMA AtTop ==
  ASSUME NEW a, a.ok, a.stack = <<>>
  PROVE  /\ ParseToken(a, "{") = Now(<< "{" >>, "open")
         /\ \A t \in {"header", "line"} : ParseToken(a, t) = Now(<<>>, "elem")
BY Short DEF ParseToken, Now

\* ... inside of something.
LEMMA Inside ==
  ASSUME NEW s, s # <<>>, NEW last, NEW top, s[Len(s)] = top
  PROVE  /\ top = "{" /\ last \in {"open", "comma"} =>
              /\ ParseToken(Now(s, last), "[") = Now(Append(s, "["), "open")
              /\ \A t \in {"meta", "errors"} : ParseToken(Now(s, last), t) = Now(s, "elem")
         /\ top = "[" /\ last \in {"open", "comma"} => ParseToken(Now(s, last), "row") = Now(s, "elem")
         /\ top # "top" => ParseToken(Now(s, "elem"), ",") = Now(s, "comma")
         /\ last \in {"open", "elem"} =>
              /\ top = "[" => ParseToken(Now(s, last), "]") = Now(SubSeq(s, 1, Len(s) - 1), "elem")
              /\ top = "{" => ParseToken(Now(s, last), "}") = Now(SubSeq(s, 1, Len(s) - 1), "elem")
<1> DEFINE a == Now(s, last)
<1>1. a.ok /\ a.stack = s /\ a.last = last /\ a.stack # <<>> /\ a.stack[Len(a.stack)] = top
  BY DEF Now
<1>2. Now(s, "elem").ok /\ Now(s, "elem").stack = s /\ Now(s, "elem").last = "elem"
  BY DEF Now
<1>3. top # "top" => ParseToken(Now(s, "elem"), ",") = Now(s, "comma")
  BY <1>2 DEF ParseToken, Now
<1> HIDE DEF a
<1>4. top = "{" /\ last \in {"open", "comma"} =>
        /\ ParseToken(a, "[") = Now(Append(s, "["), "open")
        /\ \A t \in {"meta", "errors"} : ParseToken(a, t) = Now(s, "elem")
  BY <1>1 DEF ParseToken, Now
<1>5. top = "[" /\ last \in {"open", "comma"} => ParseToken(a, "row") = Now(s, "elem")
  BY <1>1 DEF ParseToken, Now
<1>6. last \in {"open", "elem"} =>
        /\ top = "[" => ParseToken(a, "]") = Now(SubSeq(s, 1, Len(s) - 1), "elem")
        /\ top = "{" => ParseToken(a, "}") = Now(SubSeq(s, 1, Len(s) - 1), "elem")
  BY <1>1 DEF ParseToken, Now
<1> QED BY <1>3, <1>4, <1>5, <1>6 DEF a

\* The moves that a JsonWriter makes.
LEMMA Grammar ==
  /\ ParseToken(Now(<< "{" >>, "open"), "[") = Now(<< "{", "[" >>, "open")
  /\ ParseToken(Now(<< "{", "[" >>, "elem"), ",") = Now(<< "{", "[" >>, "comma")
  /\ ParseToken(Now(<< "{" >>, "elem"), ",") = Now(<< "{" >>, "comma")
  /\ \A last \in {"open", "comma"} :
       /\ ParseToken(Now(<< "{", "[" >>, last), "row") = Now(<< "{", "[" >>, "elem")
       /\ \A t \in {"meta", "errors"} : ParseToken(Now(<< "{" >>, last), t) = Now(<< "{" >>, "elem")
  /\ \A last \in {"open", "elem"} :
       /\ ParseToken(Now(<< "{", "[" >>, last), "]") = Now(<< "{" >>, "elem")
       /\ ParseToken(Now(<< "{" >>, last), "}") = Now(<<>>, "elem")
<1> DEFINE d == << "{" >>
           f == << "{", "[" >>
<1>1. /\ d # <<>> /\ d[Len(d)] = "{" /\ f # <<>> /\ f[Len(f)] = "["
      /\ Append(d, "[") = f /\ SubSeq(d, 1, Len(d) - 1) = <<>> /\ SubSeq(f, 1, Len(f) - 1) = d
  BY Short
<1>2. "{" # "top" /\ "[" # "top"
  OBVIOUS
<1> HIDE DEF d, f
<1>3. ParseToken(Now(d, "open"), "[") = Now(f, "open")
  BY <1>1, Inside
<1>4. ParseToken(Now(d, "elem"), ",") = Now(d, "comma") /\ ParseToken(Now(f, "elem"), ",") = Now(f, "comma")
  BY <1>1, <1>2, Inside
<1>5. ASSUME NEW last \in {"open", "comma"}
      PROVE  /\ ParseToken(Now(f, last), "row") = Now(f, "elem")
             /\ \A t \in {"meta", "errors"} : ParseToken(Now(d, last), t) = Now(d, "elem")
  BY <1>1, <1>5, Inside, Zenon
<1>6. ASSUME NEW last \in {"open", "elem"}
      PROVE  /\ ParseToken(Now(f, last), "]") = Now(d, "elem")
             /\ ParseToken(Now(d, last), "}") = Now(<<>>, "elem")
  <2>1. ParseToken(Now(f, last), "]") = Now(SubSeq(f, 1, Len(f) - 1), "elem")
    BY <1>1, <1>6, Inside, Zenon
  <2>2. ParseToken(Now(d, last), "}") = Now(SubSeq(d, 1, Len(d) - 1), "elem")
    BY <1>1, <1>6, Inside, Zenon
  <2> QED BY <1>1, <2>1, <2>2, Zenon
<1> QED BY <1>3, <1>4, <1>5, <1>6 DEF d, f

\* The states of a JsonWriter: nothing is open, the document, the field of it
JsonState(pos, n, prev, e, m) ==
  [position |-> pos, children |-> n, previousStates |-> prev, errs |-> e, meta |-> m]
Saved(pos, n) == [position |-> pos, children |-> n]
AtEmpty(e, m) == JsonState("Empty", 0, <<>>, e, m)
AtRoot(n, e, m) == JsonState("InRoot", n, << Saved("Empty", 0) >>, e, m)
AtArray(n, e, m) == JsonState("InArray", n, << Saved("Empty", 0), Saved("InRoot", 1) >>, e, m)

\* ... and what a parser makes of the output there
Whole(o) == o \in Seq(Tokens) /\ Parse(o).ok /\ Parse(o).stack = <<>>
LastOf(n) == IF n = 0 THEN "open" ELSE "elem"
InDocument(o, n) == o \in Seq(Tokens) /\ Parse(o) = Now(<< "{" >>, LastOf(n))
InField(o, n) == o \in Seq(Tokens) /\ Parse(o) = Now(<< "{", "[" >>, LastOf(n))

\* What the states are made of,
LEMMA Fields ==
  /\ \A e, m : /\ AtEmpty(e, m).position = "Empty" /\ AtEmpty(e, m).children = 0
               /\ AtEmpty(e, m).previousStates = <<>> /\ AtEmpty(e, m).errs = e /\ AtEmpty(e, m).meta = m
  /\ \A n, e, m :
       /\ AtRoot(n, e, m).position = "InRoot" /\ AtRoot(n, e, m).children = n
       /\ AtRoot(n, e, m).previousStates = << Saved("Empty", 0) >>
       /\ AtRoot(n, e, m).errs = e /\ AtRoot(n, e, m).meta = m
       /\ AtArray(n, e, m).position = "InArray" /\ AtArray(n, e, m).children = n
       /\ AtArray(n, e, m).previousStates = << Saved("Empty", 0), Saved("InRoot", 1) >>
       /\ AtArray(n, e, m).errs = e /\ AtArray(n, e, m).meta = m
  /\ \A pos, n : Saved(pos, n).position = pos /\ Saved(pos, n).children = n
BY DEF AtEmpty, AtRoot, AtArray, JsonState, Saved

\* ... how the writer gets into them,
LEMMA Moves ==
  ASSUME NEW w
  PROVE  /\ Moved(w, "Empty", 0, <<>>) = AtEmpty(w.errs, w.meta)
         /\ \A n : /\ Moved(w, "InRoot", n, << Saved("Empty", 0) >>) = AtRoot(n, w.errs, w.meta)
                   /\ Moved(w, "InArray", n, << Saved("Empty", 0), Saved("InRoot", 1) >>)
                        = AtArray(n, w.errs, w.meta)
BY DEF Moved, AtEmpty, AtRoot, AtArray, JsonState

\* ... and when it writes a comma.
LEMMA Commas ==
  ASSUME NEW w, NEW o
  PROVE  /\ w.children = 0 => Comma(w, o) = o
         /\ w.children \in Nat /\ w.children # 0 => Comma(w, o) = Append(o, ",")
<1>1. w.children = 0 => ~(w.children > 0)
  OBVIOUS
<1>2. w.children \in Nat /\ w.children # 0 => w.children > 0
  OBVIOUS
<1> QED BY <1>1, <1>2, Zenon DEF Comma, shouldInsertComma

\* The document and its field are opened, where nothing is open.
LEMMA OpenRoot ==
  ASSUME NEW e, NEW m, NEW o, Whole(o)
  PROVE  LET r == openRoot(AtEmpty(e, m), o)
         IN  r.w = AtArray(0, e, m) /\ InField(r.out, 0)
<1> DEFINE o1 == Append(o, "{")
           o2 == Append(o1, "[")
<1>1. o1 \in Seq(Tokens) /\ Parse(o1) = Now(<< "{" >>, "open")
  <2>1. o \in Seq(Tokens) /\ "{" \in Tokens /\ Parse(o).ok /\ Parse(o).stack = <<>>
    BY DEF Whole, Tokens
  <2>2. ParseToken(Parse(o), "{") = Now(<< "{" >>, "open")
    BY <2>1, AtTop
  <2> QED BY <2>1, <2>2, OneMore
<1> HIDE DEF o1
<1>2. o2 \in Seq(Tokens) /\ Parse(o2) = Now(<< "{", "[" >>, "open")
  <2>1. "[" \in Tokens
    BY DEF Tokens
  <2>2. ParseToken(Now(<< "{" >>, "open"), "[") = Now(<< "{", "[" >>, "open")
    BY Grammar
  <2> QED BY <1>1, <2>1, <2>2, OneMore
<1> HIDE DEF o2
<1>3. openRoot(AtEmpty(e, m), o) = OpenField(AtRoot(0, e, m), o1)
  <2>1. Append(<<>>, Saved("Empty", 0)) = << Saved("Empty", 0) >>
    BY Short
  <2>2. state(AtEmpty(e, m), 0) = Saved("Empty", 0)
    BY Fields DEF state, Saved
  <2>3. Moved(AtEmpty(e, m), "InRoot", 0, << Saved("Empty", 0) >>) = AtRoot(0, e, m)
    BY Fields, Moves
  <2>4. AtEmpty(e, m).children = 0 /\ AtEmpty(e, m).previousStates = <<>>
    BY Fields
  <2> QED BY <2>1, <2>2, <2>3, <2>4 DEF openRoot, o1
<1>4. OpenField(AtRoot(0, e, m), o1) = With(AtArray(0, e, m), o2)
  <2>1. AtRoot(0, e, m).children = 0 /\ AtRoot(0, e, m).previousStates = << Saved("Empty", 0) >>
    BY Fields
  <2>2. Comma(AtRoot(0, e, m), o1) = o1
    BY <2>1, Commas, Zenon
  <2>3. state(AtRoot(0, e, m), 0 + 1) = Saved("InRoot", 1)
    BY Fields DEF state, Saved
  <2>4. Append(<< Saved("Empty", 0) >>, Saved("InRoot", 1)) = << Saved("Empty", 0), Saved("InRoot", 1) >>
    BY Short
  <2>5. Moved(AtRoot(0, e, m), "InArray", 0, << Saved("Empty", 0), Saved("InRoot", 1) >>) = AtArray(0, e, m)
    BY Fields, Moves
  <2> QED BY <2>1, <2>2, <2>3, <2>4, <2>5 DEF OpenField, o2
<1>5. With(AtArray(0, e, m), o2).w = AtArray(0, e, m) /\ With(AtArray(0, e, m), o2).out = o2
  BY DEF With
<1>6. LastOf(0) = "open"
  BY DEF LastOf
<1> QED BY <1>2, <1>3, <1>4, <1>5, <1>6, Zenon DEF InField

\* The field is closed, and the document is left open,
LEMMA Closing ==
  ASSUME NEW n, NEW e, NEW m, NEW o, NEW b, NEW w, w = AtArray(n, e, m)
  PROVE  CloseField(w, o, b) = With(AtRoot(1, e, m), Append(o, b))
<1> DEFINE q1 == << Saved("Empty", 0) >>
           q2 == << Saved("Empty", 0), Saved("InRoot", 1) >>
<1>1. q2[Len(q2)] = Saved("InRoot", 1) /\ SubSeq(q2, 1, Len(q2) - 1) = q1
  BY Short, Zenon
<1>2. w.previousStates = q2
  BY DEF AtArray, JsonState
<1>3. Moved(w, "InRoot", 1, q1) = AtRoot(1, e, m)
  BY DEF Moved, AtArray, AtRoot, JsonState
<1> HIDE DEF q1, q2
<1>4. popState(w) = Saved("InRoot", 1)
  BY <1>1, <1>2, Zenon DEF popState
<1>5. Saved("InRoot", 1).position = "InRoot" /\ Saved("InRoot", 1).children = 1
  BY DEF Saved
<1> QED BY <1>1, <1>2, <1>3, <1>4, <1>5, Zenon DEF CloseField

IsRoot(w, e, m) == \E n : w = AtRoot(n, e, m)

\* ... which is closed in turn.
LEMMA ClosingRoot ==
  ASSUME NEW w, NEW e, NEW m, NEW o, NEW b, IsRoot(w, e, m)
  PROVE  CloseField(w, o, b) = With(AtEmpty(e, m), Append(o, b))
<1>0. PICK n : w = AtRoot(n, e, m)
  BY DEF IsRoot
<1> DEFINE q == << Saved("Empty", 0) >>
<1>1. q[Len(q)] = Saved("Empty", 0) /\ SubSeq(q, 1, Len(q) - 1) = <<>>
  BY Short, Zenon
<1>2. w.previousStates = q
  BY <1>0 DEF AtRoot, JsonState
<1>3. Moved(w, "Empty", 0, <<>>) = AtEmpty(e, m)
  BY <1>0 DEF Moved, AtEmpty, AtRoot, JsonState
<1> HIDE DEF q
<1>4. popState(w) = Saved("Empty", 0)
  BY <1>1, <1>2, Zenon DEF popState
<1>5. Saved("Empty", 0).position = "Empty" /\ Saved("Empty", 0).children = 0
  BY DEF Saved
<1> QED BY <1>1, <1>2, <1>3, <1>4, <1>5, Zenon DEF CloseField

\* An item behind a comma, unless it is the first.
Behind(o, n) == IF n = 0 THEN o ELSE Append(o, ",")

\* What Write does when something is open.
LEMMA WriteIs ==
  ASSUME NEW n \in Nat, NEW e, NEW m, NEW o, NEW t
  PROVE  /\ Write(AtArray(n, e, m), o, t) = With(AtArray(n + 1, e, m), Append(Behind(o, n), t))
         /\ Write(AtRoot(n, e, m), o, t) = With(AtRoot(n + 1, e, m), Append(Behind(o, n), t))
<1>1. ASSUME NEW w, w.children = n PROVE Comma(w, o) = Behind(o, n)
  BY <1>1, Commas, Zenon DEF Behind
<1>2. /\ AtArray(n, e, m).children = n /\ AtRoot(n, e, m).children = n
      /\ AtArray(n, e, m).position = "InArray" /\ AtRoot(n, e, m).position = "InRoot"
  BY DEF AtArray, AtRoot, JsonState
<1>3. /\ Moved(AtArray(n, e, m), "InArray", n + 1, AtArray(n, e, m).previousStates) = AtArray(n + 1, e, m)
      /\ Moved(AtRoot(n, e, m), "InRoot", n + 1, AtRoot(n, e, m).previousStates) = AtRoot(n + 1, e, m)
  BY DEF Moved, AtArray, AtRoot, JsonState
<1>4. ASSUME NEW w, w.position # "Empty"
      PROVE  Write(w, o, t) = With(Moved(w, w.position, w.children + 1, w.previousStates), Append(Comma(w, o), t))
  <2>1. With(w, o).w = w /\ With(w, o).out = o
    BY DEF With
  <2> QED BY <1>4, <2>1, Zenon DEF Write
<1>5. "InArray" # "Empty" /\ "InRoot" # "Empty"
  OBVIOUS
<1>6. Comma(AtArray(n, e, m), o) = Behind(o, n) /\ Comma(AtRoot(n, e, m), o) = Behind(o, n)
  BY <1>1, <1>2, Zenon
<1>7. Write(AtArray(n, e, m), o, t) = With(AtArray(n + 1, e, m), Append(Behind(o, n), t))
  BY <1>2, <1>3, <1>4, <1>5, <1>6, Zenon
<1>8. Write(AtRoot(n, e, m), o, t) = With(AtRoot(n + 1, e, m), Append(Behind(o, n), t))
  BY <1>2, <1>3, <1>4, <1>5, <1>6, Zenon
<1> QED BY <1>7, <1>8

\* The parser behind the comma.
LEMMA BehindIs ==
  ASSUME NEW n, NEW o, NEW stack \in {<< "{" >>, << "{", "[" >>},
         o \in Seq(Tokens), Parse(o) = Now(stack, LastOf(n))
  PROVE  \E last \in {"open", "comma"} :
           Behind(o, n) \in Seq(Tokens) /\ Parse(Behind(o, n)) = Now(stack, last)
<1>1. CASE n = 0
  BY <1>1, Zenon DEF Behind, LastOf
<1>2. CASE n # 0
  <2>1. Behind(o, n) = Append(o, ",") /\ LastOf(n) = "elem"
    BY <1>2, Zenon DEF Behind, LastOf
  <2>2. "," \in Tokens
    BY DEF Tokens
  <2>3. Append(o, ",") \in Seq(Tokens) /\ Parse(Append(o, ",")) = ParseToken(Now(stack, "elem"), ",")
    BY <2>1, <2>2, OneMore, Zenon
  <2>4. ParseToken(Now(stack, "elem"), ",") = Now(stack, "comma")
    BY Grammar, Zenon
  <2> QED BY <2>1, <2>3, <2>4, Zenon
<1> QED BY <1>1, <1>2

\* A row in the field.
LEMMA WriteRow ==
  ASSUME NEW n \in Nat, NEW e, NEW m, NEW o, InField(o, n), NEW w, w = AtArray(n, e, m)
  PROVE  LET r == Write(w, o, "row")
         IN  \E k \in Nat : r.w = AtArray(k, e, m) /\ InField(r.out, k)
<1>1. PICK last \in {"open", "comma"} :
        Behind(o, n) \in Seq(Tokens) /\ Parse(Behind(o, n)) = Now(<< "{", "[" >>, last)
  BY BehindIs, Zenon DEF InField
<1> DEFINE q == Append(Behind(o, n), "row")
<1>2. "row" \in Tokens
  BY DEF Tokens
<1>3. q \in Seq(Tokens) /\ Parse(q) = ParseToken(Now(<< "{", "[" >>, last), "row")
  BY <1>1, <1>2, OneMore, Zenon
<1>4. ParseToken(Now(<< "{", "[" >>, last), "row") = Now(<< "{", "[" >>, "elem")
  BY Grammar, Zenon
<1>5. Write(w, o, "row") = With(AtArray(n + 1, e, m), q)
  BY WriteIs
<1> HIDE DEF q
<1>6. LastOf(n + 1) = "elem" /\ n + 1 \in Nat
  BY DEF LastOf
<1>7. InField(q, n + 1)
  BY <1>3, <1>4, <1>6, Zenon DEF InField
<1>8. With(AtArray(n + 1, e, m), q).w = AtArray(n + 1, e, m) /\ With(AtArray(n + 1, e, m), q).out = q
  BY DEF With
<1> QED BY <1>5, <1>6, <1>7, <1>8, Zenon

Shows(o, t) == \E i \in DOMAIN o : o[i] = t

\* A token that was written stays.
LEMMA StillHolds ==
  ASSUME NEW o \in Seq(Tokens), NEW t, Shows(o, t), NEW b \in Tokens
  PROVE  Shows(Append(o, b), t)
BY DEF Shows

\* The meta data, or the errors, in the document.
LEMMA WriteField ==
  ASSUME NEW n \in Nat, NEW e, NEW m, NEW o, InDocument(o, n), NEW t \in {"meta", "errors"},
         NEW w, w = AtRoot(n, e, m)
  PROVE  LET r == Write(w, o, t)
         IN  \E k \in Nat : r.w = AtRoot(k, e, m) /\ InDocument(r.out, k) /\ Shows(r.out, t)
<1>1. PICK last \in {"open", "comma"} :
        Behind(o, n) \in Seq(Tokens) /\ Parse(Behind(o, n)) = Now(<< "{" >>, last)
  BY BehindIs, Zenon DEF InDocument
<1> DEFINE q == Append(Behind(o, n), t)
<1>2. t \in Tokens
  BY DEF Tokens
<1>3. q \in Seq(Tokens) /\ Parse(q) = ParseToken(Now(<< "{" >>, last), t)
  BY <1>1, <1>2, OneMore, Zenon
<1>4. ParseToken(Now(<< "{" >>, last), t) = Now(<< "{" >>, "elem")
  BY Grammar, Zenon
<1>5. Write(w, o, t) = With(AtRoot(n + 1, e, m), q)
  BY WriteIs
<1>6. Shows(q, t)
  <2>1. PICK b \in Seq(Tokens) : b = Behind(o, n)
    BY <1>1
  <2>2. Len(b) + 1 \in DOMAIN Append(b, t) /\ Append(b, t)[Len(b) + 1] = t
    OBVIOUS
  <2> QED BY <2>1, <2>2, Zenon DEF Shows
<1> HIDE DEF q
<1>7. LastOf(n + 1) = "elem" /\ n + 1 \in Nat
  BY DEF LastOf
<1>8. InDocument(q, n + 1)
  BY <1>3, <1>4, <1>7, Zenon DEF InDocument
<1>9. With(AtRoot(n + 1, e, m), q).w = AtRoot(n + 1, e, m) /\ With(AtRoot(n + 1, e, m), q).out = q
  BY DEF With
<1> QED BY <1>5, <1>6, <1>7, <1>8, <1>9, Zenon

\* A writer at rest: nothing is open, or the field with the rows.
AtRest(w, o, e, m) ==
  \/ w = AtEmpty(e, m) /\ Whole(o)
  \/ \E n \in Nat : w = AtArray(n, e, m) /\ InField(o, n)

\* A row leaves the writer at rest,
LEMMA WriteAtRest ==
  ASSUME NEW w, NEW o, NEW e, NEW m, AtRest(w, o, e, m)
  PROVE  LET r == Write(w, o, "row") IN AtRest(r.w, r.out, e, m)
<1>1. CASE \E n \in Nat : w = AtArray(n, e, m) /\ InField(o, n)
  BY <1>1, WriteRow DEF AtRest
<1>2. CASE w = AtEmpty(e, m) /\ Whole(o)
  <2> DEFINE r == openRoot(w, o)
  <2>1. r.w = AtArray(0, e, m) /\ InField(r.out, 0)
    BY <1>2, OpenRoot, Zenon
  <2>2. w.position = "Empty"
    BY <1>2 DEF AtEmpty, JsonState
  <2>3. AtArray(0, e, m).position # "Empty"
    BY DEF AtArray, JsonState
  <2>4. Write(w, o, "row") = Write(r.w, r.out, "row")
    <3>1. With(r.w, r.out).w = r.w /\ With(r.w, r.out).out = r.out
      BY DEF With
    <3> HIDE DEF r
    <3>2. r.w.position # "Empty"
      BY <2>1, <2>3, Zenon
    <3> QED BY <2>2, <3>1, <3>2, Zenon DEF Write, r
  <2>5. 0 \in Nat
    OBVIOUS
  <2> HIDE DEF r
  <2> QED BY <2>1, <2>4, <2>5, WriteRow DEF AtRest
<1> QED BY <1>1, <1>2 DEF AtRest

\* Only the document is open.
AtDocument(w, o, e, m) == \E n \in Nat : w = AtRoot(n, e, m) /\ InDocument(o, n)

\* The end of the document.
LEMMA CloseDocument ==
  ASSUME NEW w, NEW o, NEW e, NEW m, AtDocument(w, o, e, m)
  PROVE  LET r == CloseField(w, o, "}")
         IN  r.w = AtEmpty(e, m) /\ Whole(r.out) /\ (Shows(o, "errors") => Shows(r.out, "errors"))
<1>0. PICK n \in Nat : w = AtRoot(n, e, m) /\ InDocument(o, n)
  BY Zenon DEF AtDocument
<1> DEFINE q == Append(o, "}")
<1>1. CloseField(w, o, "}") = With(AtEmpty(e, m), q)
  <2>1. IsRoot(w, e, m)
    BY <1>0, Zenon DEF IsRoot
  <2>2. ASSUME NEW x, NEW b, IsRoot(x, e, m) PROVE CloseField(x, o, b) = With(AtEmpty(e, m), Append(o, b))
    BY <2>2, ClosingRoot
  <2>3. \A b : CloseField(w, o, b) = With(AtEmpty(e, m), Append(o, b))
    BY <2>1, <2>2
  <2> QED BY <2>3, Zenon
<1>2. "}" \in Tokens /\ LastOf(n) \in {"open", "elem"} /\ o \in Seq(Tokens)
  BY <1>0, Zenon DEF Tokens, LastOf, InDocument
<1>3. Shows(o, "errors") => Shows(q, "errors")
  BY <1>2, StillHolds
<1>4. q \in Seq(Tokens) /\ Parse(q) = ParseToken(Now(<< "{" >>, LastOf(n)), "}")
  BY <1>0, <1>2, OneMore, Zenon DEF InDocument
<1>5. ParseToken(Now(<< "{" >>, LastOf(n)), "}") = Now(<<>>, "elem")
  BY <1>2, Grammar, Zenon
<1>6. Now(<<>>, "elem").ok /\ Now(<<>>, "elem").stack = <<>>
  BY DEF Now
<1>7. Whole(q)
  BY <1>4, <1>5, <1>6, Zenon DEF Whole
<1>8. \A x, y : With(x, y).w = x /\ With(x, y).out = y
  BY DEF With
<1> HIDE DEF q
<1> QED BY <1>1, <1>3, <1>7, <1>8, Zenon

\* Close leaves nothing open, and the errors in the output.
LEMMA CloseAtRest ==
  ASSUME NEW w, NEW o, NEW e, NEW m, AtRest(w, o, e, m)
  PROVE  LET r == CloseWriter(w, o)
         IN  r.w = AtEmpty(e, m) /\ Whole(r.out) /\ (e > 0 => Shows(r.out, "errors"))
<1> DEFINE opened == IF w.position = "Empty" THEN openRoot(w, o) ELSE With(w, o)
           field == IF opened.w.position = "InArray" THEN CloseField(opened.w, opened.out, "]") ELSE opened
           meta == IF w.meta THEN Write(field.w, field.out, "meta") ELSE field
           errs == IF w.errs > 0 THEN Write(meta.w, meta.out, "errors") ELSE meta
<1>1. CloseWriter(w, o) = CloseField(errs.w, errs.out, "}")
  BY Zenon DEF CloseWriter
<1>2. w.errs = e /\ w.meta = m
  BY DEF AtRest, AtEmpty, AtArray, JsonState
<1>3. \A a, b : With(a, b).w = a /\ With(a, b).out = b
  BY DEF With
<1>4. PICK n \in Nat : opened.w = AtArray(n, e, m) /\ InField(opened.out, n)
  <2>1. CASE w = AtEmpty(e, m) /\ Whole(o)
    <3>1. w.position = "Empty" /\ 0 \in Nat
      BY <2>1 DEF AtEmpty, JsonState
    <3>2. openRoot(w, o).w = AtArray(0, e, m) /\ InField(openRoot(w, o).out, 0)
      BY <2>1, OpenRoot, Zenon
    <3> QED BY <3>1, <3>2, Zenon
  <2>2. CASE \E k \in Nat : w = AtArray(k, e, m) /\ InField(o, k)
    <3>1. PICK k \in Nat : w = AtArray(k, e, m) /\ InField(o, k)
      BY <2>2
    <3>2. w.position # "Empty"
      BY <3>1 DEF AtArray, JsonState
    <3>3. opened.w = w /\ opened.out = o
      BY <1>3, <3>2, Zenon
    <3> HIDE DEF opened
    <3> QED BY <3>1, <3>3
  <2> QED BY <2>1, <2>2 DEF AtRest
<1> HIDE DEF opened
<1>5. field.w = AtRoot(1, e, m) /\ InDocument(field.out, 1)
  <2>1. opened.w.position = "InArray"
    BY <1>4 DEF AtArray, JsonState
  <2>2. field = With(AtRoot(1, e, m), Append(opened.out, "]"))
    BY <1>4, <2>1, Closing
  <2>3. "]" \in Tokens /\ LastOf(n) \in {"open", "elem"} /\ LastOf(1) = "elem"
    BY DEF Tokens, LastOf
  <2>4. /\ Append(opened.out, "]") \in Seq(Tokens)
        /\ Parse(Append(opened.out, "]")) = ParseToken(Now(<< "{", "[" >>, LastOf(n)), "]")
    BY <1>4, <2>3, OneMore, Zenon DEF InField
  <2>5. ParseToken(Now(<< "{", "[" >>, LastOf(n)), "]") = Now(<< "{" >>, "elem")
    BY <2>3, Grammar, Zenon
  <2> HIDE DEF field
  <2> QED BY <1>3, <2>2, <2>3, <2>4, <2>5, Zenon DEF InDocument
<1> HIDE DEF field
<1>6. PICK k \in Nat : meta.w = AtRoot(k, e, m) /\ InDocument(meta.out, k)
  <2>1. 1 \in Nat
    OBVIOUS
  <2> QED BY <1>5, <2>1, WriteField
<1> HIDE DEF meta
<1>7. PICK j \in Nat : errs.w = AtRoot(j, e, m) /\ InDocument(errs.out, j) /\ (e > 0 => Shows(errs.out, "errors"))
  BY <1>2, <1>6, WriteField
<1> HIDE DEF errs
<1>8. AtDocument(errs.w, errs.out, e, m)
  BY <1>7, Zenon DEF AtDocument
<1>9. LET r == CloseField(errs.w, errs.out, "}")
      IN  r.w = AtEmpty(e, m) /\ Whole(r.out) /\ (Shows(errs.out, "errors") => Shows(r.out, "errors"))
  BY <1>8, CloseDocument, Zenon
<1> QED BY <1>1, <1>7, <1>9, Zenon

-----------------------------------------------------------------------------
\* The writer of a command: of a text, or a JsonWriter at rest.
WriterInv ==
  \/ writer = TextWriter /\ Whole(out)
  \/ \E e \in Nat, m \in BOOLEAN : AtRest(writer, out, e, m)

\* While a command runs its writer is one of its format; before the first
\* command, and when the last has closed it, nothing is open.
RenderInv ==
  /\ WriterInv
  /\ "json" \in DOMAIN p /\ p.json \in BOOLEAN /\ lines \in Nat
  /\ cmd = "running" => (p.json <=> IsJson(writer))
  /\ lines = 0 => ~IsJson(writer)
  /\ cmd = "done" => /\ Whole(out)
                     /\ IsJson(writer) => writer.errs \in Nat /\ (writer.errs > 0 => Shows(out, "errors"))

\* What the writers are made as,
LEMMA NewWriter == ASSUME NEW m PROVE NewDefaultJsonWriter(m) = AtEmpty(0, m)
BY DEF NewDefaultJsonWriter, AtEmpty, JsonState

\* ... how they are told apart,
LEMMA RestIsJson ==
  ASSUME NEW w, NEW o, NEW e, NEW m, AtRest(w, o, e, m)
  PROVE  IsJson(w) /\ w # TextWriter /\ w.errs = e /\ w.meta = m
<1>1. w.position \in {"Empty", "InArray"} /\ w.errs = e /\ w.meta = m
  BY DEF AtRest, AtEmpty, AtArray, JsonState
<1>2. TextWriter.position = "Text"
  BY DEF TextWriter
<1> QED BY <1>1, <1>2 DEF IsJson

\* ... also from the writer of a text.
LEMMA TextIsText == ~IsJson(TextWriter)
BY DEF IsJson, TextWriter

\* Nothing is whole.
LEMMA NothingWritten == Whole(<<>>)
<1>1. <<>> \in Seq(Tokens)
  OBVIOUS
<1>2. Begin0.ok /\ Begin0.stack = <<>>
  BY DEF Begin0
<1> QED BY <1>1, <1>2, ParseEmpty, Zenon DEF Whole

\* A text line can follow what is whole.
LEMMA TextLine ==
  ASSUME NEW o, Whole(o), NEW t \in {"header", "line"}
  PROVE  Whole(Append(o, t))
<1>1. o \in Seq(Tokens) /\ t \in Tokens /\ Parse(o).ok /\ Parse(o).stack = <<>>
  BY DEF Whole, Tokens
<1>2. ParseToken(Parse(o), t) = Now(<<>>, "elem")
  BY <1>1, AtTop, Zenon
<1>3. Append(o, t) \in Seq(Tokens) /\ Parse(Append(o, t)) = ParseToken(Parse(o), t)
  BY <1>1, OneMore, Zenon
<1>4. Now(<<>>, "elem").ok /\ Now(<<>>, "elem").stack = <<>>
  BY DEF Now
<1> QED BY <1>2, <1>3, <1>4, Zenon DEF Whole

\* What a command finds, and what it leaves of it, when the writer is changed.
LEMMA SetWriter ==
  ASSUME RenderInv, NEW json \in BOOLEAN,
         IF sink = "api" THEN InitJsonWriterApi(json) ELSE SetWriterForCommand(json),
         sink = "api" => lines = 0
  PROVE  WriterInv' /\ (json <=> IsJson(writer)')
<1>1. CASE writer = TextWriter /\ Whole(out)
  <2>1. ~IsJson(writer) /\ Whole(GetOutputFileWriter(out))
    BY <1>1, TextIsText, NothingWritten, Zenon DEF GetOutputFileWriter
  <2>2. /\ out' \in {out, GetOutputFileWriter(out)}
        /\ \/ json /\ \E m \in BOOLEAN : writer' = NewDefaultJsonWriter(m)
           \/ ~json /\ writer' = TextWriter
    BY <2>1, Zenon DEF InitJsonWriterApi, SetWriterForCommand
  <2>3. Whole(out')
    BY <1>1, <2>1, <2>2
  <2>4. CASE json
    <3>1. PICK m \in BOOLEAN : writer' = AtEmpty(0, m)
      BY <2>2, <2>4, NewWriter
    <3>2. AtRest(writer', out', 0, m) /\ 0 \in Nat
      BY <2>3, <3>1 DEF AtRest
    <3>3. IsJson(writer')
      BY <3>2, RestIsJson, Zenon
    <3> QED BY <2>4, <3>2, <3>3, Zenon DEF WriterInv, IsJson
  <2>5. CASE ~json
    BY <2>2, <2>3, <2>5, TextIsText, Zenon DEF WriterInv, IsJson
  <2> QED BY <2>4, <2>5
<1>2. CASE \E e \in Nat, m \in BOOLEAN : AtRest(writer, out, e, m)
  <2>1. PICK e \in Nat, m \in BOOLEAN : AtRest(writer, out, e, m)
    BY <1>2
  <2>2. IsJson(writer) /\ sink # "api"
    BY <2>1, RestIsJson, Zenon DEF RenderInv
  <2>3. CASE json
    <3>1. writer' = writer /\ out' = out
      BY <2>2, <2>3, Zenon DEF SetWriterForCommand
    <3> QED BY <2>1, <2>2, <2>3, <3>1, Zenon DEF WriterInv, IsJson
  <2>4. CASE ~json
    <3>1. writer' = TextWriter /\ out' = GetOutputFileWriter(CloseWriter(writer, out).out)
      BY <2>2, <2>4, Zenon DEF SetWriterForCommand
    <3>2. Whole(CloseWriter(writer, out).out)
      BY <2>1, CloseAtRest
    <3>3. Whole(out')
      BY <3>1, <3>2, NothingWritten, Zenon DEF GetOutputFileWriter
    <3> QED BY <2>4, <3>1, <3>3, TextIsText, Zenon DEF WriterInv, IsJson
  <2> QED BY <2>3, <2>4
<1> QED BY <1>1, <1>2 DEF RenderInv, WriterInv

\* The actions, one by one.
LEMMA CommandStep ==
  ASSUME RenderInv, NEW json \in BOOLEAN, Command(json)
  PROVE  RenderInv'
<1>1. /\ IF sink = "api" THEN InitJsonWriterApi(json) ELSE SetWriterForCommand(json)
      /\ p' = [p EXCEPT !.json = json] /\ cmd' = "running" /\ lines' = lines + 1
      /\ sink = "api" => lines < 1
  BY DEF Command
<1>2. lines \in Nat /\ "json" \in DOMAIN p
  BY DEF RenderInv
<1>3. lines' \in Nat /\ lines' # 0 /\ (sink = "api" => lines = 0)
  BY <1>1, <1>2
<1>4. "json" \in DOMAIN p' /\ p'.json = json
  BY <1>1, <1>2
<1>5. WriterInv' /\ (json <=> IsJson(writer)')
  BY <1>1, <1>3, SetWriter, Zenon
<1>6. cmd' # "done"
  BY <1>1
<1> QED BY <1>3, <1>4, <1>5, <1>6, Zenon DEF RenderInv

\* The row of a JSON document, or the line of a text.
LEMMA RowStep ==
  ASSUME RenderInv, NEW s, StreamModel(s)
  PROVE  RenderInv'
<1>1. /\ cmd = "running" /\ cmd' = cmd /\ p' = p /\ lines' = lines
      /\ IF p.json
         THEN LET r == Write(writer, out, "row") IN writer' = r.w /\ out' = r.out
         ELSE /\ out' = out \o (IF rows = 0 THEN << "header", "line" >> ELSE << "line" >>)
              /\ writer' = writer
  BY Zenon DEF StreamModel
<1>2. p.json <=> IsJson(writer)
  BY <1>1, Zenon DEF RenderInv
<1>3. cmd' # "done"
  BY <1>1
<1>4. CASE p.json
  <2>1. PICK e \in Nat, m \in BOOLEAN : AtRest(writer, out, e, m)
    BY <1>2, <1>4, TextIsText, Zenon DEF RenderInv, WriterInv
  <2>2. AtRest(writer', out', e, m)
    BY <1>1, <1>4, <2>1, WriteAtRest, Zenon
  <2>3. IsJson(writer')
    BY <2>2, RestIsJson, Zenon
  <2> QED BY <1>1, <1>2, <1>3, <1>4, <2>2, <2>3, Zenon DEF RenderInv, WriterInv, IsJson
<1>5. CASE ~p.json
  <2>1. writer = TextWriter /\ Whole(out)
    BY <1>2, <1>5, RestIsJson, Zenon DEF RenderInv, WriterInv
  <2>2. out \in Seq(Tokens) /\ "header" \in Tokens /\ "line" \in Tokens
    BY <2>1 DEF Whole, Tokens
  <2>3. /\ out \o << "line" >> = Append(out, "line")
        /\ out \o << "header", "line" >> = Append(Append(out, "header"), "line")
    BY <2>2
  <2>4. Whole(Append(out, "line")) /\ Whole(Append(Append(out, "header"), "line"))
    BY <2>1, TextLine, Zenon
  <2>5. writer' = writer /\ Whole(out')
    BY <1>1, <1>5, <2>3, <2>4, Zenon
  <2> QED BY <1>1, <1>2, <1>3, <1>5, <2>1, <2>5, Zenon DEF RenderInv, WriterInv, IsJson
<1> QED BY <1>4, <1>5

\* An error is counted and not yet written.
LEMMA ErrorStep ==
  ASSUME RenderInv, WriteError
  PROVE  RenderInv'
<1>1. /\ cmd = "running" /\ p.json /\ writer' = [writer EXCEPT !.errs = @ + 1]
      /\ cmd' = cmd /\ p' = p /\ lines' = lines /\ out' = out
  BY DEF WriteError
<1>2. IsJson(writer) /\ cmd' # "done"
  BY <1>1, Zenon DEF RenderInv
<1>3. PICK e \in Nat, m \in BOOLEAN : AtRest(writer, out, e, m)
  BY <1>2, TextIsText, Zenon DEF RenderInv, WriterInv
<1>4. AtRest(writer', out', e + 1, m) /\ e + 1 \in Nat
  <2>1. CASE writer = AtEmpty(e, m) /\ Whole(out)
    <3>1. writer' = AtEmpty(e + 1, m)
      BY <1>1, <2>1 DEF AtEmpty, JsonState
    <3> QED BY <1>1, <2>1, <3>1 DEF AtRest
  <2>2. CASE \E n \in Nat : writer = AtArray(n, e, m) /\ InField(out, n)
    <3>1. PICK n \in Nat : writer = AtArray(n, e, m) /\ InField(out, n)
      BY <2>2
    <3>2. writer' = AtArray(n, e + 1, m)
      BY <1>1, <3>1 DEF AtArray, JsonState
    <3> QED BY <1>1, <3>1, <3>2 DEF AtRest
  <2> QED BY <1>3, <2>1, <2>2 DEF AtRest
<1>5. IsJson(writer')
  BY <1>4, RestIsJson
<1>6. WriterInv'
  BY <1>4 DEF WriterInv
<1> QED BY <1>1, <1>2, <1>5, <1>6, Zenon DEF RenderInv, IsJson

\* The command returns, with its writer open.
LEMMA ReturnStep ==
  ASSUME RenderInv, NEW err \in BOOLEAN, Return(err)
  PROVE  RenderInv'
<1>1. /\ cmd' \in {"failed", "idle"} /\ p' = p /\ writer' = writer /\ out' = out /\ lines' = lines
  BY DEF Return
<1>2. cmd' # "done" /\ cmd' # "running"
  BY <1>1
<1> QED BY <1>1, <1>2, Zenon DEF RenderInv, WriterInv, IsJson

\* What is still open is closed, behind the errors.
LEMMA PostRunStep ==
  ASSUME RenderInv, PostRun
  PROVE  RenderInv'
<1>1. /\ lines > 0 /\ cmd' = "done" /\ p' = p /\ lines' = lines
      /\ IF IsJson(writer) THEN LET r == CloseWriter(writer, out) IN writer' = r.w /\ out' = r.out
         ELSE writer' = writer /\ out' = out
  BY Zenon DEF PostRun
<1>2. cmd' # "running" /\ lines' # 0 /\ lines \in Nat
  BY <1>1 DEF RenderInv
<1>3. CASE IsJson(writer)
  <2>1. PICK e \in Nat, m \in BOOLEAN : AtRest(writer, out, e, m)
    BY <1>3, TextIsText, Zenon DEF RenderInv, WriterInv
  <2>2. writer' = AtEmpty(e, m) /\ Whole(out') /\ (e > 0 => Shows(out', "errors"))
    BY <1>1, <1>3, <2>1, CloseAtRest
  <2>3. AtRest(writer', out', e, m)
    BY <2>2 DEF AtRest
  <2>4. writer'.errs = e
    BY <2>3, RestIsJson, Zenon
  <2> QED BY <1>1, <1>2, <2>2, <2>3, <2>4, Zenon DEF RenderInv, WriterInv
<1>4. CASE ~IsJson(writer)
  <2>1. writer = TextWriter /\ Whole(out)
    BY <1>4, RestIsJson, Zenon DEF RenderInv, WriterInv
  <2> QED BY <1>1, <1>2, <1>4, <2>1, Zenon DEF RenderInv, WriterInv, IsJson
<1> QED BY <1>3, <1>4

\* RenderInv is inductive,
LEMMA RenderStart == RenderInit => RenderInv
<1> SUFFICES ASSUME RenderInit PROVE RenderInv
  OBVIOUS
<1>1. writer = TextWriter /\ out = <<>> /\ cmd = "idle" /\ lines = 0
  BY DEF RenderInit
<1>2. "json" \in DOMAIN p /\ p.json \in BOOLEAN
  BY DEF RenderInit
<1>3. WriterInv
  BY <1>1, NothingWritten, Zenon DEF WriterInv
<1>4. cmd # "running" /\ cmd # "done" /\ lines \in Nat
  BY <1>1
<1> QED BY <1>1, <1>2, <1>3, <1>4, TextIsText, Zenon DEF RenderInv

\* ... over every step,
LEMMA RenderStep == RenderInv /\ [RenderNext]_renderVars => RenderInv'
<1> SUFFICES ASSUME RenderInv, [RenderNext]_renderVars PROVE RenderInv'
  OBVIOUS
<1>1. CASE \E json \in BOOLEAN : Command(json)
  BY <1>1, CommandStep, Zenon
<1>2. CASE \E s \in Records[kind] : StreamModel(s)
  BY <1>2, RowStep, Zenon
<1>3. CASE WriteError
  BY <1>3, ErrorStep
<1>4. CASE \E err \in BOOLEAN : Return(err)
  BY <1>4, ReturnStep, Zenon
<1>5. CASE PostRun
  BY <1>5, PostRunStep
<1>6. CASE RenderEnded \/ UNCHANGED renderVars
  <2>1. /\ p' = p /\ writer' = writer /\ out' = out /\ cmd' = cmd /\ lines' = lines
    BY <1>6 DEF RenderEnded, renderVars
  <2> QED BY <2>1, Zenon DEF RenderInv, WriterInv, IsJson
<1> QED BY <1>1, <1>2, <1>3, <1>4, <1>5, <1>6, Zenon DEF RenderNext

\* ... and it is what was to be shown.
LEMMA RenderGood == RenderInv => OutputIsWellFormed
<1> SUFFICES ASSUME RenderInv PROVE OutputIsWellFormed
  OBVIOUS
<1>1. Parse(out).ok
  <2>1. CASE Whole(out)
    BY <2>1, Zenon DEF Whole
  <2>2. CASE \E n \in Nat : InField(out, n)
    <3>1. PICK n \in Nat : Parse(out) = Now(<< "{", "[" >>, LastOf(n))
      BY <2>2 DEF InField
    <3>2. Now(<< "{", "[" >>, LastOf(n)).ok
      BY DEF Now
    <3> QED BY <3>1, <3>2, Zenon
  <2> QED BY <2>1, <2>2, Zenon DEF RenderInv, WriterInv, AtRest
<1>2. cmd = "done" => Parse(out).stack = <<>>
  BY Zenon DEF RenderInv, Whole
<1>3. cmd = "done" /\ IsJson(writer) /\ writer.errs > 0 => \E i \in DOMAIN out : out[i] = "errors"
  BY Zenon DEF RenderInv, Shows
<1> QED BY <1>1, <1>2, <1>3, Zenon DEF OutputIsWellFormed, Parsed

\* Whatever mix of formats the lines of a command file ask for, however many
\* lines, rows and errors there are, the output is a prefix of whole JSON
\* documents and text lines; at the end it is whole and tells the errors
\* (JsonWriter.Write, OpenField, CloseField and Close, SetWriterForCommand,
\* PostRunWithJsonWriter).
THEOREM WellFormedOutput == RenderSpec => []OutputIsWellFormed
BY RenderStart, RenderStep, RenderGood, PTL DEF RenderSpec
=============================================================================
