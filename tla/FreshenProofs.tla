--------------------------- MODULE FreshenProofs ---------------------------
(***************************************************************************)
(* Proofs about FreshenMonitors: for any requests, addresses and index, a  *)
(* monitor that goes to production has everything that the next request    *)
(* will skip.                                                              *)
(***************************************************************************)
EXTENDS Freshen, WellFoundedInduction, TLAPS

\* Where the mutexes exclude: one request at a time, or every mutex in the map
\* from the start.  Two first requests for an address may each make one.
Excluding ==
    \A s \in Settings :
        (\A u, v \in s.active : u = v) \/ (Addrs \subseteq s.known /\ "crash" \notin s.events)

\* Where nothing that was visited is lost: an unreadable chunk is reported but its
\* range is passed over by those behind it.
Readable == \A s \in Settings : "chunk" \notin s.events /\ "write" \notin s.events

-----------------------------------------------------------------------------
(* The mutexes.                                                            *)

Labels == {"idle", "lookup", "lock", "copy", "visit", "move", "unlock"}

\* the mutexes that a request has locked, if each is the one of the map
Owned(u) ==
    CASE pc[u] \in {"lookup", "lock"} -> {<<Request[u][i]>> : i \in 1 .. idx[u] - 1}
      [] pc[u] \in {"copy", "visit", "move", "unlock"} -> {<<a>> : a \in MonitorMap(u)}
      [] OTHER -> {}

Single == \A u, v \in setting.active : u = v
KnownInv ==
    /\ \A a \in Addrs : mutexesPerAddress[a] = <<a>>
    /\ \A u \in Updaters :
        /\ pc[u] = "lock" => mutex[u] = <<Addr(u)>>
        /\ Owned(u) \subseteq locked
    /\ \A u, v \in Updaters : u # v => Owned(u) \cap Owned(v) = {}

PlaceInv ==
    /\ pc \in [Updaters -> Labels] /\ idx \in [Updaters -> Nat \ {0}]
    /\ DOMAIN mutex = Updaters
    /\ \A u \in Updaters :
        /\ pc[u] # "idle" => u \in setting.active
        /\ pc[u] = "idle" => idx[u] = 1
        /\ pc[u] = "lock" => Asked(u)
        /\ idx[u] <= Len(Request[u]) + 1
LockInv == PlaceInv /\ (Single \/ KnownInv)

-----------------------------------------------------------------------------
(* The files.                                                              *)

\* what u has staged so far, and not moved yet
StagedBy(u, a) ==
    /\ a \in MonitorMap(u)
    /\ \/ pc[u] = "copy" /\ \E i \in 1 .. idx[u] - 1 : Request[u][i] = a
       \/ pc[u] = "visit"
       \/ pc[u] = "move" /\ a \in unmoved[u]

\* the appearances of a in the chunk c are in its staged file, or on their way
Read(a, c) == In(a, c) \subseteq staged[a].apps
Covered(u, a, c) ==
    \/ Read(a, c)
    \/ c \in tasks[u]
    \/ \E r \in results[u] : r.chunk = c
    \/ a \in update[u].left \cup update[u].header /\ In(a, c) \subseteq update[u].apps[a]

FileTypes == [last : Nat, apps : SUBSET Blocks, dup : BOOLEAN, exists : BOOLEAN]
UpdateTypes == [last : Nat, apps : [Addrs -> SUBSET Blocks],
                left : SUBSET Addrs, header : SUBSET Addrs]

TypeInv ==
    /\ setting \in Settings /\ final \in Blocks /\ stage \in Blocks /\ final <= stage
    /\ prod \in [Addrs -> FileTypes] /\ staged \in [Addrs -> FileTypes]
    /\ mem \in [Updaters -> [Addrs -> Nat]]
    /\ todo \in [Updaters -> SUBSET Chunks] /\ tasks \in [Updaters -> SUBSET Chunks]
    /\ results \in [Updaters -> SUBSET [chunk : Chunks, err : BOOLEAN]]
    /\ update \in [Updaters -> UpdateTypes]
    /\ unmoved \in [Updaters -> SUBSET Addrs]

\* a chunk ends behind the stage it was made from
IndexInv == \A e \in Ends : e <= final \/ e > stage

\* what each request works on
WorkOf(u) ==
    /\ \A r \in results[u] : ~r.err
    /\ update[u].left \cup update[u].header \cup unmoved[u] \subseteq MonitorMap(u)
    /\ \A a, b \in update[u].header : a = b
    /\ update[u].header \cap update[u].left = {}
    /\ pc[u] # "visit" => todo[u] = {} /\ tasks[u] = {} /\ results[u] = {}
    /\ pc[u] \notin {"visit", "move"} => update[u] = NoUpdate
    /\ pc[u] = "move" => update[u].left \cup update[u].header \subseteq unmoved[u]
    /\ update[u].last <= stage + 1
    /\ \A a \in Addrs : mem[u][a] <= stage + 1
    /\ \A a \in Addrs : StagedBy(u, a) => staged[a].exists /\ staged[a].last = mem[u][a]

\* nothing below LastScanned is missing, but for what is on its way
ReadOf(u) == \A a \in Addrs, c \in Chunks : StagedBy(u, a) =>
    /\ c.last < mem[u][a] => Covered(u, a, c)
    /\ \A x \in tasks[u] \cup {r.chunk : r \in results[u]} : c.last <= x.last => Covered(u, a, c)
    /\ a \in update[u].left /\ c.last < update[u].last => Covered(u, a, c)
    /\ \A d \in todo[u] : c.last < d.last => c \in todo[u] \/ Covered(u, a, c)

\* ... and in production nothing at all
ProdInv == \A a \in Addrs :
    /\ prod[a].last <= stage + 1
    /\ \A c \in Chunks : c.last < prod[a].last => In(a, c) \subseteq prod[a].apps

WorkInv == ProdInv /\ \A u \in Updaters : WorkOf(u) /\ ReadOf(u)

FreshenInv == TypeInv /\ IndexInv /\ LockInv /\ WorkInv

-----------------------------------------------------------------------------
(* The types, which hold in every setting.                                 *)

\* The greater of two numbers.
LEMMA MaxOfTwo ==
  ASSUME NEW m \in Nat, NEW n \in Nat
  PROVE  Max({m, n}) = IF m >= n THEN m ELSE n
<1>1. CASE m >= n
  BY <1>1 DEF Max
<1>2. CASE ~ (m >= n)
  BY <1>2 DEF Max
<1> QED BY <1>1, <1>2

\* What the constants and the operators on them are.
LEMMA Basics ==
  /\ MaxBlock \in Nat /\ Blocks \subseteq Nat /\ 0 \in Blocks
  /\ \A u \in Updaters : MonitorMap(u) \subseteq Addrs /\ Len(Request[u]) \in Nat
       /\ DOMAIN Request[u] = 1 .. Len(Request[u])
       /\ \A i \in DOMAIN Request[u] : Request[u][i] \in MonitorMap(u)
  /\ \A a \in Addrs : \A range : In(a, range) \subseteq Blocks
  /\ \A c \in Chunks : c.last \in Ends /\ c.last \in Blocks /\ c.last <= final
  /\ \A c, d \in Chunks : c.last = d.last => c = d
<1> USE FreshenAssumption
<1>1. /\ MaxBlock \in Nat /\ Blocks \subseteq Nat /\ 0 \in Blocks
  BY DEF Blocks
<1>2. ASSUME NEW u \in Updaters
      PROVE  /\ MonitorMap(u) \subseteq Addrs /\ Len(Request[u]) \in Nat
             /\ DOMAIN Request[u] = 1 .. Len(Request[u])
             /\ \A i \in DOMAIN Request[u] : Request[u][i] \in MonitorMap(u)
  <2>1. Request[u] \in Seq(Addrs)
    OBVIOUS
  <2> QED BY <2>1 DEF MonitorMap
<1>3. \A a \in Addrs : \A range : In(a, range) \subseteq Blocks
  BY DEF In
<1>4. \A c \in Chunks : c.last \in Ends /\ c.last \in Blocks /\ c.last <= final
  BY DEF Chunks
<1>5. \A c, d \in Chunks : c.last = d.last => c = d
  BY DEF Chunks
<1> QED BY <1>1, <1>2, <1>3, <1>4, <1>5

\* The types hold before the first request.
LEMMA TypeInit == Init => TypeInv
<1> SUFFICES ASSUME Init PROVE TypeInv
  OBVIOUS
<1> USE FreshenAssumption DEF Init
<1>1. NoFile \in FileTypes
  BY DEF NoFile, FileTypes
<1>2. NoUpdate \in UpdateTypes
  BY DEF NoUpdate, UpdateTypes
<1> QED BY <1>1, <1>2, Basics DEF TypeInv

\* The scraper only adds chunks.
LEMMA ChunksGrow ==
  ASSUME TypeInv, final' \in Nat, final' >= final
  PROVE  Chunks \subseteq Chunks'
<1>1. \A e \in Ends : e <= final => e <= final'
  BY FreshenAssumption DEF TypeInv, Blocks
<1> QED BY <1>1 DEF Chunks

\* The two absent values are among the types.
LEMMA NoFileNoUpdate == NoFile \in FileTypes /\ NoUpdate \in UpdateTypes
BY DEF NoFile, FileTypes, NoUpdate, UpdateTypes

\* Of some chunks there is one that ends first, the one that is visited next.
LEMMA FirstChunk ==
  ASSUME NEW S \in SUBSET Chunks, S # {}
  PROVE  LET c == CHOOSE c \in S : \A d \in S : c.last <= d.last
         IN  c \in S /\ \A d \in S : c.last <= d.last
<1> DEFINE R == OpToRel(<, Nat)
           L == {c.last : c \in S}
<1>1. L \subseteq Nat /\ L # {}
  <2>1. \A c \in S : c \in Chunks /\ c.last \in Nat
    BY Basics
  <2> QED BY <2>1
<1>2. PICK x \in L : \A y \in L : ~ (<<y, x>> \in R)
  <2> HIDE DEF R, L
  <2> QED BY <1>1, NatLessThanWellFounded, WFMin DEF R
<1>3. \A y \in L : x <= y
  <2>1. \A y \in L : y \in Nat /\ x \in Nat /\ ~ (y < x)
    BY <1>1, <1>2 DEF OpToRel
  <2> QED BY <2>1
<1>4. \E c \in S : \A d \in S : c.last <= d.last
  BY <1>3
<1> HIDE DEF R, L
<1> QED BY <1>4

\* The parts that a request changes, with the index as it is.
LEMMA TypeParts ==
  ASSUME TypeInv, UNCHANGED <<setting, final, stage>>,
         prod' \in [Addrs -> FileTypes], staged' \in [Addrs -> FileTypes],
         mem' \in [Updaters -> [Addrs -> Nat]],
         todo' \in [Updaters -> SUBSET Chunks], tasks' \in [Updaters -> SUBSET Chunks],
         results' \in [Updaters -> SUBSET [chunk : Chunks, err : BOOLEAN]],
         update' \in [Updaters -> UpdateTypes], unmoved' \in [Updaters -> SUBSET Addrs]
  PROVE  TypeInv'
<1>1. Chunks' = Chunks
  BY DEF Chunks
<1> QED BY <1>1 DEF TypeInv

\* ... and when the process ends
LEMMA TypeDie ==
  ASSUME TypeInv, Die, UNCHANGED <<index, files>>
  PROVE  TypeInv'
<1> USE DEF Die, index, files
<1>1. /\ prod \in [Addrs -> FileTypes] /\ staged \in [Addrs -> FileTypes]
      /\ mem' \in [Updaters -> [Addrs -> Nat]]
  BY DEF TypeInv
<1>2. /\ todo' \in [Updaters -> SUBSET Chunks] /\ tasks' \in [Updaters -> SUBSET Chunks]
      /\ results' \in [Updaters -> SUBSET [chunk : Chunks, err : BOOLEAN]]
      /\ update' \in [Updaters -> UpdateTypes] /\ unmoved' \in [Updaters -> SUBSET Addrs]
  BY NoFileNoUpdate
<1> QED BY <1>1, <1>2, TypeParts

\* Every step keeps the types.
LEMMA TypeStep == TypeInv /\ [Next]_vars => TypeInv'
<1> SUFFICES ASSUME TypeInv, [Next]_vars PROVE TypeInv'
  OBVIOUS
<1> USE FreshenAssumption DEF vars, index, files, mutexes, loop, visits, scan
<1>1. /\ setting \in Settings /\ final \in Blocks /\ stage \in Blocks /\ final <= stage
      /\ prod \in [Addrs -> FileTypes] /\ staged \in [Addrs -> FileTypes]
      /\ mem \in [Updaters -> [Addrs -> Nat]]
      /\ todo \in [Updaters -> SUBSET Chunks] /\ tasks \in [Updaters -> SUBSET Chunks]
      /\ results \in [Updaters -> SUBSET [chunk : Chunks, err : BOOLEAN]]
      /\ update \in [Updaters -> UpdateTypes]
      /\ unmoved \in [Updaters -> SUBSET Addrs]
  BY DEF TypeInv
<1>2. CASE GrowStage \/ Finalize
  <2>1. /\ stage' = stage + 1 /\ stage < setting.upto /\ setting.upto \in Blocks
        /\ final' = final \/ final' = stage + 1
        /\ UNCHANGED <<setting, files, mem, visits, update, unmoved>>
    BY <1>1, <1>2 DEF GrowStage, Finalize
  <2>2. stage' \in Blocks /\ final' \in Blocks /\ final' <= stage' /\ final' >= final
    BY <1>1, <2>1 DEF Blocks
  <2>3. Chunks \subseteq Chunks'
    BY <2>2, ChunksGrow DEF Blocks
  <2> QED BY <1>1, <2>1, <2>2, <2>3 DEF TypeInv
<1>3. CASE UNCHANGED vars
  BY <1>1, <1>3, TypeParts
<1>4. CASE Crash
  BY <1>4, TypeDie DEF Crash
<1>5. ASSUME NEW u \in Updaters, BeginRequest(u) \/ LockForAddress(u) \/ Cancel(u)
      PROVE  TypeInv'
  BY <1>1, <1>5, TypeParts
     DEF BeginRequest, LockForAddress, Lookup, LockFound, LockNew, LockedAll, Cancel
<1>6. ASSUME NEW u \in Updaters, Unlock(u) PROVE TypeInv'
  <2>1. CASE Die
    BY <1>6, <2>1, TypeDie DEF Unlock, UnlockMutexes
  <2>2. CASE ~Die
    <3>1. /\ mem' = [mem EXCEPT ![u] = [a \in Addrs |-> 0]] /\ unmoved' = [unmoved EXCEPT ![u] = {}]
          /\ UNCHANGED <<setting, final, stage, prod, staged, todo, tasks, results, update>>
      BY <1>6, <2>2 DEF Unlock, UnlockMutexes, Forget
    <3>2. mem' \in [Updaters -> [Addrs -> Nat]] /\ unmoved' \in [Updaters -> SUBSET Addrs]
      BY <1>1, <3>1
    <3> QED BY <1>1, <3>1, <3>2, TypeParts
  <2> QED BY <2>1, <2>2
<1>7. ASSUME NEW u \in Updaters, NewMonitorStaged(u) PROVE TypeInv'
  <2> DEFINE a == Addr(u)
  <2>1. a \in Addrs
    BY <1>7, Basics DEF NewMonitorStaged, Stage, Asked, Addr
  <2>2. prod[a] \in FileTypes /\ staged[a] \in FileTypes
    BY <1>1, <2>1
  <2>3. PICK tail \in SUBSET staged[a].apps :
          staged' = [staged EXCEPT ![a] =
            File(prod[a].last, prod[a].apps \cup tail, @.dup \/ prod[a].apps \cap tail # {})]
    BY <1>7 DEF NewMonitorStaged, Stage
  <2>4. File(prod[a].last, prod[a].apps \cup tail,
             staged[a].dup \/ prod[a].apps \cap tail # {}) \in FileTypes
    BY <2>2 DEF File, FileTypes
  <2>5. staged' \in [Addrs -> FileTypes]
    BY <1>1, <2>1, <2>3, <2>4
  <2>6. mem' \in [Updaters -> [Addrs -> Nat]]
    BY <1>1, <1>7, <2>1, <2>2 DEF NewMonitorStaged, Stage, FileTypes
  <2> QED BY <1>1, <1>7, <2>5, <2>6, TypeParts DEF NewMonitorStaged, Stage
<1>8. ASSUME NEW u \in Updaters, SkipFreshen(u) \/ ReadDir(u) \/ SkipRest(u) PROVE TypeInv'
  BY <1>1, <1>8, TypeParts DEF SkipFreshen, ReadDir, ReadBlooms, SkipRest
<1>9. ASSUME NEW u \in Updaters, StartTask(u) PROVE TypeInv'
  <2> DEFINE c == CHOOSE c \in todo[u] : \A d \in todo[u] : c.last <= d.last
  <2>1. /\ todo' = [todo EXCEPT ![u] = @ \ {c}] /\ tasks' = [tasks EXCEPT ![u] = @ \cup {c}]
        /\ todo[u] # {}
    BY <1>9 DEF StartTask
  <2>2. c \in Chunks
    BY <1>1, <2>1, FirstChunk
  <2> HIDE DEF c
  <2>3. todo' \in [Updaters -> SUBSET Chunks]
    BY <1>1, <2>1, <2>2
  <2>4. tasks' \in [Updaters -> SUBSET Chunks]
    BY <1>1, <2>1, <2>2
  <2>5. UNCHANGED <<setting, final, stage, prod, staged, mem, results, update, unmoved>>
    BY <1>9 DEF StartTask
  <2> QED BY <1>1, <2>3, <2>4, <2>5, TypeParts
<1>10. ASSUME NEW u \in Updaters, NEW c \in tasks[u], VisitChunk(u, c) PROVE TypeInv'
  <2>1. PICK err \in BOOLEAN : results' = [results EXCEPT ![u] = @ \cup {[chunk |-> c, err |-> err]}]
    BY <1>10 DEF VisitChunk
  <2>2. [chunk |-> c, err |-> err] \in [chunk : Chunks, err : BOOLEAN]
    BY <1>1
  <2>3. results' \in [Updaters -> SUBSET [chunk : Chunks, err : BOOLEAN]]
    BY <1>1, <2>1, <2>2
  <2> QED BY <1>1, <1>10, <2>3, TypeParts DEF VisitChunk
<1>11. ASSUME NEW u \in Updaters, TakeResult(u) PROVE TypeInv'
  <2>1. PICK r \in results[u] :
          /\ results' = [results EXCEPT ![u] = @ \ {r}]
          /\ update' = [update EXCEPT ![u] =
               IF r.err THEN NoUpdate
               ELSE [last |-> r.chunk.last + 1, apps |-> [a \in Addrs |-> In(a, r.chunk)],
                     left |-> MonitorMap(u), header |-> {}]]
    BY <1>11 DEF TakeResult
  <2>0. r \in [chunk : Chunks, err : BOOLEAN]
    BY <1>1
  <2>2. r.chunk \in Chunks /\ r.chunk.last \in Nat
    BY <2>0, Basics
  <2>3. [last |-> r.chunk.last + 1, apps |-> [a \in Addrs |-> In(a, r.chunk)],
         left |-> MonitorMap(u), header |-> {}] \in UpdateTypes
    BY <2>2, Basics DEF UpdateTypes
  <2>4. update' \in [Updaters -> UpdateTypes]
    BY <1>1, <2>1, <2>3, NoFileNoUpdate
  <2>5. results' \in [Updaters -> SUBSET [chunk : Chunks, err : BOOLEAN]]
    BY <1>1, <2>1
  <2> QED BY <1>1, <1>11, <2>4, <2>5, TypeParts DEF TakeResult
<1>12. ASSUME NEW u \in Updaters, NEW a \in Addrs, WriteMonHeader(u, a) PROVE TypeInv'
  <2>1. mem[u][a] \in Nat /\ update[u].last \in Nat /\ update[u] \in UpdateTypes
        /\ staged[a] \in FileTypes
    BY <1>1 DEF UpdateTypes
  <2>2. Max({mem[u][a], update[u].last}) \in Nat
    BY <2>1, MaxOfTwo
  <2>3. /\ mem' = [mem EXCEPT ![u][a] = Max({mem[u][a], update[u].last})]
        /\ staged' = [staged EXCEPT ![a] = File(Max({mem[u][a], update[u].last}), @.apps, @.dup)]
        /\ update' = [update EXCEPT ![u].left = @ \ {a}, ![u].header = {a}]
    BY <1>12 DEF WriteMonHeader, WriteHeader
  <2>4. File(Max({mem[u][a], update[u].last}), staged[a].apps, staged[a].dup) \in FileTypes
    BY <2>1, <2>2 DEF File, FileTypes
  <2>5. staged' \in [Addrs -> FileTypes] /\ mem' \in [Updaters -> [Addrs -> Nat]]
    BY <1>1, <2>2, <2>3, <2>4
  <2>6. [update[u] EXCEPT !.left = @ \ {a}, !.header = {a}] \in UpdateTypes
    BY <2>1 DEF UpdateTypes
  <2>7. update' \in [Updaters -> UpdateTypes]
    BY <1>1, <2>3, <2>6 DEF UpdateTypes
  <2> QED BY <1>1, <1>12, <2>5, <2>7, TypeParts DEF WriteMonHeader, WriteHeader
<1>13. ASSUME NEW u \in Updaters, NEW a \in Addrs, WriteAppearances(u, a) PROVE TypeInv'
  <2>1. update[u] \in UpdateTypes /\ update[u].apps[a] \subseteq Blocks /\ staged[a] \in FileTypes
    BY <1>1 DEF UpdateTypes
  <2>2. File(staged[a].last, staged[a].apps \cup update[u].apps[a],
             staged[a].dup \/ staged[a].apps \cap update[u].apps[a] # {}) \in FileTypes
    BY <2>1 DEF File, FileTypes
  <2>3. staged' \in [Addrs -> FileTypes]
    BY <1>1, <1>13, <2>2 DEF WriteAppearances
  <2>4. [update[u] EXCEPT !.header = {}] \in UpdateTypes
    BY <2>1 DEF UpdateTypes
  <2>5. update' \in [Updaters -> UpdateTypes]
    BY <1>1, <1>13, <2>4, NoFileNoUpdate DEF WriteAppearances
  <2> QED BY <1>1, <1>13, <2>3, <2>5, TypeParts DEF WriteAppearances
<1>14. ASSUME NEW u \in Updaters, ReadStage(u) PROVE TypeInv'
  <2> DEFINE hits == {a \in MonitorMap(u) : final + 1 <= mem[u][a] /\ InStage(u)[a] # {}}
             new == [last |-> stage + 1, apps |-> InStage(u), left |-> hits, header |-> {}]
  <2>1. InStage(u) \in [Addrs -> SUBSET Blocks]
    BY Basics DEF InStage
  <2>2. MonitorMap(u) \subseteq Addrs /\ stage + 1 \in Nat
    BY <1>1, Basics
  <2>3. new \in UpdateTypes
    BY <2>1, <2>2 DEF UpdateTypes
  <2>4. update' = [update EXCEPT ![u] = IF hits = {} THEN NoUpdate ELSE new]
    BY <1>14 DEF ReadStage, UpdateFromStage
  <2> HIDE DEF new, hits
  <2>5. update' \in [Updaters -> UpdateTypes]
    BY <1>1, <2>3, <2>4, NoFileNoUpdate
  <2> QED BY <1>1, <1>14, <2>2, <2>5, TypeParts DEF ReadStage, UpdateFromStage
<1>15. ASSUME NEW u \in Updaters, NEW a \in Addrs, MoveToProduction(u, a) PROVE TypeInv'
  <2>0. staged[a] \in FileTypes
    BY <1>1
  <2>1. [staged[a] EXCEPT !.dup = FALSE] \in FileTypes
    BY <2>0 DEF FileTypes
  <2>2. prod' \in [Addrs -> FileTypes] /\ staged' \in [Addrs -> FileTypes]
    BY <1>1, <1>15, <2>1, NoFileNoUpdate DEF MoveToProduction, Move
  <2>3. unmoved' \in [Updaters -> SUBSET Addrs]
    <3>1. unmoved' = unmoved \/ unmoved' = [unmoved EXCEPT ![u] = unmoved[u] \ {a}]
      BY <1>15, SMTT(30) DEF MoveToProduction, Move
    <3>2. unmoved \in [Updaters -> SUBSET Addrs]
      BY <1>1, Zenon
    <3>3. unmoved[u] \ {a} \in SUBSET Addrs
      BY <3>2
    <3>4. [unmoved EXCEPT ![u] = unmoved[u] \ {a}] \in [Updaters -> SUBSET Addrs]
      BY <3>2, <3>3, Zenon
    <3> QED BY <3>1, <3>2, <3>4, Zenon
  <2>4. UNCHANGED <<setting, final, stage, mem, todo, tasks, results, update>>
    BY <1>15 DEF MoveToProduction, Move
  <2> QED BY <1>1, <2>2, <2>3, <2>4, TypeParts
<1>16. ASSUME NEW u \in Updaters, MovedAll(u) PROVE TypeInv'
  BY <1>1, <1>16, TypeParts DEF MovedAll
<1> QED BY <1>2, <1>3, <1>4, <1>5, <1>6, <1>7, <1>8, <1>9, <1>10, <1>11, <1>12, <1>13, <1>14, <1>15,
           <1>16 DEF Next, FreshenMonitors, UpdateMonitors, VisitChunks

\* Every step keeps to the types, in every setting.
LEMMA Typed == Spec => []TypeInv
BY TypeInit, TypeStep, PTL DEF Spec

\* No appearance is in a monitor twice, whatever is killed and whoever works on
\* the same monitor: only MoveToProduction writes it, behind RemoveDups.
THEOREM NeverTwice == Spec => []NoDuplicates
<1>1. Init => NoDuplicates
  BY DEF Init, NoDuplicates, NoFile
<1>2. TypeInv /\ NoDuplicates /\ [Next]_vars => NoDuplicates'
  <2> SUFFICES ASSUME TypeInv, NoDuplicates, [Next]_vars PROVE NoDuplicates'
    OBVIOUS
  <2> USE DEF vars, index, files, mutexes, loop, visits, scan
  <2>1. ASSUME prod' = prod PROVE NoDuplicates'
    BY <2>1 DEF NoDuplicates
  <2>2. ASSUME NEW u \in Updaters, NEW a \in Addrs, MoveToProduction(u, a) PROVE NoDuplicates'
    <3>1. \/ prod' = prod
          \/ prod' = [prod EXCEPT ![a] = [staged[a] EXCEPT !.dup = FALSE]]
      BY <2>2 DEF MoveToProduction, Move
    <3>2. [staged[a] EXCEPT !.dup = FALSE].dup = FALSE
      <4>1. staged[a] \in FileTypes
        BY DEF TypeInv
      <4> QED BY <4>1 DEF FileTypes
    <3>3. prod \in [Addrs -> FileTypes]
      BY DEF TypeInv
    <3> HIDE DEF files
    <3> QED BY <3>1, <3>2, <3>3 DEF NoDuplicates
  <2>3. CASE GrowStage \/ Finalize \/ Crash \/ UNCHANGED vars
    BY <2>1, <2>3 DEF GrowStage, Finalize, Crash
  <2>4. ASSUME NEW u \in Updaters, BeginRequest(u) \/ LockForAddress(u) \/ Cancel(u) \/ Unlock(u)
        PROVE  NoDuplicates'
    BY <2>1, <2>4 DEF BeginRequest, LockForAddress, Lookup, LockFound, LockNew, LockedAll, Cancel,
       Unlock, UnlockMutexes
  <2>5. ASSUME NEW u \in Updaters,
               \/ NewMonitorStaged(u) \/ SkipFreshen(u) \/ ReadDir(u) \/ StartTask(u)
               \/ SkipRest(u) \/ TakeResult(u) \/ ReadStage(u) \/ MovedAll(u)
        PROVE  NoDuplicates'
    BY <2>1, <2>5 DEF NewMonitorStaged, Stage, SkipFreshen, ReadDir, ReadBlooms, StartTask,
       SkipRest, TakeResult, ReadStage, UpdateFromStage, MovedAll
  <2>6. ASSUME NEW u \in Updaters, UpdateMonitors(u) \/ VisitChunks(u) PROVE NoDuplicates'
    BY <2>1, <2>6 DEF UpdateMonitors, WriteMonHeader, WriteHeader, WriteAppearances, VisitChunks,
       VisitChunk
  <2> QED BY <2>2, <2>3, <2>4, <2>5, <2>6 DEF Next, FreshenMonitors
<1> QED BY <1>1, <1>2, Typed, PTL DEF Spec

-----------------------------------------------------------------------------
(* The mutexes exclude.                                                    *)

\* Where each request is, as far as its own steps go.
LEMMA PlaceStep ==
  ASSUME TypeInv, PlaceInv, [Next]_vars
  PROVE  PlaceInv' /\ setting' = setting
<1> USE DEF vars, index, mutexes, loop, scan, Labels
<1>0. /\ pc \in [Updaters -> Labels] /\ idx \in [Updaters -> Nat \ {0}] /\ DOMAIN mutex = Updaters
      /\ \A v \in Updaters : /\ pc[v] # "idle" => v \in setting.active
                             /\ pc[v] = "idle" => idx[v] = 1
                             /\ pc[v] = "lock" => idx[v] \in DOMAIN Request[v]
                             /\ idx[v] <= Len(Request[v]) + 1
                             /\ Len(Request[v]) \in Nat
                             /\ DOMAIN Request[v] = 1 .. Len(Request[v])
  BY Basics DEF PlaceInv, Asked
<1>1. ASSUME pc' = pc, idx' = idx, mutex' = mutex, setting' = setting
      PROVE  PlaceInv' /\ setting' = setting
  BY <1>0, <1>1 DEF PlaceInv, Asked
<1>2. ASSUME NEW u \in Updaters, NEW l \in Labels, pc' = [pc EXCEPT ![u] = l],
             NEW n \in Nat \ {0}, idx' = [idx EXCEPT ![u] = n],
             n <= Len(Request[u]) + 1, l = "lock" => n \in DOMAIN Request[u], l = "idle" => n = 1,
             l # "idle" => u \in setting.active,
             DOMAIN mutex' = Updaters, setting' = setting
      PROVE  PlaceInv' /\ setting' = setting
  BY <1>0, <1>2 DEF PlaceInv, Asked
<1>3. ASSUME Die, setting' = setting PROVE PlaceInv' /\ setting' = setting
  BY <1>0, <1>3 DEF Die, PlaceInv, Asked
<1>4. CASE GrowStage \/ Finalize \/ UNCHANGED vars
  BY <1>1, <1>4 DEF GrowStage, Finalize
<1>5. CASE Crash
  BY <1>3, <1>5 DEF Crash
<1>6. ASSUME NEW u \in Updaters, BeginRequest(u) PROVE PlaceInv' /\ setting' = setting
  <2>1. idx' = [idx EXCEPT ![u] = idx[u]]
    BY <1>0, <1>6 DEF BeginRequest
  <2> QED BY <1>0, <1>2, <1>6, <2>1 DEF BeginRequest, Goto
<1>7. ASSUME NEW u \in Updaters, Lookup(u) PROVE PlaceInv' /\ setting' = setting
  <2>1. idx' = [idx EXCEPT ![u] = idx[u]] /\ DOMAIN mutex' = Updaters
    BY <1>0, <1>7 DEF Lookup
  <2> QED BY <1>0, <1>2, <1>7, <2>1 DEF Lookup, Goto, Asked
<1>8. ASSUME NEW u \in Updaters, LockFound(u) \/ LockNew(u) PROVE PlaceInv' /\ setting' = setting
  <2>1. /\ pc[u] = "lock" /\ pc' = [pc EXCEPT ![u] = "lookup"]
        /\ idx' = [idx EXCEPT ![u] = idx[u] + 1] /\ mutex' = mutex /\ setting' = setting
    BY <1>8 DEF LockFound, LockNew, Goto
  <2>2. idx[u] + 1 \in Nat \ {0} /\ idx[u] + 1 <= Len(Request[u]) + 1 /\ u \in setting.active
    BY <1>0, <2>1
  <2> QED BY <1>0, <1>2, <2>1, <2>2
<1>9. ASSUME NEW u \in Updaters, LockedAll(u) PROVE PlaceInv' /\ setting' = setting
  <2>1. 1 \in Nat \ {0} /\ 1 <= Len(Request[u]) + 1 /\ u \in setting.active
    BY <1>0, <1>9 DEF LockedAll
  <2>2. /\ pc' = [pc EXCEPT ![u] = "copy"] /\ idx' = [idx EXCEPT ![u] = 1]
        /\ DOMAIN mutex' = Updaters /\ setting' = setting
    BY <1>0, <1>9 DEF LockedAll, Goto
  <2>3. "copy" \in Labels /\ "copy" # "lock" /\ "copy" # "idle"
    OBVIOUS
  <2> QED BY <1>2, <2>1, <2>2, <2>3
<1>10. ASSUME NEW u \in Updaters, NewMonitorStaged(u) PROVE PlaceInv' /\ setting' = setting
  <2>1. /\ pc[u] = "copy" /\ pc' = pc /\ idx[u] \in DOMAIN Request[u]
        /\ idx' = [idx EXCEPT ![u] = idx[u] + 1] /\ mutex' = mutex /\ setting' = setting
    BY <1>10 DEF NewMonitorStaged, Stage, Asked
  <2>2. idx[u] + 1 \in Nat \ {0} /\ idx[u] + 1 <= Len(Request[u]) + 1 /\ u \in setting.active
    BY <1>0, <2>1
  <2>3. pc' = [pc EXCEPT ![u] = "copy"]
    BY <1>0, <2>1
  <2> QED BY <1>0, <1>2, <2>1, <2>2, <2>3
<1>11. ASSUME NEW u \in Updaters, Unlock(u) PROVE PlaceInv' /\ setting' = setting
  <2>1. CASE Die
    BY <1>3, <1>11, <2>1 DEF Unlock, UnlockMutexes
  <2>2. CASE ~Die
    <3>1. /\ pc' = [pc EXCEPT ![u] = "idle"] /\ idx' = [idx EXCEPT ![u] = 1]
          /\ DOMAIN mutex' = Updaters /\ setting' = setting
      BY <1>0, <1>11, <2>2 DEF Unlock, UnlockMutexes, Goto, Forget
    <3>2. 1 \in Nat \ {0} /\ 1 <= Len(Request[u]) + 1
      BY <1>0
    <3>3. "idle" \in Labels /\ "idle" # "lock"
      OBVIOUS
    <3> QED BY <1>2, <3>1, <3>2, <3>3
  <2> QED BY <2>1, <2>2
<1>12. ASSUME NEW u \in Updaters,
              \/ SkipFreshen(u) \/ ReadDir(u) \/ ReadStage(u) \/ MovedAll(u)
              \/ \E a \in Addrs : MoveToProduction(u, a)
       PROVE  PlaceInv' /\ setting' = setting
  <2>1. /\ pc[u] \in {"copy", "visit", "move"}
        /\ \E l \in {"visit", "move", "unlock"} : pc' = pc \/ pc' = [pc EXCEPT ![u] = l]
        /\ idx' = idx /\ mutex' = mutex /\ setting' = setting
    BY <1>12 DEF SkipFreshen, ReadDir, ReadBlooms, ReadStage, UpdateFromStage, MovedAll,
       MoveToProduction, Move, Goto
  <2>2. idx' = [idx EXCEPT ![u] = idx[u]] /\ u \in setting.active
    BY <1>0, <2>1
  <2> QED BY <1>0, <1>1, <1>2, <2>1, <2>2
<1>13. ASSUME NEW u \in Updaters,
              \/ Cancel(u) \/ StartTask(u) \/ SkipRest(u) \/ TakeResult(u) \/ UpdateMonitors(u)
              \/ VisitChunks(u)
       PROVE  PlaceInv' /\ setting' = setting
  BY <1>1, <1>13 DEF Cancel, StartTask, SkipRest, TakeResult, UpdateMonitors, WriteMonHeader,
     WriteHeader, WriteAppearances, VisitChunks, VisitChunk
<1> QED BY <1>4, <1>5, <1>6, <1>7, <1>8, <1>9, <1>10, <1>11, <1>12, <1>13
        DEF Next, LockForAddress, FreshenMonitors

\* The mutexes that a request has, after a step that leaves it where it is.
LEMMA OwnedSame ==
  ASSUME NEW v \in Updaters, pc'[v] = pc[v], idx'[v] = idx[v]
  PROVE  Owned(v)' = Owned(v)
BY DEF Owned

\* When every mutex is in the map from the start, a request only locks one that
\* nobody has, and only unlocks its own.
LEMMA LockStep ==
  ASSUME TypeInv, PlaceInv, KnownInv, Addrs \subseteq setting.known, "crash" \notin setting.events,
         [Next]_vars
  PROVE  KnownInv'
<1> USE DEF vars, index, mutexes, loop, scan
<1>0. /\ pc \in [Updaters -> Labels] /\ idx \in [Updaters -> Nat \ {0}] /\ DOMAIN mutex = Updaters
      /\ \A a \in Addrs : mutexesPerAddress[a] = <<a>>
      /\ \A v \in Updaters : /\ pc[v] = "lock" => mutex[v] = <<Addr(v)>>
                             /\ Owned(v) \subseteq locked
                             /\ idx[v] <= Len(Request[v]) + 1
                             /\ Len(Request[v]) \in Nat
                             /\ DOMAIN Request[v] = 1 .. Len(Request[v])
                             /\ MonitorMap(v) \subseteq Addrs
                             /\ \A i \in DOMAIN Request[v] : Request[v][i] \in MonitorMap(v)
      /\ \A v, w \in Updaters : v # w => Owned(v) \cap Owned(w) = {}
  BY Basics DEF PlaceInv, KnownInv
\* a step of u that leaves its mutexes, or takes one more
<1>1. ASSUME NEW u \in Updaters, NEW more, more \cap locked = {}, Owned(u)' \subseteq Owned(u) \cup more,
             locked' = locked \cup more, mutexesPerAddress' = mutexesPerAddress,
             \A v \in Updaters \ {u} : pc'[v] = pc[v] /\ idx'[v] = idx[v] /\ mutex'[v] = mutex[v],
             pc'[u] = "lock" => mutex'[u] = <<Addr(u)>>'
      PROVE  KnownInv'
  <2>1. \A v \in Updaters \ {u} : Owned(v)' = Owned(v) /\ Addr(v)' = Addr(v)
    BY <1>1, OwnedSame DEF Addr
  <2>2. \A v \in Updaters : Owned(v)' \subseteq locked'
    BY <1>0, <1>1, <2>1
  <2>3. \A v, w \in Updaters : v # w => Owned(v)' \cap Owned(w)' = {}
    <3> HIDE DEF vars, index, mutexes, loop, scan
    <3> SUFFICES ASSUME NEW v \in Updaters, NEW w \in Updaters, v # w
                 PROVE  Owned(v)' \cap Owned(w)' = {}
      OBVIOUS
    <3>1. CASE v = u
      BY <1>0, <1>1, <2>1, <3>1
    <3>2. CASE w = u
      BY <1>0, <1>1, <2>1, <3>2
    <3>3. CASE v # u /\ w # u
      BY <1>0, <2>1, <3>3
    <3> QED BY <3>1, <3>2, <3>3
  <2>4. \A v \in Updaters : pc'[v] = "lock" => mutex'[v] = <<Addr(v)>>'
    BY <1>0, <1>1, <2>1
  <2> QED BY <1>0, <1>1, <2>2, <2>3, <2>4 DEF KnownInv
<1>2. ASSUME pc' = pc, idx' = idx, mutex' = mutex, mutexesPerAddress' = mutexesPerAddress,
             locked' = locked
      PROVE  KnownInv'
  BY <1>0, <1>2, OwnedSame DEF KnownInv, Addr
\* ... in particular one that takes none
<1>12. ASSUME NEW u \in Updaters, Owned(u)' \subseteq Owned(u),
              locked' = locked, mutexesPerAddress' = mutexesPerAddress,
              \A v \in Updaters \ {u} : pc'[v] = pc[v] /\ idx'[v] = idx[v] /\ mutex'[v] = mutex[v],
              pc'[u] = "lock" => mutex'[u] = <<Addr(u)>>'
       PROVE  KnownInv'
  <2> DEFINE more == {}
  <2>1. more \cap locked = {} /\ Owned(u)' \subseteq Owned(u) \cup more /\ locked' = locked \cup more
    BY <1>12
  <2> HIDE DEF more
  <2> QED BY <1>1, <1>12, <2>1
<1>3. CASE GrowStage \/ Finalize \/ UNCHANGED vars
  BY <1>2, <1>3 DEF GrowStage, Finalize
<1>4. ASSUME NEW u \in Updaters, BeginRequest(u) PROVE KnownInv'
  <2>1. /\ pc' = [pc EXCEPT ![u] = "lookup"] /\ UNCHANGED <<mutexesPerAddress, locked, idx, mutex>>
        /\ pc[u] = "idle"
    BY <1>4 DEF BeginRequest, Goto
  <2>2. pc'[u] = "lookup" /\ idx[u] = 1 /\ \A v \in Updaters \ {u} : pc'[v] = pc[v]
    BY <1>0, <2>1 DEF PlaceInv
  <2>3. Owned(u)' = {}
    BY <2>1, <2>2 DEF Owned
  <2> QED BY <1>12, <2>1, <2>2, <2>3
<1>5. ASSUME NEW u \in Updaters, Lookup(u) PROVE KnownInv'
  <2>1. /\ pc' = [pc EXCEPT ![u] = "lock"] /\ UNCHANGED <<mutexesPerAddress, locked, idx>>
        /\ mutex' = [mutex EXCEPT ![u] = mutexesPerAddress[Addr(u)]]
        /\ pc[u] = "lookup" /\ Addr(u) \in Addrs
    BY <1>0, <1>5 DEF Lookup, Goto, Asked, Addr
  <2>2. pc'[u] = "lock" /\ mutex'[u] = <<Addr(u)>> /\ Addr(u)' = Addr(u)
    BY <1>0, <2>1 DEF Addr
  <2>3. \A v \in Updaters \ {u} : pc'[v] = pc[v] /\ idx'[v] = idx[v] /\ mutex'[v] = mutex[v]
    BY <1>0, <2>1
  <2>4. Owned(u)' = Owned(u)
    BY <2>1, <2>2 DEF Owned
  <2> QED BY <1>12, <2>1, <2>2, <2>3, <2>4
<1>6. ASSUME NEW u \in Updaters, LockFound(u) \/ LockNew(u) PROVE KnownInv'
  <2>1. pc[u] = "lock" /\ mutex[u] = <<Addr(u)>> /\ ~LockNew(u) /\ LockFound(u)
    <3>1. pc[u] = "lock" /\ mutex[u] = <<Addr(u)>>
      BY <1>0, <1>6 DEF LockFound, LockNew
    <3>2. <<Addr(u)>> # <<>>
      OBVIOUS
    <3>3. ~LockNew(u)
      BY <3>1, <3>2 DEF LockNew, NoMutex
    <3> QED BY <1>6, <3>1, <3>3
  <2>2. /\ mutex[u] \notin locked /\ locked' = locked \cup {mutex[u]}
        /\ idx' = [idx EXCEPT ![u] = idx[u] + 1] /\ pc' = [pc EXCEPT ![u] = "lookup"]
        /\ UNCHANGED <<mutexesPerAddress, mutex>>
    BY <2>1 DEF LockFound, Goto
  <2>3. /\ pc'[u] = "lookup" /\ idx'[u] = idx[u] + 1
        /\ \A v \in Updaters \ {u} : pc'[v] = pc[v] /\ idx'[v] = idx[v] /\ mutex'[v] = mutex[v]
    BY <1>0, <2>2
  <2>4. Owned(u)' \subseteq Owned(u) \cup {mutex[u]}
    <3>1. Owned(u)' = {<<Request[u][i]>> : i \in 1 .. idx[u]}
      BY <1>0, <2>3 DEF Owned
    <3>2. Owned(u) = {<<Request[u][i]>> : i \in 1 .. idx[u] - 1}
      BY <2>1 DEF Owned
    <3>3. \A i \in 1 .. idx[u] : i \in 1 .. idx[u] - 1 \/ i = idx[u]
      BY <1>0
    <3> QED BY <2>1, <3>1, <3>2, <3>3 DEF Addr
  <2> DEFINE more == {mutex[u]}
  <2>5. /\ more \cap locked = {} /\ Owned(u)' \subseteq Owned(u) \cup more
        /\ locked' = locked \cup more
    BY <2>2, <2>4
  <2> HIDE DEF more
  <2> QED BY <1>1, <2>2, <2>3, <2>5
<1>7. ASSUME NEW u \in Updaters, LockedAll(u) PROVE KnownInv'
  <2>1. /\ pc[u] = "lookup" /\ idx[u] \notin DOMAIN Request[u] /\ pc' = [pc EXCEPT ![u] = "copy"]
        /\ idx' = [idx EXCEPT ![u] = 1] /\ UNCHANGED <<mutexesPerAddress, locked, mutex>>
    BY <1>7 DEF LockedAll, Goto, Asked
  <2>2. /\ pc'[u] = "copy"
        /\ \A v \in Updaters \ {u} : pc'[v] = pc[v] /\ idx'[v] = idx[v] /\ mutex'[v] = mutex[v]
    BY <1>0, <2>1
  <2>3. Owned(u)' \subseteq Owned(u)
    <3>1. idx[u] - 1 = Len(Request[u])
      BY <1>0, <2>1
    <3>2. Owned(u) = {<<Request[u][i]>> : i \in DOMAIN Request[u]}
      BY <1>0, <2>1, <3>1 DEF Owned
    <3>3. Owned(u)' = {<<a>> : a \in MonitorMap(u)}
      BY <2>2 DEF Owned
    <3> QED BY <3>2, <3>3 DEF MonitorMap
  <2> QED BY <1>12, <2>1, <2>2, <2>3
<1>8. ASSUME NEW u \in Updaters, NewMonitorStaged(u) PROVE KnownInv'
  <2>1. /\ pc[u] = "copy" /\ pc' = pc /\ idx' = [idx EXCEPT ![u] = idx[u] + 1]
        /\ UNCHANGED <<mutexesPerAddress, locked, mutex>>
    BY <1>8 DEF NewMonitorStaged, Stage
  <2>2. Owned(u)' = Owned(u)
    BY <2>1 DEF Owned
  <2>3. \A v \in Updaters \ {u} : pc'[v] = pc[v] /\ idx'[v] = idx[v] /\ mutex'[v] = mutex[v]
    BY <1>0, <2>1
  <2> QED BY <1>12, <2>1, <2>2, <2>3
<1>9. ASSUME NEW u \in Updaters,
             \/ SkipFreshen(u) \/ ReadDir(u) \/ ReadStage(u) \/ MovedAll(u)
             \/ \E a \in Addrs : MoveToProduction(u, a)
      PROVE  KnownInv'
  <2>1. /\ pc[u] \in {"copy", "visit", "move"}
        /\ \E l \in {"visit", "move", "unlock"} : pc' = pc \/ pc' = [pc EXCEPT ![u] = l]
        /\ UNCHANGED <<idx, mutex, mutexesPerAddress, locked>>
    BY <1>9 DEF SkipFreshen, ReadDir, ReadBlooms, ReadStage, UpdateFromStage, MovedAll,
       MoveToProduction, Move, Goto
  <2>2. pc'[u] \in {"copy", "visit", "move", "unlock"} /\ \A v \in Updaters \ {u} : pc'[v] = pc[v]
    BY <1>0, <2>1
  <2>3. Owned(u)' = Owned(u)
    BY <2>1, <2>2 DEF Owned
  <2> QED BY <1>12, <2>1, <2>2, <2>3
<1>10. ASSUME NEW u \in Updaters, Unlock(u) PROVE KnownInv'
  <2> DEFINE mine == {mutexesPerAddress[a] : a \in MonitorMap(u)}
  <2>1. pc[u] = "unlock" /\ mine = Owned(u)
    <3>1. pc[u] = "unlock"
      BY <1>10 DEF Unlock, UnlockMutexes
    <3>2. Owned(u) = {<<a>> : a \in MonitorMap(u)}
      BY <3>1 DEF Owned
    <3>3. \A a \in MonitorMap(u) : mutexesPerAddress[a] = <<a>>
      BY <1>0
    <3>4. \A m : (\E a \in MonitorMap(u) : m = mutexesPerAddress[a]) <=>
                (\E a \in MonitorMap(u) : m = <<a>>)
      BY <3>3
    <3> QED BY <3>1, <3>2, <3>4
  <2>2. mine \subseteq locked
    BY <1>0, <2>1
  <2>3. /\ locked' = locked \ mine /\ pc' = [pc EXCEPT ![u] = "idle"]
        /\ idx' = [idx EXCEPT ![u] = 1] /\ mutex' = [mutex EXCEPT ![u] = NoMutex]
        /\ mutexesPerAddress' = mutexesPerAddress
    BY <1>10, <2>2 DEF Unlock, UnlockMutexes, Goto, Forget
  <2>4. /\ pc'[u] = "idle"
        /\ \A v \in Updaters \ {u} : pc'[v] = pc[v] /\ idx'[v] = idx[v] /\ mutex'[v] = mutex[v]
    BY <1>0, <2>3
  <2>5. Owned(u)' = {} /\ \A v \in Updaters \ {u} : Owned(v)' = Owned(v) /\ Addr(v)' = Addr(v)
    BY <2>4, OwnedSame DEF Owned, Addr
  <2> HIDE DEF mine
  <2>6. \A v \in Updaters : Owned(v)' \subseteq locked'
    BY <1>0, <2>1, <2>3, <2>5
  <2>7. \A v, w \in Updaters : v # w => Owned(v)' \cap Owned(w)' = {}
    BY <1>0, <2>5
  <2>8. \A v \in Updaters : pc'[v] = "lock" => mutex'[v] = <<Addr(v)>>'
    BY <1>0, <2>4, <2>5
  <2> QED BY <1>0, <2>3, <2>6, <2>7, <2>8 DEF KnownInv
<1>11. ASSUME NEW u \in Updaters,
              \/ Cancel(u) \/ StartTask(u) \/ SkipRest(u) \/ TakeResult(u) \/ UpdateMonitors(u)
              \/ VisitChunks(u)
       PROVE  KnownInv'
  BY <1>2, <1>11 DEF Cancel, StartTask, SkipRest, TakeResult, UpdateMonitors, WriteMonHeader,
     WriteHeader, WriteAppearances, VisitChunks, VisitChunk
<1> QED BY <1>3, <1>4, <1>5, <1>6, <1>7, <1>8, <1>9, <1>10, <1>11
        DEF Next, LockForAddress, FreshenMonitors, Crash

\* Where the mutexes exclude, they keep excluding.
LEMMA Locked == ASSUME Excluding PROVE Spec => [](TypeInv /\ LockInv)
<1>1. Init => LockInv
  <2> SUFFICES ASSUME Init PROVE LockInv
    OBVIOUS
  <2> USE DEF Init
  <2>1. PlaceInv
    <3>1. \A u \in Updaters : 1 <= Len(Request[u]) + 1
      BY Basics
    <3> QED BY <3>1 DEF PlaceInv, Labels
  <2>2. CASE Addrs \subseteq setting.known
    <3>1. \A a \in Addrs : mutexesPerAddress[a] = <<a>>
      BY <2>2
    <3>2. \A u \in Updaters : pc[u] = "idle" /\ Owned(u) = {}
      BY DEF Owned
    <3> QED BY <2>1, <3>1, <3>2 DEF LockInv, KnownInv
  <2> QED BY <2>1, <2>2 DEF Excluding, LockInv, Single
<1>2. TypeInv /\ LockInv /\ [Next]_vars => LockInv'
  <2> SUFFICES ASSUME TypeInv, LockInv, [Next]_vars PROVE LockInv'
    OBVIOUS
  <2>1. PlaceInv' /\ setting' = setting
    BY PlaceStep DEF LockInv
  <2>2. Single => Single'
    BY <2>1 DEF Single
  <2>3. KnownInv /\ ~Single => KnownInv'
    BY LockStep DEF LockInv, Excluding, TypeInv, Single
  <2> QED BY <2>1, <2>2, <2>3 DEF LockInv
<1> QED BY <1>1, <1>2, TypeInit, TypeStep, PTL DEF Spec

\* Only one request is at work on an address.
LEMMA OneAtWork ==
  ASSUME LockInv, NEW u \in Updaters, NEW v \in Updaters, u # v,
         pc[u] \in {"copy", "visit", "move"}, pc[v] \in {"copy", "visit", "move"}
  PROVE  MonitorMap(u) \cap MonitorMap(v) = {}
<1>1. CASE Single
  BY <1>1 DEF LockInv, PlaceInv, Single
<1>2. CASE KnownInv
  <2>1. Owned(u) = {<<a>> : a \in MonitorMap(u)} /\ Owned(v) = {<<a>> : a \in MonitorMap(v)}
    BY DEF Owned
  <2>2. ASSUME NEW a \in MonitorMap(u), a \in MonitorMap(v) PROVE FALSE
    <3>1. <<a>> \in Owned(u) /\ <<a>> \in Owned(v)
      BY <2>1, <2>2
    <3> QED BY <1>2, <3>1 DEF KnownInv
  <2> QED BY <2>2
<1> QED BY <1>1, <1>2 DEF LockInv

\* Two requests never work on the files of one address, as long as requests come
\* one at a time or every mutex is in the map before they come.
THEOREM Exclusion == ASSUME Excluding PROVE Spec => []MutualExclusion
<1>1. TypeInv /\ LockInv => MutualExclusion
  BY OneAtWork DEF MutualExclusion, Holding
<1> QED BY <1>1, Locked, PTL

-----------------------------------------------------------------------------
(* What goes to production is complete.                                    *)

\* a step leaves what the request v works on
Still(v) ==
    /\ pc'[v] = pc[v] /\ idx'[v] = idx[v] /\ mem'[v] = mem[v]
    /\ todo'[v] = todo[v] /\ tasks'[v] = tasks[v] /\ results'[v] = results[v]
    /\ update'[v] = update[v] /\ unmoved'[v] = unmoved[v]

Working(u) == pc[u] \in {"copy", "visit", "move"}

\* what a step of u may touch: its own variables, and the staged files it works on
OnlyOf(u) ==
    /\ UNCHANGED <<setting, final, stage>>
    /\ \A v \in Updaters \ {u} : Still(v)
    /\ \A a \in Addrs : staged'[a] # staged[a] => a \in MonitorMap(u) /\ Working(u)

\* A step of a request leaves the others complete.
LEMMA OthersStay ==
  ASSUME LockInv, WorkInv, NEW u \in Updaters, OnlyOf(u), ProdInv', WorkOf(u)', ReadOf(u)'
  PROVE  WorkInv'
<1>1. SUFFICES ASSUME NEW v \in Updaters, v # u PROVE WorkOf(v)' /\ ReadOf(v)'
  BY DEF WorkInv
<1>2. Still(v) /\ UNCHANGED <<setting, final, stage>> /\ WorkOf(v) /\ ReadOf(v)
  BY <1>1 DEF OnlyOf, WorkInv
<1>3. \A a \in Addrs : StagedBy(v, a)' <=> StagedBy(v, a)
  BY <1>2 DEF StagedBy, Still
<1>4. \A a \in Addrs : StagedBy(v, a) => staged'[a] = staged[a]
  <2>1. \A a \in Addrs : StagedBy(v, a) => a \in MonitorMap(v) /\ Working(v)
    BY DEF StagedBy, Working
  <2> QED BY <1>1, <2>1, OneAtWork DEF OnlyOf, Working
<1>5. Chunks' = Chunks
  BY <1>2 DEF Chunks
<1>6. \A a \in Addrs, c \in Chunks : StagedBy(v, a) => (Covered(v, a, c)' <=> Covered(v, a, c))
  BY <1>2, <1>4 DEF Covered, Read, Still
<1>7. WorkOf(v)'
  BY <1>2, <1>3, <1>4 DEF WorkOf, Still
<1>8. ReadOf(v)'
  BY <1>2, <1>3, <1>5, <1>6 DEF ReadOf, Still
<1> QED BY <1>7, <1>8

\* Which step of a request touches what.
LEMMA OnlyOfThem ==
  ASSUME TypeInv, PlaceInv, NEW u \in Updaters, WorkOf(u)
  PROVE  /\ BeginRequest(u) \/ LockForAddress(u) \/ Cancel(u) => OnlyOf(u)
         /\ FreshenMonitors(u) /\ ~(Unlock(u) /\ Die) => OnlyOf(u)
         /\ VisitChunks(u) => OnlyOf(u)
<1> USE DEF index, files, mutexes, loop, visits, scan, Goto
<1>0. /\ DOMAIN pc = Updaters /\ DOMAIN idx = Updaters /\ DOMAIN mem = Updaters
      /\ DOMAIN todo = Updaters /\ DOMAIN tasks = Updaters /\ DOMAIN results = Updaters
      /\ DOMAIN update = Updaters /\ DOMAIN unmoved = Updaters /\ DOMAIN staged = Addrs
  BY DEF PlaceInv, TypeInv
<1>1. ASSUME BeginRequest(u) \/ LockForAddress(u) \/ Cancel(u) PROVE OnlyOf(u)
  BY <1>0, <1>1 DEF BeginRequest, LockForAddress, Lookup, LockFound, LockNew, LockedAll, Cancel,
     OnlyOf, Still
<1>2. ASSUME NewMonitorStaged(u) PROVE OnlyOf(u)
  <2>1. /\ pc[u] = "copy" /\ Addr(u) \in MonitorMap(u) /\ Addr(u) \in Addrs
    BY <1>2, Basics DEF NewMonitorStaged, Stage, Asked, Addr
  <2>2. \A a \in Addrs : staged'[a] # staged[a] => a = Addr(u)
    BY <1>0, <1>2 DEF NewMonitorStaged, Stage
  <2>3. \A v \in Updaters \ {u} : Still(v)
    BY <1>0, <1>2 DEF NewMonitorStaged, Stage, Still
  <2> QED BY <1>2, <2>1, <2>2, <2>3 DEF NewMonitorStaged, Stage, OnlyOf, Working
<1>3. ASSUME SkipFreshen(u) \/ ReadDir(u) \/ StartTask(u) \/ SkipRest(u) \/ TakeResult(u)
      PROVE  OnlyOf(u)
  BY <1>0, <1>3 DEF SkipFreshen, ReadDir, ReadBlooms, StartTask, SkipRest, TakeResult, OnlyOf, Still
<1>4. ASSUME ReadStage(u) \/ MovedAll(u) PROVE OnlyOf(u)
  BY <1>0, <1>4 DEF ReadStage, UpdateFromStage, MovedAll, OnlyOf, Still
<1>5. ASSUME NEW a \in Addrs, WriteMonHeader(u, a) PROVE OnlyOf(u)
  <2>1. a \in update[u].left
    BY <1>5 DEF WriteMonHeader, WriteHeader
  <2>2. a \in MonitorMap(u) /\ Working(u)
    BY <2>1 DEF WorkOf, Working, NoUpdate
  <2>3. \A b \in Addrs : staged'[b] # staged[b] => b = a
    BY <1>0, <1>5 DEF WriteMonHeader, WriteHeader
  <2>4. \A v \in Updaters \ {u} : Still(v)
    BY <1>0, <1>5 DEF WriteMonHeader, WriteHeader, Still
  <2> QED BY <1>5, <2>2, <2>3, <2>4 DEF WriteMonHeader, WriteHeader, OnlyOf
<1>6. ASSUME NEW a \in Addrs, WriteAppearances(u, a) PROVE OnlyOf(u)
  <2>1. a \in update[u].header
    BY <1>6 DEF WriteAppearances
  <2>2. a \in MonitorMap(u) /\ Working(u)
    BY <2>1 DEF WorkOf, Working, NoUpdate
  <2>3. \A b \in Addrs : staged'[b] # staged[b] => b = a
    BY <1>0, <1>6 DEF WriteAppearances
  <2>4. \A v \in Updaters \ {u} : Still(v)
    BY <1>0, <1>6 DEF WriteAppearances, Still
  <2> QED BY <1>6, <2>2, <2>3, <2>4 DEF WriteAppearances, OnlyOf
<1>7. ASSUME NEW a \in Addrs, MoveToProduction(u, a) PROVE OnlyOf(u)
  <2>1. a \in MonitorMap(u) /\ Working(u)
    BY <1>7 DEF MoveToProduction, Move, WorkOf, Working
  <2>2. \A b \in Addrs : staged'[b] # staged[b] => b = a
    BY <1>0, <1>7 DEF MoveToProduction, Move
  <2>3. \A v \in Updaters \ {u} : Still(v)
    BY <1>0, <1>7 DEF MoveToProduction, Move, Still
  <2> QED BY <1>7, <2>1, <2>2, <2>3 DEF MoveToProduction, Move, OnlyOf
<1>8. ASSUME Unlock(u), ~Die PROVE OnlyOf(u)
  BY <1>0, <1>8 DEF Unlock, UnlockMutexes, Forget, OnlyOf, Still
<1>9. ASSUME VisitChunks(u) PROVE OnlyOf(u)
  BY <1>0, <1>9 DEF VisitChunks, VisitChunk, OnlyOf, Still
<1>10. FreshenMonitors(u) /\ ~(Unlock(u) /\ Die) => OnlyOf(u)
  <2> HIDE DEF index, files, mutexes, loop, visits, scan, Goto
  <2> QED BY <1>2, <1>3, <1>4, <1>5, <1>6, <1>7, <1>8 DEF FreshenMonitors, UpdateMonitors
<1> QED BY <1>1, <1>9, <1>10

\* A successor is not negative.
LEMMA NatSucc == \A n \in Nat : 0 <= n + 1
OBVIOUS

\* Outside of its work on the files a request has nothing on its way.
LEMMA NotAtWork ==
  ASSUME NEW u \in Updaters, stage' \in Nat, pc'[u] \notin {"visit", "move"},
         \A a \in Addrs : ~StagedBy(u, a)',
         todo'[u] = {}, tasks'[u] = {}, results'[u] = {}, update'[u] = NoUpdate,
         unmoved'[u] \subseteq MonitorMap(u), mem'[u] \in [Addrs -> 0 .. stage' + 1]
  PROVE  WorkOf(u)' /\ ReadOf(u)'
<1>1. update'[u].left = {} /\ update'[u].header = {} /\ update'[u].last <= stage' + 1
  <2>1. NoUpdate.left = {} /\ NoUpdate.header = {} /\ NoUpdate.last = 0
    BY DEF NoUpdate
  <2>2. 0 <= stage' + 1
    BY NatSucc, Zenon
  <2> QED BY <2>1, <2>2
<1>2. \A a \in Addrs : mem'[u][a] <= stage' + 1
  OBVIOUS
<1>3. WorkOf(u)'
  BY <1>1, <1>2 DEF WorkOf
<1>4. ReadOf(u)'
  BY DEF ReadOf
<1> QED BY <1>3, <1>4

\* The process ends.
LEMMA DieWork ==
  ASSUME TypeInv, WorkInv, Die, UNCHANGED <<index, files>>
  PROVE  WorkInv'
<1> USE DEF Die, index, files
<1>1. ProdInv'
  <2>1. Chunks' = Chunks
    BY DEF Chunks
  <2> QED BY <2>1 DEF WorkInv, ProdInv
<1>2. ASSUME NEW u \in Updaters PROVE WorkOf(u)' /\ ReadOf(u)'
  <2>1. pc'[u] = "idle" /\ todo'[u] = {} /\ tasks'[u] = {} /\ results'[u] = {}
        /\ update'[u] = NoUpdate /\ unmoved'[u] = {} /\ stage' \in Nat
    BY Basics DEF TypeInv
  <2>2. mem'[u] \in [Addrs -> 0 .. stage' + 1]
    BY <2>1
  <2>3. \A a \in Addrs : ~StagedBy(u, a)'
    BY <2>1 DEF StagedBy
  <2> HIDE DEF Die, index, files
  <2> QED BY <2>1, <2>2, <2>3, NotAtWork
<1> QED BY <1>1, <1>2 DEF WorkInv

\* The index grows behind whatever a monitor has scanned.
LEMMA IndexStep ==
  ASSUME TypeInv, TypeInv', IndexInv, WorkInv, GrowStage \/ Finalize
  PROVE  IndexInv' /\ WorkInv'
<1> USE DEF index, files, mutexes, loop, visits, scan
<1>0. /\ stage' = stage + 1 /\ stage \in Nat /\ final \in Nat /\ final <= stage
      /\ \/ final' = final /\ stage + 1 \notin Ends
         \/ final' = stage + 1
      /\ UNCHANGED <<prod, staged, pc, idx, mem, todo, tasks, results, update, unmoved>>
  BY Basics DEF GrowStage, Finalize, TypeInv
<1>1. IndexInv'
  <2>1. \A e \in Ends : e \in Nat
    BY FreshenAssumption DEF Blocks
  <2> QED BY <1>0, <2>1 DEF IndexInv
<1>2. \A c \in Chunks' : c.last \in Nat /\ (c \in Chunks \/ c.last > stage)
  <2>1. ASSUME NEW e \in Ends, e <= final' PROVE e \in Nat /\ (e <= final \/ e > stage)
    BY <2>1, FreshenAssumption DEF IndexInv, Blocks
  <2> QED BY <2>1 DEF Chunks
<1>3. \A c \in Chunks : c \in Chunks' /\ c.last <= stage
  <2>1. Chunks \subseteq Chunks'
    BY <1>0, ChunksGrow
  <2>2. \A c \in Chunks : c.last \in Nat /\ c.last <= final
    BY Basics
  <2> QED BY <1>0, <2>1, <2>2
<1>4. ProdInv'
  <2>1. \A a \in Addrs : prod[a].last \in Nat
    BY DEF TypeInv, FileTypes
  <2> QED BY <1>0, <1>2, <2>1 DEF ProdInv, WorkInv
<1>5. ASSUME NEW u \in Updaters PROVE WorkOf(u)' /\ ReadOf(u)'
  <2>1. /\ WorkOf(u) /\ ReadOf(u)
        /\ \A a \in Addrs : mem[u][a] \in Nat
        /\ update[u].last \in Nat /\ todo[u] \subseteq Chunks
        /\ \A x \in tasks[u] \cup {r.chunk : r \in results[u]} : x \in Chunks
    BY DEF WorkInv, TypeInv, UpdateTypes
  <2>2. \A a \in Addrs : StagedBy(u, a)' <=> StagedBy(u, a)
    BY <1>0 DEF StagedBy
  <2>3. \A a \in Addrs, c \in Chunks : Covered(u, a, c) => Covered(u, a, c)'
    BY <1>0 DEF Covered, Read
  <2>4. WorkOf(u)'
    BY <1>0, <2>1, <2>2 DEF WorkOf
  <2>5. ASSUME NEW a \in Addrs, NEW c \in Chunks', StagedBy(u, a)
        PROVE  /\ c.last < mem[u][a] => Covered(u, a, c)'
               /\ \A x \in tasks[u] \cup {r.chunk : r \in results[u]} :
                    c.last <= x.last => Covered(u, a, c)'
               /\ a \in update[u].left /\ c.last < update[u].last => Covered(u, a, c)'
               /\ \A d \in todo[u] : c.last < d.last => c \in todo[u] \/ Covered(u, a, c)'
    <3>1. CASE c \in Chunks
      BY <2>1, <2>3, <2>5, <3>1 DEF ReadOf
    <3>2. CASE c.last > stage /\ c.last \in Nat
      <4>1. mem[u][a] <= stage + 1 /\ update[u].last <= stage + 1
        BY <2>1 DEF WorkOf
      <4>2. \A x \in Chunks : x.last \in Nat /\ x.last < c.last
        <5>1. \A x \in Chunks : x.last \in Nat
          BY Basics
        <5> QED BY <1>0, <1>3, <3>2, <5>1
      <4> QED BY <1>0, <2>1, <3>2, <4>1, <4>2
    <3> QED BY <1>2, <3>1, <3>2
  <2>6. ReadOf(u)'
    BY <1>0, <2>2, <2>5 DEF ReadOf
  <2> QED BY <2>4, <2>6
<1> QED BY <1>1, <1>4, <1>5 DEF WorkInv

\* The steps of a request outside of its work on the files.
LEMMA AsideStep ==
  ASSUME TypeInv, TypeInv', PlaceInv, PlaceInv', LockInv, WorkInv, NEW u \in Updaters,
         BeginRequest(u) \/ LockForAddress(u) \/ SkipFreshen(u) \/ MovedAll(u) \/ Unlock(u)
  PROVE  WorkInv'
<1> USE DEF index, files, mutexes, loop, visits, scan, Goto
<1>1. CASE Unlock(u) /\ Die
  BY <1>1, DieWork DEF Unlock, UnlockMutexes
<1>2. CASE ~(Unlock(u) /\ Die)
  <2>1. OnlyOf(u)
    <3> HIDE DEF index, files, mutexes, loop, visits, scan, Goto
    <3> QED BY <1>2, OnlyOfThem DEF WorkInv, FreshenMonitors
  <2>2. /\ pc'[u] \in {"idle", "lookup", "lock", "unlock"} \/ (pc'[u] = "copy" /\ idx'[u] = 1)
        /\ pc[u] \notin {"visit", "move"} \/ (pc[u] = "move" /\ update[u] = NoUpdate)
    <3>1. pc \in [Updaters -> Labels] /\ DOMAIN idx = Updaters
      BY DEF PlaceInv
    <3> QED BY <1>2, <3>1 DEF BeginRequest, LockForAddress, Lookup, LockFound, LockNew, LockedAll,
            SkipFreshen, MovedAll, Unlock, UnlockMutexes, Updating
  <2>3. /\ UNCHANGED <<prod, todo, tasks, results, update>>
        /\ unmoved'[u] = unmoved[u] \/ unmoved'[u] = {}
        /\ \A a \in Addrs : mem'[u][a] = mem[u][a] \/ mem'[u][a] = 0
        /\ UNCHANGED <<final, stage>>
    <3>1. DOMAIN mem = Updaters /\ DOMAIN unmoved = Updaters
      BY DEF TypeInv
    <3> QED BY <1>2, <3>1 DEF BeginRequest, LockForAddress, Lookup, LockFound, LockNew, LockedAll,
            SkipFreshen, MovedAll, Unlock, UnlockMutexes, Forget
  <2>4. \A a \in Addrs : ~StagedBy(u, a)'
    BY <2>2 DEF StagedBy
  <2>5. WorkOf(u) /\ stage' \in Nat /\ mem'[u] \in [Addrs -> 0 .. stage' + 1]
    <3>1. WorkOf(u)
      BY DEF WorkInv
    <3>2. stage \in Nat /\ mem[u] \in [Addrs -> Nat] /\ mem'[u] \in [Addrs -> Nat]
      BY Basics DEF TypeInv
    <3>3. \A a \in Addrs : mem[u][a] <= stage + 1
      BY <3>1 DEF WorkOf
    <3>4. \A a \in Addrs : mem'[u][a] \in 0 .. stage + 1
      BY <2>3, <3>2, <3>3
    <3> QED BY <2>3, <3>1, <3>2, <3>4
  <2>6. /\ todo'[u] = {} /\ tasks'[u] = {} /\ results'[u] = {} /\ update'[u] = NoUpdate
        /\ unmoved'[u] \subseteq MonitorMap(u)
    BY <2>2, <2>3, <2>5 DEF WorkOf
  <2>7. pc'[u] \notin {"visit", "move"}
    BY <2>2
  <2>8. WorkOf(u)' /\ ReadOf(u)'
    BY <2>4, <2>5, <2>6, <2>7, NotAtWork
  <2>9. ProdInv'
    <3>1. Chunks' = Chunks
      BY <2>3 DEF Chunks
    <3> QED BY <2>3, <3>1 DEF ProdInv, WorkInv
  <2> QED BY <2>1, <2>8, <2>9, OthersStay
<1> QED BY <1>1, <1>2

\* A step that leaves the index alone leaves the work of the scraper in order.
LEMMA ProdStays == ASSUME WorkInv, UNCHANGED <<prod, final, stage>> PROVE ProdInv'
<1>1. Chunks' = Chunks
  BY DEF Chunks
<1> QED BY <1>1 DEF WorkInv, ProdInv

\* A monitor's copy, with the LastScanned of the monitor, has what the monitor has.
LEMMA CopyStep ==
  ASSUME TypeInv, PlaceInv, LockInv, WorkInv, NEW u \in Updaters, NewMonitorStaged(u)
  PROVE  WorkInv'
<1> DEFINE a == Addr(u)
<1>0. /\ pc[u] = "copy" /\ idx[u] \in DOMAIN Request[u] /\ a \in Addrs
      /\ WorkOf(u) /\ ReadOf(u) /\ ProdInv
      /\ UNCHANGED <<setting, final, stage, prod, pc, todo, tasks, results, update, unmoved>>
      /\ idx' = [idx EXCEPT ![u] = idx[u] + 1] /\ mem' = [mem EXCEPT ![u][a] = prod[a].last]
  BY Basics DEF NewMonitorStaged, Stage, Asked, Addr, WorkInv, index, visits
<1>1. PICK tail \in SUBSET staged[a].apps :
        staged' = [staged EXCEPT ![a] =
          File(prod[a].last, prod[a].apps \cup tail, @.dup \/ prod[a].apps \cap tail # {})]
  BY DEF NewMonitorStaged, Stage
<1>2. OnlyOf(u)
  BY <1>0, OnlyOfThem DEF FreshenMonitors, NewMonitorStaged, Stage, Unlock, UnlockMutexes
<1>3. /\ staged'[a].exists /\ staged'[a].last = prod[a].last /\ prod[a].apps \subseteq staged'[a].apps
      /\ mem'[u][a] = prod[a].last
      /\ \A b \in Addrs \ {a} : staged'[b] = staged[b] /\ mem'[u][b] = mem[u][b]
  <2> HIDE DEF a
  <2>1. staged \in [Addrs -> FileTypes] /\ mem \in [Updaters -> [Addrs -> Nat]]
    BY DEF TypeInv
  <2> QED BY <1>0, <1>1, <2>1 DEF File
<1>4. \A b \in Addrs : StagedBy(u, b)' => StagedBy(u, b) \/ b = a
  <2>1. idx'[u] = idx[u] + 1 /\ idx[u] \in Nat
    BY <1>0 DEF PlaceInv
  <2>2. \A i \in 1 .. idx'[u] - 1 : i \in 1 .. idx[u] - 1 \/ i = idx[u]
    BY <2>1
  <2> QED BY <1>0, <2>2 DEF StagedBy, Addr
<1>5. /\ update[u] = NoUpdate /\ update[u].left = {} /\ update[u].header = {}
      /\ todo[u] = {} /\ tasks[u] = {} /\ results[u] = {}
  BY <1>0 DEF WorkOf, NoUpdate
<1> HIDE DEF a
<1>6. WorkOf(u)'
  <2>1. \A b \in Addrs : mem'[u][b] <= stage' + 1
    BY <1>0, <1>3 DEF WorkOf, ProdInv
  <2>2. \A b \in Addrs : StagedBy(u, b)' => staged'[b].exists /\ staged'[b].last = mem'[u][b]
    BY <1>0, <1>3, <1>4 DEF WorkOf
  <2> QED BY <1>0, <2>1, <2>2 DEF WorkOf
<1>7. ReadOf(u)'
  <2>1. Chunks' = Chunks
    BY <1>0 DEF Chunks
  <2>2. ASSUME NEW b \in Addrs, NEW c \in Chunks, StagedBy(u, b)', c.last < mem'[u][b]
        PROVE  Covered(u, b, c)'
    <3>1. CASE b = a
      BY <1>0, <1>3, <2>2, <3>1 DEF ProdInv, Covered, Read
    <3>2. CASE b # a
      <4>1. StagedBy(u, b) /\ c.last < mem[u][b] /\ staged'[b] = staged[b]
        BY <1>3, <1>4, <2>2, <3>2
      <4>2. Covered(u, b, c)
        BY <1>0, <4>1 DEF ReadOf
      <4> QED BY <1>0, <4>1, <4>2 DEF Covered, Read
    <3> QED BY <3>1, <3>2
  <2> QED BY <1>0, <1>5, <2>1, <2>2 DEF ReadOf
<1> QED BY <1>0, <1>2, <1>6, <1>7, ProdStays, OthersStay

\* Of some numbers the least.
LEMMA MinIs ==
  ASSUME NEW S \in SUBSET Nat, S # {}
  PROVE  Min(S) \in S /\ \A n \in S : Min(S) <= n
<1> DEFINE R == OpToRel(<, Nat)
<1>1. PICK x \in S : \A y \in S : ~ (<<y, x>> \in R)
  <2> HIDE DEF R
  <2> QED BY NatLessThanWellFounded, WFMin DEF R
<1>2. \A y \in S : x <= y
  <2>1. \A y \in S : y \in Nat /\ x \in Nat /\ ~ (y < x)
    BY <1>1 DEF OpToRel
  <2> QED BY <2>1
<1> HIDE DEF R
<1> QED BY <1>2 DEF Min

\* Every chunk that some monitor lacks is to be visited.
LEMMA ReadDirStep ==
  ASSUME TypeInv, PlaceInv, LockInv, WorkInv, NEW u \in Updaters, ReadDir(u)
  PROVE  WorkInv'
<1> DEFINE first == Min({mem[u][a] : a \in MonitorMap(u)})
<1>0. /\ pc[u] = "copy" /\ idx[u] \notin DOMAIN Request[u]
      /\ WorkOf(u) /\ ReadOf(u) /\ ProdInv
      /\ UNCHANGED <<setting, final, stage, prod, staged, idx, mem, tasks, results, update, unmoved>>
      /\ todo' = [todo EXCEPT ![u] = {c \in Chunks : c.last >= first}]
      /\ pc' = [pc EXCEPT ![u] = "visit"]
  BY DEF ReadDir, ReadBlooms, Asked, Goto, WorkInv, index, files, loop
<1>1. pc'[u] = "visit" /\ todo'[u] = {c \in Chunks : c.last >= first}
  <2>1. u \in DOMAIN pc /\ u \in DOMAIN todo
    BY DEF PlaceInv, TypeInv
  <2> HIDE DEF first
  <2> QED BY <1>0, <2>1
<1>2. OnlyOf(u)
  BY <1>0, OnlyOfThem DEF FreshenMonitors, Unlock, UnlockMutexes
<1>3. \A a \in Addrs : StagedBy(u, a)' => StagedBy(u, a)
  <2>1. ASSUME NEW a \in MonitorMap(u) PROVE \E i \in 1 .. idx[u] - 1 : Request[u][i] = a
    <3>1. PICK i \in DOMAIN Request[u] : Request[u][i] = a
      BY DEF MonitorMap
    <3>2. idx[u] \in Nat \ {0} /\ idx[u] <= Len(Request[u]) + 1 /\ Len(Request[u]) \in Nat
          /\ DOMAIN Request[u] = 1 .. Len(Request[u])
      BY Basics DEF PlaceInv
    <3>3. i \in 1 .. idx[u] - 1
      BY <1>0, <3>2
    <3> QED BY <3>1, <3>3
  <2> QED BY <1>0, <1>1, <2>1 DEF StagedBy
<1>4. \A a \in MonitorMap(u) : first \in Nat /\ first <= mem[u][a] /\ mem[u][a] \in Nat
  <2> SUFFICES ASSUME NEW a \in MonitorMap(u)
               PROVE  first \in Nat /\ first <= mem[u][a] /\ mem[u][a] \in Nat
    OBVIOUS
  <2> DEFINE S == {mem[u][b] : b \in MonitorMap(u)}
  <2>1. MonitorMap(u) \subseteq Addrs /\ mem[u] \in [Addrs -> Nat]
    BY Basics DEF TypeInv
  <2>2. S \in SUBSET Nat /\ mem[u][a] \in S
    BY <2>1
  <2> HIDE DEF S
  <2> QED BY <2>2, MinIs DEF S
<1> HIDE DEF first
<1>5. /\ update[u].left = {} /\ update[u].header = {} /\ tasks[u] = {} /\ results[u] = {}
      /\ update[u] = NoUpdate
  BY <1>0 DEF WorkOf, NoUpdate
<1>6. WorkOf(u)'
  BY <1>0, <1>1, <1>3, <1>5 DEF WorkOf
<1>7. ReadOf(u)'
  <2>1. Chunks' = Chunks
    BY <1>0 DEF Chunks
  <2>2. ASSUME NEW a \in Addrs, NEW c \in Chunks, StagedBy(u, a)'
        PROVE  /\ c.last < mem[u][a] => Covered(u, a, c)'
               /\ c \in todo'[u] \/ Covered(u, a, c)'
    <3>1. StagedBy(u, a) /\ a \in MonitorMap(u)
      BY <1>3, <2>2 DEF StagedBy
    <3>2. c.last < mem[u][a] => Covered(u, a, c)
      BY <1>0, <3>1 DEF ReadOf
    <3>3. Covered(u, a, c) => Covered(u, a, c)'
      BY <1>0 DEF Covered, Read
    <3>4. c.last \in Nat
      BY Basics
    <3>5. c.last >= first \/ c.last < mem[u][a]
      BY <1>4, <3>1, <3>4
    <3> QED BY <1>1, <3>2, <3>3, <3>5
  <2> QED BY <1>0, <1>5, <2>1, <2>2 DEF ReadOf
<1> QED BY <1>0, <1>2, <1>6, <1>7, ProdStays, OthersStay

\* The steps that leave the files, LastScanned and the update of u.
LEMMA VisitStep ==
  ASSUME LockInv, WorkInv, NEW u \in Updaters, OnlyOf(u), pc[u] = "visit",
         UNCHANGED <<prod, staged, pc, mem, update, unmoved>>,
         \A r \in results'[u] : ~r.err,
         \A a \in Addrs, c \in Chunks : StagedBy(u, a) =>
           /\ Covered(u, a, c) => Covered(u, a, c)'
           /\ \A x \in tasks'[u] \cup {r.chunk : r \in results'[u]} :
                c.last <= x.last => Covered(u, a, c)'
           /\ \A d \in todo'[u] : c.last < d.last => c \in todo'[u] \/ Covered(u, a, c)'
  PROVE  WorkInv'
<1>0. WorkOf(u) /\ ReadOf(u) /\ UNCHANGED <<setting, final, stage>>
  BY DEF WorkInv, OnlyOf
<1>1. \A a \in Addrs : StagedBy(u, a)' <=> StagedBy(u, a)
  BY DEF StagedBy
<1>2. WorkOf(u)'
  BY <1>0, <1>1 DEF WorkOf
<1>3. ReadOf(u)'
  <2>1. Chunks' = Chunks
    BY <1>0 DEF Chunks
  <2> QED BY <1>0, <1>1, <2>1 DEF ReadOf
<1> QED BY <1>0, <1>2, <1>3, ProdStays, OthersStay

\* The chunks are visited in their order: behind the first one that is left
\* nothing is missing.
LEMMA StartTaskStep ==
  ASSUME TypeInv, PlaceInv, LockInv, WorkInv, NEW u \in Updaters, StartTask(u)
  PROVE  WorkInv'
<1> DEFINE x == CHOOSE x \in todo[u] : \A d \in todo[u] : x.last <= d.last
<1>0. /\ pc[u] = "visit" /\ todo[u] # {} /\ WorkOf(u) /\ ReadOf(u)
      /\ UNCHANGED <<prod, staged, pc, mem, results, update, unmoved>>
      /\ todo' = [todo EXCEPT ![u] = @ \ {x}] /\ tasks' = [tasks EXCEPT ![u] = @ \cup {x}]
  BY DEF StartTask, WorkInv, files
<1>1. todo[u] \subseteq Chunks /\ u \in DOMAIN todo /\ u \in DOMAIN tasks
  BY DEF TypeInv
<1>2. x \in todo[u] /\ \A d \in todo[u] : x.last <= d.last
  BY <1>0, <1>1, FirstChunk
<1> HIDE DEF x
<1>3. todo'[u] = todo[u] \ {x} /\ tasks'[u] = tasks[u] \cup {x}
  BY <1>0, <1>1
<1>4. OnlyOf(u)
  BY <1>0, OnlyOfThem DEF FreshenMonitors, Unlock, UnlockMutexes
<1>5. ASSUME NEW a \in Addrs, NEW c \in Chunks, StagedBy(u, a)
      PROVE  /\ Covered(u, a, c) => Covered(u, a, c)'
             /\ \A y \in tasks'[u] \cup {r.chunk : r \in results'[u]} :
                  c.last <= y.last => Covered(u, a, c)'
             /\ \A d \in todo'[u] : c.last < d.last => c \in todo'[u] \/ Covered(u, a, c)'
  <2>1. Covered(u, a, c) => Covered(u, a, c)'
    BY <1>0, <1>3 DEF Covered, Read
  <2>2. c = x => Covered(u, a, c)'
    BY <1>3 DEF Covered
  <2>3. ASSUME c.last <= x.last PROVE Covered(u, a, c)'
    <3>1. x \in Chunks /\ c.last \in Nat /\ x.last \in Nat
      BY <1>1, <1>2, Basics
    <3>2. CASE c.last = x.last
      BY <2>2, <3>1, <3>2, Basics
    <3>3. CASE c.last < x.last
      <4>1. c \notin todo[u]
        BY <1>2, <3>1, <3>3
      <4>2. Covered(u, a, c)
        BY <1>0, <1>2, <1>5, <3>3, <4>1 DEF ReadOf
      <4> QED BY <2>1, <4>2
    <3> QED BY <2>3, <3>1, <3>2, <3>3
  <2>4. \A y \in tasks[u] \cup {r.chunk : r \in results[u]} : c.last <= y.last => Covered(u, a, c)
    BY <1>0, <1>5 DEF ReadOf
  <2>5. \A d \in todo[u] : c.last < d.last => c \in todo[u] \/ Covered(u, a, c)
    BY <1>0, <1>5 DEF ReadOf
  <2> QED BY <1>0, <1>3, <2>1, <2>2, <2>3, <2>4, <2>5
<1>6. \A r \in results'[u] : ~r.err
  BY <1>0 DEF WorkOf
<1> QED BY <1>0, <1>4, <1>5, <1>6, VisitStep

\* control-C gives up all the chunks that are left, the last ones.
LEMMA SkipRestStep ==
  ASSUME TypeInv, PlaceInv, LockInv, WorkInv, NEW u \in Updaters, SkipRest(u) \/ Cancel(u)
  PROVE  WorkInv'
<1>0. /\ pc[u] = "visit" /\ WorkOf(u) /\ ReadOf(u)
      /\ UNCHANGED <<prod, staged, pc, mem, tasks, results, update, unmoved>>
      /\ todo'[u] = {} \/ todo'[u] = todo[u]
  BY DEF SkipRest, Cancel, WorkInv, files, visits, TypeInv
<1>1. OnlyOf(u)
  BY <1>0, OnlyOfThem DEF FreshenMonitors, Unlock, UnlockMutexes
<1>2. ASSUME NEW a \in Addrs, NEW c \in Chunks, StagedBy(u, a)
      PROVE  /\ Covered(u, a, c) => Covered(u, a, c)'
             /\ \A x \in tasks'[u] \cup {r.chunk : r \in results'[u]} :
                  c.last <= x.last => Covered(u, a, c)'
             /\ \A d \in todo'[u] : c.last < d.last => c \in todo'[u] \/ Covered(u, a, c)'
  <2>1. Covered(u, a, c) => Covered(u, a, c)'
    BY <1>0 DEF Covered, Read
  <2>2. \A x \in tasks[u] \cup {r.chunk : r \in results[u]} : c.last <= x.last => Covered(u, a, c)
    BY <1>0, <1>2 DEF ReadOf
  <2>3. \A d \in todo[u] : c.last < d.last => c \in todo[u] \/ Covered(u, a, c)
    BY <1>0, <1>2 DEF ReadOf
  <2> QED BY <1>0, <2>1, <2>2, <2>3
<1>3. \A r \in results'[u] : ~r.err
  BY <1>0 DEF WorkOf
<1> QED BY <1>0, <1>1, <1>2, <1>3, VisitStep

\* A goroutine sends what it has found.
LEMMA VisitChunkStep ==
  ASSUME TypeInv, PlaceInv, LockInv, WorkInv, "chunk" \notin setting.events,
         NEW u \in Updaters, NEW x \in tasks[u], VisitChunk(u, x)
  PROVE  WorkInv'
<1>0. /\ WorkOf(u) /\ ReadOf(u) /\ pc[u] = "visit"
      /\ UNCHANGED <<prod, staged, pc, mem, todo, update, unmoved>>
      /\ tasks' = [tasks EXCEPT ![u] = @ \ {x}]
      /\ results' = [results EXCEPT ![u] = @ \cup {[chunk |-> x, err |-> FALSE]}]
  BY DEF VisitChunk, WorkInv, WorkOf, files
<1>1. tasks'[u] = tasks[u] \ {x} /\ results'[u] = results[u] \cup {[chunk |-> x, err |-> FALSE]}
  BY <1>0 DEF TypeInv
<1>2. OnlyOf(u)
  BY OnlyOfThem, <1>0 DEF VisitChunks
<1>3. ASSUME NEW a \in Addrs, NEW c \in Chunks, StagedBy(u, a)
      PROVE  /\ Covered(u, a, c) => Covered(u, a, c)'
             /\ \A y \in tasks'[u] \cup {r.chunk : r \in results'[u]} :
                  c.last <= y.last => Covered(u, a, c)'
             /\ \A d \in todo'[u] : c.last < d.last => c \in todo'[u] \/ Covered(u, a, c)'
  <2>1. Covered(u, a, c) => Covered(u, a, c)'
    <3>1. c \in tasks[u] => c \in tasks'[u] \/ \E r \in results'[u] : r.chunk = c
      <4> DEFINE s == [chunk |-> x, err |-> FALSE]
      <4>1. s \in results'[u] /\ s.chunk = x
        BY <1>1
      <4> HIDE DEF s
      <4> QED BY <1>1, <4>1
    <3>2. (\E r \in results[u] : r.chunk = c) => \E r \in results'[u] : r.chunk = c
      BY <1>1
    <3> QED BY <1>0, <3>1, <3>2 DEF Covered, Read
  <2>2. \A y \in tasks[u] \cup {r.chunk : r \in results[u]} : c.last <= y.last => Covered(u, a, c)
    BY <1>0, <1>3 DEF ReadOf
  <2>3. \A d \in todo[u] : c.last < d.last => c \in todo[u] \/ Covered(u, a, c)
    BY <1>0, <1>3 DEF ReadOf
  <2>4. \A y \in tasks'[u] \cup {r.chunk : r \in results'[u]} :
          y \in tasks[u] \cup {r.chunk : r \in results[u]}
    BY <1>1
  <2> QED BY <1>0, <2>1, <2>2, <2>3, <2>4
<1>4. \A r \in results'[u] : ~r.err
  BY <1>0, <1>1 DEF WorkOf
<1> QED BY <1>0, <1>2, <1>3, <1>4, VisitStep

\* A result is taken for the update of every monitor.
LEMMA TakeResultStep ==
  ASSUME TypeInv, PlaceInv, LockInv, WorkInv, NEW u \in Updaters, TakeResult(u)
  PROVE  WorkInv'
<1>0. /\ pc[u] = "visit" /\ WorkOf(u) /\ ReadOf(u) /\ update[u] = NoUpdate
      /\ UNCHANGED <<setting, final, stage, prod, staged, pc, mem, todo, tasks, unmoved>>
  BY DEF TakeResult, Updating, WorkInv, files, index
<1>1. PICK r \in results[u] :
        /\ results' = [results EXCEPT ![u] = @ \ {r}]
        /\ update' = [update EXCEPT ![u] =
             IF r.err THEN NoUpdate
             ELSE [last |-> r.chunk.last + 1, apps |-> [a \in Addrs |-> In(a, r.chunk)],
                   left |-> MonitorMap(u), header |-> {}]]
  BY DEF TakeResult
<1>2. ~r.err /\ r.chunk \in Chunks /\ r.chunk.last \in Nat /\ r.chunk.last <= final
  <2>1. r \in [chunk : Chunks, err : BOOLEAN] /\ ~r.err
    BY <1>0 DEF TypeInv, WorkOf
  <2> QED BY <2>1, Basics
<1>3. /\ results'[u] = results[u] \ {r}
      /\ update'[u].last = r.chunk.last + 1 /\ update'[u].left = MonitorMap(u)
      /\ update'[u].header = {} /\ \A a \in Addrs : update'[u].apps[a] = In(a, r.chunk)
  <2>1. u \in DOMAIN results /\ u \in DOMAIN update
    BY DEF TypeInv
  <2> QED BY <1>1, <1>2, <2>1
<1>4. OnlyOf(u)
  BY <1>0, OnlyOfThem DEF FreshenMonitors, Unlock, UnlockMutexes
<1>5. \A a \in Addrs : StagedBy(u, a)' <=> StagedBy(u, a)
  <2>1. pc'[u] = "visit"
    BY <1>0
  <2> QED BY <1>0, <2>1 DEF StagedBy
<1>6. WorkOf(u)'
  <2>1. update'[u].last <= stage' + 1
    <3>1. final \in Nat /\ stage \in Nat /\ final <= stage
      BY Basics DEF TypeInv
    <3> QED BY <1>0, <1>2, <1>3, <3>1
  <2> QED BY <1>0, <1>3, <1>5, <2>1 DEF WorkOf
<1>7. ReadOf(u)'
  <2>1. Chunks' = Chunks
    BY <1>0 DEF Chunks
  <2>2. ASSUME NEW a \in Addrs, NEW c \in Chunks, StagedBy(u, a)
        PROVE  /\ Covered(u, a, c) => Covered(u, a, c)'
               /\ \A x \in tasks[u] \cup {s.chunk : s \in results[u]} :
                    c.last <= x.last => Covered(u, a, c)
    <3>1. a \in MonitorMap(u)
      BY <2>2 DEF StagedBy
    <3>2. a \notin update[u].left \cup update[u].header
      BY <1>0 DEF NoUpdate
    <3>3. Covered(u, a, c) => Covered(u, a, c)'
      <4>1. CASE \E s \in results[u] : s.chunk = c
        <5>1. PICK s \in results[u] : s.chunk = c
          BY <4>1
        <5>2. CASE s = r
          BY <1>3, <3>1, <5>1, <5>2 DEF Covered
        <5>3. CASE s # r
          BY <1>3, <5>1, <5>3 DEF Covered
        <5> QED BY <5>2, <5>3
      <4>2. CASE ~ \E s \in results[u] : s.chunk = c
        BY <1>0, <3>2, <4>2 DEF Covered, Read
      <4> QED BY <4>1, <4>2
    <3> QED BY <1>0, <2>2, <3>3 DEF ReadOf
  <2>3. ASSUME NEW a \in Addrs, NEW c \in Chunks, StagedBy(u, a), c.last < update'[u].last
        PROVE  Covered(u, a, c)'
    <3>1. c.last \in Nat
      BY Basics
    <3>2. c.last <= r.chunk.last
      BY <1>2, <1>3, <2>3, <3>1
    <3>3. r.chunk \in {s.chunk : s \in results[u]}
      OBVIOUS
    <3> QED BY <2>2, <2>3, <3>2, <3>3
  <2>4. \A x \in tasks'[u] \cup {s.chunk : s \in results'[u]} :
          x \in tasks[u] \cup {s.chunk : s \in results[u]}
    BY <1>0, <1>3
  <2>5. ASSUME NEW a \in Addrs, NEW c \in Chunks, StagedBy(u, a)
        PROVE  /\ c.last < mem'[u][a] => Covered(u, a, c)'
               /\ \A x \in tasks'[u] \cup {s.chunk : s \in results'[u]} :
                    c.last <= x.last => Covered(u, a, c)'
               /\ \A d \in todo'[u] : c.last < d.last => c \in todo'[u] \/ Covered(u, a, c)'
    BY <1>0, <2>2, <2>4, <2>5 DEF ReadOf
  <2> QED BY <1>5, <2>1, <2>3, <2>5 DEF ReadOf
<1> QED BY <1>0, <1>4, <1>6, <1>7, ProdStays, OthersStay

\* LastScanned goes forward to behind the chunk: the appearances in it are still
\* on their way.
LEMMA WriteHeaderStep ==
  ASSUME TypeInv, PlaceInv, LockInv, WorkInv, NEW u \in Updaters, NEW a \in Addrs,
         WriteMonHeader(u, a)
  PROVE  WorkInv'
<1> DEFINE last == Max({mem[u][a], update[u].last})
<1>0. /\ a \in update[u].left /\ update[u].header = {} /\ WorkOf(u) /\ ReadOf(u)
      /\ UNCHANGED <<setting, final, stage, prod, pc, idx, todo, tasks, results, unmoved>>
      /\ mem' = [mem EXCEPT ![u][a] = last]
      /\ staged' = [staged EXCEPT ![a] = File(last, @.apps, @.dup)]
      /\ update' = [update EXCEPT ![u].left = @ \ {a}, ![u].header = {a}]
  BY DEF WriteMonHeader, WriteHeader, WorkInv, index, loop, visits
<1>1. /\ mem[u][a] \in Nat /\ update[u].last \in Nat
      /\ last = IF mem[u][a] >= update[u].last THEN mem[u][a] ELSE update[u].last
  <2>1. mem[u][a] \in Nat /\ update[u].last \in Nat
    BY DEF TypeInv, UpdateTypes
  <2> QED BY <2>1, MaxOfTwo
<1> HIDE DEF last
<1>2. /\ mem'[u][a] = last /\ staged'[a].exists /\ staged'[a].last = last
      /\ staged'[a].apps = staged[a].apps
      /\ \A b \in Addrs \ {a} : staged'[b] = staged[b] /\ mem'[u][b] = mem[u][b]
  <2>1. staged \in [Addrs -> FileTypes] /\ mem \in [Updaters -> [Addrs -> Nat]]
    BY DEF TypeInv
  <2> QED BY <1>0, <2>1 DEF File
<1>3. /\ update'[u].last = update[u].last /\ update'[u].apps = update[u].apps
      /\ update'[u].left = update[u].left \ {a} /\ update'[u].header = {a}
  <2>1. update \in [Updaters -> UpdateTypes] /\ update[u] \in UpdateTypes
    BY DEF TypeInv
  <2> QED BY <1>0, <2>1 DEF UpdateTypes
<1>4. OnlyOf(u)
  BY <1>0, OnlyOfThem DEF FreshenMonitors, UpdateMonitors, Unlock, UnlockMutexes, WorkOf, NoUpdate
<1>5. \A b \in Addrs : StagedBy(u, b)' <=> StagedBy(u, b)
  BY <1>0 DEF StagedBy
<1>6. pc[u] \in {"visit", "move"}
  BY <1>0 DEF WorkOf, NoUpdate
<1>7. WorkOf(u)'
  <2>1. \A b \in Addrs : mem'[u][b] <= stage' + 1
    BY <1>0, <1>1, <1>2 DEF WorkOf
  <2>2. \A b \in Addrs : StagedBy(u, b)' => staged'[b].exists /\ staged'[b].last = mem'[u][b]
    BY <1>0, <1>2, <1>5 DEF WorkOf
  <2>3. update'[u].left \cup update'[u].header = update[u].left \cup update[u].header
    BY <1>0, <1>3
  <2> QED BY <1>0, <1>3, <1>6, <2>1, <2>2, <2>3 DEF WorkOf
<1>8. ReadOf(u)'
  <2>1. Chunks' = Chunks
    BY <1>0 DEF Chunks
  <2>2. ASSUME NEW b \in Addrs, NEW c \in Chunks, StagedBy(u, b)
        PROVE  (Covered(u, b, c) => Covered(u, b, c)') /\ (c.last < mem'[u][b] => Covered(u, b, c))
    <3>1. staged'[b].apps = staged[b].apps
      BY <1>2
    <3>2. update'[u].left \cup update'[u].header = update[u].left \cup update[u].header
      BY <1>0, <1>3
    <3>3. Covered(u, b, c) => Covered(u, b, c)'
      BY <1>0, <1>3, <3>1, <3>2 DEF Covered, Read
    <3>4. c.last < mem'[u][b] => c.last < mem[u][b] \/ (b = a /\ c.last < update[u].last)
      BY <1>1, <1>2
    <3> QED BY <1>0, <2>2, <3>3, <3>4 DEF ReadOf
  <2> QED BY <1>0, <1>3, <1>5, <2>1, <2>2 DEF ReadOf
<1> QED BY <1>0, <1>4, <1>7, <1>8, ProdStays, OthersStay

\* The appearances arrive in the file, which is there.
LEMMA WriteAppearancesStep ==
  ASSUME TypeInv, PlaceInv, LockInv, WorkInv, "write" \notin setting.events,
         NEW u \in Updaters, NEW a \in Addrs, WriteAppearances(u, a)
  PROVE  WorkInv'
<1>0. /\ a \in update[u].header /\ WorkOf(u) /\ ReadOf(u)
      /\ UNCHANGED <<setting, final, stage, prod, pc, idx, mem, todo, tasks, results, unmoved>>
      /\ update' = [update EXCEPT ![u] =
           IF update[u].left = {} THEN NoUpdate ELSE [update[u] EXCEPT !.header = {}]]
  BY DEF WriteAppearances, WorkInv, index, loop, visits
<1>1. /\ update[u].header = {a} /\ a \in MonitorMap(u) /\ pc[u] \in {"visit", "move"}
      /\ a \notin update[u].left /\ StagedBy(u, a)
  <2>1. update[u].header = {a}
    BY <1>0 DEF WorkOf
  <2>2. a \in MonitorMap(u) /\ pc[u] \in {"visit", "move"} /\ a \notin update[u].left
    BY <1>0 DEF WorkOf, NoUpdate
  <2> QED BY <1>0, <2>1, <2>2 DEF WorkOf, StagedBy
<1>2. staged[a].exists /\ staged[a].last = mem[u][a]
  BY <1>0, <1>1 DEF WorkOf
<1>3. /\ staged'[a].exists /\ staged'[a].last = staged[a].last
      /\ staged'[a].apps = staged[a].apps \cup update[u].apps[a]
      /\ \A b \in Addrs \ {a} : staged'[b] = staged[b]
  <2>1. staged' = [staged EXCEPT ![a] =
          File(@.last, @.apps \cup update[u].apps[a], @.dup \/ @.apps \cap update[u].apps[a] # {})]
    BY <1>2 DEF WriteAppearances, TypeInv, FileTypes
  <2>2. staged \in [Addrs -> FileTypes]
    BY DEF TypeInv
  <2> QED BY <2>1, <2>2 DEF File
<1>4. /\ update'[u].left = update[u].left /\ update'[u].header = {}
      /\ update'[u].last <= stage + 1
      /\ update[u].left # {} => update'[u].last = update[u].last /\ update'[u].apps = update[u].apps
  <2>1. update \in [Updaters -> UpdateTypes] /\ update[u] \in UpdateTypes /\ stage \in Nat
    BY Basics DEF TypeInv
  <2>2. CASE update[u].left = {}
    <3>1. update'[u] = NoUpdate
      BY <1>0, <2>1, <2>2
    <3>2. NoUpdate.left = {} /\ NoUpdate.header = {} /\ NoUpdate.last = 0
      BY DEF NoUpdate
    <3>3. 0 <= stage + 1
      BY <2>1
    <3> QED BY <2>2, <3>1, <3>2, <3>3
  <2>3. CASE update[u].left # {}
    <3>1. update'[u] = [update[u] EXCEPT !.header = {}]
      BY <1>0, <2>1, <2>3
    <3>2. update[u].last <= stage + 1
      BY <1>0 DEF WorkOf
    <3> QED BY <2>1, <2>3, <3>1, <3>2 DEF UpdateTypes
  <2> QED BY <2>2, <2>3
<1>5. OnlyOf(u)
  BY <1>0, <1>1, OnlyOfThem DEF FreshenMonitors, UpdateMonitors, Unlock, UnlockMutexes
<1>6. \A b \in Addrs : StagedBy(u, b)' <=> StagedBy(u, b)
  BY <1>0 DEF StagedBy
<1>7. WorkOf(u)'
  <2>1. \A b \in Addrs : StagedBy(u, b)' => staged'[b].exists /\ staged'[b].last = mem'[u][b]
    BY <1>0, <1>2, <1>3, <1>6 DEF WorkOf
  <2>2. pc'[u] \in {"visit", "move"}
    BY <1>0, <1>1
  <2> QED BY <1>0, <1>4, <2>1, <2>2 DEF WorkOf
<1>8. ReadOf(u)'
  <2>1. Chunks' = Chunks
    BY <1>0 DEF Chunks
  <2>2. ASSUME NEW b \in Addrs, NEW c \in Chunks, Covered(u, b, c) PROVE Covered(u, b, c)'
    <3>1. staged[b].apps \subseteq staged'[b].apps
      BY <1>3
    <3>2. ASSUME b \in update[u].left \cup update[u].header, In(b, c) \subseteq update[u].apps[b]
          PROVE  Covered(u, b, c)'
      <4>1. CASE b = a
        BY <1>3, <3>2, <4>1 DEF Covered, Read
      <4>2. CASE b # a
        BY <1>1, <1>4, <3>2, <4>2 DEF Covered
      <4> QED BY <4>1, <4>2
    <3> QED BY <1>0, <2>2, <3>1, <3>2 DEF Covered, Read
  <2>3. ASSUME NEW b \in Addrs, b \in update'[u].left PROVE update'[u].last = update[u].last
    BY <1>4, <2>3
  <2> QED BY <1>0, <1>4, <1>6, <2>1, <2>2, <2>3 DEF ReadOf
<1> QED BY <1>0, <1>5, <1>7, <1>8, ProdStays, OthersStay

\* With everything visited the stage is read for the monitors that have seen all
\* the chunks.
LEMMA ReadStageStep ==
  ASSUME TypeInv, PlaceInv, LockInv, WorkInv, NEW u \in Updaters, ReadStage(u)
  PROVE  WorkInv'
<1> DEFINE hits == {a \in MonitorMap(u) : final + 1 <= mem[u][a] /\ InStage(u)[a] # {}}
           new == [last |-> stage + 1, apps |-> InStage(u), left |-> hits, header |-> {}]
<1>0. /\ pc[u] = "visit" /\ update[u] = NoUpdate
      /\ todo[u] = {} /\ tasks[u] = {} /\ results[u] = {}
      /\ WorkOf(u) /\ ReadOf(u)
      /\ UNCHANGED <<setting, final, stage, prod, staged, idx, mem, todo, tasks, results>>
      /\ pc' = [pc EXCEPT ![u] = "move"] /\ unmoved' = [unmoved EXCEPT ![u] = MonitorMap(u)]
      /\ update' = [update EXCEPT ![u] = IF hits = {} THEN NoUpdate ELSE new]
  BY DEF ReadStage, UpdateFromStage, Updating, Goto, WorkInv, index, files, loop, visits
<1>1. pc'[u] = "move" /\ unmoved'[u] = MonitorMap(u)
  BY <1>0 DEF PlaceInv, TypeInv
<1>2. update'[u].left \subseteq hits /\ update'[u].header = {} /\ update'[u].last <= stage + 1
  <2>1. u \in DOMAIN update /\ stage \in Nat
    BY Basics DEF TypeInv
  <2>2. new.left = hits /\ new.header = {} /\ new.last = stage + 1
    OBVIOUS
  <2>3. NoUpdate.left = {} /\ NoUpdate.header = {} /\ NoUpdate.last = 0
    BY DEF NoUpdate
  <2>4. update'[u] = NoUpdate \/ update'[u] = new
    <3> HIDE DEF hits, new
    <3> QED BY <1>0, <2>1
  <2> HIDE DEF hits, new
  <2>5. 0 <= stage + 1 /\ stage + 1 <= stage + 1
    BY <2>1
  <2> QED BY <2>2, <2>3, <2>4, <2>5
<1>3. hits \subseteq MonitorMap(u) /\ \A a \in hits : final < mem[u][a]
  <2>1. final \in Nat /\ mem[u] \in [Addrs -> Nat] /\ MonitorMap(u) \subseteq Addrs
    BY Basics DEF TypeInv
  <2> QED BY <2>1
<1> HIDE DEF hits, new
<1>4. OnlyOf(u)
  BY <1>0, OnlyOfThem DEF FreshenMonitors, Unlock, UnlockMutexes
<1>5. \A a \in Addrs : StagedBy(u, a)' <=> StagedBy(u, a)
  BY <1>0, <1>1 DEF StagedBy
<1>6. WorkOf(u)'
  BY <1>0, <1>1, <1>2, <1>3, <1>5 DEF WorkOf
<1>7. ReadOf(u)'
  <2>1. Chunks' = Chunks
    BY <1>0 DEF Chunks
  <2>2. ASSUME NEW a \in Addrs, NEW c \in Chunks, StagedBy(u, a), c.last < mem[u][a]
        PROVE  Covered(u, a, c)'
    <3>1. Covered(u, a, c)
      BY <1>0, <2>2 DEF ReadOf
    <3>2. a \notin update[u].left \cup update[u].header
      BY <1>0 DEF NoUpdate
    <3>3. Read(a, c)
      BY <1>0, <3>1, <3>2 DEF Covered
    <3> QED BY <1>0, <3>3 DEF Covered, Read
  <2>3. ASSUME NEW a \in Addrs, NEW c \in Chunks, a \in update'[u].left PROVE c.last < mem[u][a]
    <3>1. c.last \in Nat /\ c.last <= final /\ final \in Nat /\ MonitorMap(u) \subseteq Addrs
          /\ mem[u] \in [Addrs -> Nat]
      BY Basics DEF TypeInv
    <3> QED BY <1>2, <1>3, <2>3, <3>1
  <2> QED BY <1>0, <1>5, <2>1, <2>2, <2>3 DEF ReadOf
<1> QED BY <1>0, <1>4, <1>6, <1>7, ProdStays, OthersStay

\* What is moved to production is complete.
LEMMA MoveStep ==
  ASSUME TypeInv, PlaceInv, LockInv, WorkInv, NEW u \in Updaters, NEW a \in Addrs,
         MoveToProduction(u, a)
  PROVE  WorkInv'
<1>0. /\ pc[u] = "move" /\ update[u] = NoUpdate /\ a \in unmoved[u] /\ a \in MonitorMap(u)
      /\ WorkOf(u) /\ ReadOf(u) /\ ProdInv /\ StagedBy(u, a)
      /\ todo[u] = {} /\ tasks[u] = {} /\ results[u] = {}
  BY DEF MoveToProduction, Move, Updating, WorkInv, WorkOf, StagedBy
<1>1. /\ UNCHANGED <<setting, final, stage, idx, mem, todo, tasks, results, update, pc>>
      /\ prod' = [prod EXCEPT ![a] = [staged[a] EXCEPT !.dup = FALSE]]
      /\ staged' = [staged EXCEPT ![a] = NoFile]
      /\ unmoved' = [unmoved EXCEPT ![u] = @ \ {a}]
  <2>1. staged[a].exists
    BY <1>0 DEF WorkOf
  <2> QED BY <2>1 DEF MoveToProduction, Move, index, loop, visits
<1>2. /\ prod'[a].last = staged[a].last /\ prod'[a].apps = staged[a].apps
      /\ \A b \in Addrs \ {a} : prod'[b] = prod[b] /\ staged'[b] = staged[b]
      /\ unmoved'[u] = unmoved[u] \ {a}
  <2>1. staged \in [Addrs -> FileTypes] /\ staged[a] \in FileTypes /\ prod \in [Addrs -> FileTypes]
        /\ u \in DOMAIN unmoved
    BY DEF TypeInv
  <2> QED BY <1>1, <2>1 DEF FileTypes
<1>3. update[u].left = {} /\ update[u].header = {}
  BY <1>0 DEF NoUpdate
<1>4. Chunks' = Chunks
  BY <1>1 DEF Chunks
<1>5. \A b \in Addrs, c \in Chunks : Covered(u, b, c) => Read(b, c)
  BY <1>0, <1>3 DEF Covered
<1>6. ProdInv'
  <2>1. staged[a].last = mem[u][a] /\ mem[u][a] <= stage + 1
    BY <1>0 DEF WorkOf
  <2>2. \A c \in Chunks : c.last < mem[u][a] => In(a, c) \subseteq staged[a].apps
    BY <1>0, <1>5 DEF ReadOf, Read
  <2>3. \A b \in Addrs : b = a \/ prod'[b] = prod[b]
    BY <1>2
  <2> QED BY <1>0, <1>1, <1>2, <1>4, <2>1, <2>2, <2>3 DEF ProdInv
<1>7. OnlyOf(u)
  BY <1>0, OnlyOfThem DEF FreshenMonitors, Unlock, UnlockMutexes
<1>8. \A b \in Addrs : StagedBy(u, b)' => StagedBy(u, b) /\ b # a
  BY <1>0, <1>1, <1>2 DEF StagedBy
<1>9. WorkOf(u)'
  BY <1>0, <1>1, <1>2, <1>3, <1>8 DEF WorkOf
<1>10. ReadOf(u)'
  <2>1. ASSUME NEW b \in Addrs, NEW c \in Chunks, StagedBy(u, b)', c.last < mem[u][b]
        PROVE  Covered(u, b, c)'
    <3>1. Read(b, c) /\ staged'[b] = staged[b]
      BY <1>0, <1>2, <1>5, <1>8, <2>1 DEF ReadOf
    <3> QED BY <3>1 DEF Covered, Read
  <2> QED BY <1>0, <1>1, <1>3, <1>4, <2>1 DEF ReadOf
<1> QED BY <1>6, <1>7, <1>9, <1>10, OthersStay

\* Every step keeps the parts about the index and about the work on it.
LEMMA WorkStep ==
  ASSUME Readable, TypeInv, TypeInv', LockInv, LockInv', IndexInv, WorkInv, [Next]_vars
  PROVE  IndexInv' /\ WorkInv'
<1>1. PlaceInv /\ PlaceInv' /\ "chunk" \notin setting.events /\ "write" \notin setting.events
  BY DEF LockInv, Readable, TypeInv
<1>2. CASE GrowStage \/ Finalize
  BY <1>2, IndexStep
<1>3. CASE UNCHANGED vars
  BY <1>3 DEF vars, index, files, mutexes, loop, visits, scan, IndexInv, WorkInv, ProdInv, WorkOf,
     ReadOf, StagedBy, Covered, Read, Chunks
<1>4. CASE Crash
  BY <1>4, DieWork DEF Crash, IndexInv, index
<1>5. ASSUME NEW u \in Updaters,
             BeginRequest(u) \/ LockForAddress(u) \/ FreshenMonitors(u) \/ VisitChunks(u) \/ Cancel(u)
      PROVE  IndexInv' /\ WorkInv'
  <2>1. WorkInv'
    BY <1>1, <1>5, AsideStep, CopyStep, ReadDirStep, StartTaskStep, SkipRestStep, VisitChunkStep,
       TakeResultStep, WriteHeaderStep, WriteAppearancesStep, ReadStageStep, MoveStep
       DEF FreshenMonitors, UpdateMonitors, VisitChunks
  <2>2. IndexInv'
    <3>1. UNCHANGED <<final, stage>>
      <4>1. CASE Unlock(u)
        BY <4>1 DEF Unlock, UnlockMutexes, index
      <4>2. CASE ~Unlock(u)
        BY <1>1, <1>5, <4>2, OnlyOfThem DEF WorkInv, OnlyOf
      <4> QED BY <4>1, <4>2
    <3> QED BY <3>1 DEF IndexInv
  <2> QED BY <2>1, <2>2
<1> QED BY <1>2, <1>3, <1>4, <1>5 DEF Next

\* A chunk that the next request will skip has nothing that the monitor lacks: for
\* any requests, as long as the mutexes exclude and every chunk and monitor file
\* can be read and written; a request may be told to skip, to stop, or be killed.
THEOREM NothingSkipped ==
  ASSUME Excluding, Readable
  PROVE  Spec => []SkippedChunksAreRead
<1>1. Init => IndexInv /\ WorkInv
  <2> SUFFICES ASSUME Init PROVE IndexInv /\ WorkInv
    OBVIOUS
  <2> USE DEF Init
  <2>1. IndexInv
    <3>1. \A e \in Ends : e \in Nat
      BY FreshenAssumption DEF Blocks
    <3> QED BY <3>1 DEF IndexInv
  <2>2. ProdInv
    <3>1. \A c \in Chunks : c.last \in Nat
      BY Basics
    <3> QED BY <3>1 DEF ProdInv, NoFile
  <2>3. ASSUME NEW u \in Updaters PROVE WorkOf(u) /\ ReadOf(u)
    <3>1. \A a \in Addrs : ~StagedBy(u, a)
      BY DEF StagedBy
    <3>2. NoUpdate.left = {} /\ NoUpdate.header = {} /\ NoUpdate.last = 0
      BY DEF NoUpdate
    <3>3. /\ pc[u] = "idle" /\ todo[u] = {} /\ tasks[u] = {} /\ results[u] = {}
          /\ update[u] = NoUpdate /\ unmoved[u] = {} /\ stage = 0 /\ \A a \in Addrs : mem[u][a] = 0
      OBVIOUS
    <3> HIDE DEF Init
    <3> QED BY <3>1, <3>2, <3>3 DEF WorkOf, ReadOf
  <2> QED BY <2>1, <2>2, <2>3 DEF WorkInv
<1>2. TypeInv /\ TypeInv' /\ LockInv /\ LockInv' /\ (IndexInv /\ WorkInv) /\ [Next]_vars
        => (IndexInv /\ WorkInv)'
  BY WorkStep
<1>3. WorkInv => SkippedChunksAreRead
  BY DEF WorkInv, ProdInv, SkippedChunksAreRead
<1> QED BY <1>1, <1>2, <1>3, Locked, PTL DEF Spec
=============================================================================
