---------------------------- MODULE Erc20_proofs ----------------------------
(***************************************************************************)
(* Proofs about Erc20Indexer, for any Safes and transfers, any number of   *)
(* processes, and windows and chunks of any size, and about Erc20Balance,  *)
(* for any Safes, flows and workers, and chunks and ranges of any size.    *)
(***************************************************************************)
EXTENDS Erc20Indexer, Erc20Balance, FiniteSetTheorems, SequenceTheorems,
        WellFoundedInduction, TLAPS

-----------------------------------------------------------------------------
(***************************************************************************)
(* The inductive invariant.                                                *)
(***************************************************************************)
Objects == Tasks \X Procs

TaskRecords ==
  [at : {"select", "load", "window", "query", "update"}, proc : Procs,
   current : Nat, known : Objects, todo : SUBSET Safes,
   addresses : SUBSET Safes, from : Nat, to : Nat]

Reindexes ==
  {Idle} \cup [at : {"sent"}, from : Nat, to : Nat] \cup
  [at : {"run"}, addresses : SUBSET Safes, next : Nat, stop : Nat]

ChainTyped ==
  /\ head \in 0 .. MaxHead /\ status \in 0 .. head + 1
  /\ rows \subseteq 0 .. head
  /\ stored \subseteq Transfers /\ \A x \in stored : x.block \in rows

SafesTyped ==
  /\ created \in [Safes -> Int] /\ since \in [Safes -> Int]
  /\ \A s \in Safes :
       /\ created[s] # NotYet => created[s] \in CreatedIn[s] .. head
       /\ since[s] # NotYet =>
            created[s] # NotYet /\ since[s] \in created[s] .. head

TaskTyped(t, r) ==
  /\ r \in TaskRecords /\ r.current <= head /\ r.to <= r.current
  /\ r.known[2] = r.proc /\ (r.at = "select" => r.known = <<t, r.proc>>)
  /\ r.todo \subseteq Committed /\ r.addresses \subseteq Committed

(* A task that goes on with the object of another one has it from the      *)
(* cache: while there is none, each task of the process has its own.       *)
CacheTyped ==
  /\ cache \in [Procs -> {NoCache} \cup [known : Objects, last : Nat]]
  /\ \A p \in Procs :
       /\ cache[p] # NoCache => cache[p].known[2] = p /\ cache[p].last <= head
       /\ cache[p] = NoCache =>
            \A t \in Tasks :
              task[t] # Idle /\ task[t].proc = p => task[t].known = <<t, p>>

Types ==
  /\ ChainTyped /\ SafesTyped /\ CacheTyped
  /\ task \in [Tasks -> {Idle} \cup TaskRecords]
  /\ \A t \in Tasks : task[t] # Idle => TaskTyped(t, task[t])
  /\ watch \in [Objects -> SUBSET Safes]
  /\ \A o \in Objects : watch[o] \subseteq Committed
  /\ limit \in [Procs -> 1 .. BlockProcessLimitMax]
  /\ reindex \in Reindexes /\ (reindex.at = "run" => reindex.stop <= head)

(* The cache knows the Safes created before the row it saw last.           *)
CacheIsComplete ==
  \A p \in Procs : cache[p] # NoCache =>
    /\ \E s \in Committed : created[s] = cache[p].last
    /\ \A s \in Committed :
         created[s] < cache[p].last => s \in watch[cache[p].known]

(* The Safes that were in the database before the block the task goes to.  *)
Needed(r) == {s \in Committed : since[s] < r.current}
AddressesOf(t, r) == IF t = Command THEN r.addresses ELSE watch[r.known]

(* What a task that loads has not got is what was created since.           *)
LoadIsComplete(r) ==
  /\ \A s \in Committed : \/ s \in r.todo \cup watch[r.known]
                          \/ \A q \in r.todo : created[q] <= created[s]
  /\ Needed(r) \subseteq r.todo \cup watch[r.known]

TaskIsComplete(t, r) ==
  /\ r.at = "load" => LoadIsComplete(r)
  /\ r.at \in {"window", "query", "update"} => Needed(r) \subseteq AddressesOf(t, r)
  /\ r.at = "update" => \A x \in Transfers :
       InTime(x) /\ x.block \in r.from .. r.to => x \in stored

Complete ==
  /\ CacheIsComplete /\ PassedIsStored
  /\ \A t \in Tasks : task[t] # Idle => TaskIsComplete(t, task[t])

IInv == Types /\ Complete

-----------------------------------------------------------------------------
(***************************************************************************)
(* Least and greatest elements.                                            *)
(***************************************************************************)
LEMMA MinIsLeast ==
  ASSUME NEW S \in SUBSET Nat, S # {}
  PROVE  Min(S) \in S /\ \A m \in S : Min(S) <= m
<1> DEFINE R == OpToRel(<, Nat)
<1>1. IsWellFoundedOn(R, Nat)
  BY NatLessThanWellFounded
<1>2. \E x \in S : \A y \in S : ~ (<<y, x>> \in R)
  <2> HIDE DEF R
  <2> QED BY <1>1, WFMin
<1>3. \E x \in S : \A y \in S : x <= y
  <2>1. R = {ss \in Nat \X Nat : ss[1] < ss[2]}
    BY Zenon DEF OpToRel
  <2> HIDE DEF R
  <2>2. ASSUME NEW x \in Nat, NEW y \in Nat, x < y PROVE <<x, y>> \in R
    BY <2>1, <2>2
  <2>3. PICK x \in S : \A y \in S : ~ (<<y, x>> \in R)
    BY <1>2
  <2>4. \A y \in S : ~ (y < x)
    BY <2>2, <2>3
  <2> QED
    BY <2>3, <2>4
<1> QED
  BY <1>3 DEF Min

LEMMA MaxIsGreatest ==
  ASSUME NEW n \in Nat, NEW S \in SUBSET (0 .. n), S # {}
  PROVE  Max(S) \in S /\ \A m \in S : m <= Max(S)
<1> DEFINE T == {n - m : m \in S}
<1>1. T \in SUBSET Nat /\ T # {}
  <2>1. \A m \in S : n - m \in Nat
    OBVIOUS
  <2>2. T \subseteq Nat
    BY <2>1
  <2>3. PICK m : m \in S
    OBVIOUS
  <2>4. n - m \in T
    BY <2>3
  <2> QED
    BY <2>2, <2>4
<1>2. PICK m \in S : n - m = Min(T)
  <2> HIDE DEF T
  <2>1. Min(T) \in T
    BY <1>1, MinIsLeast
  <2> QED
    BY <2>1 DEF T
<1>3. \A k \in S : Min(T) <= n - k
  <2>1. \A k \in S : n - k \in T
    OBVIOUS
  <2> HIDE DEF T
  <2> QED
    BY <1>1, <2>1, MinIsLeast
<1>4. \A k \in S : k <= m
  BY <1>2, <1>3
<1> QED
  BY <1>4 DEF Max

LEMMA MinMaxOfTwo ==
  ASSUME NEW a \in Int, NEW b \in Int
  PROVE  /\ Min({a, b}) = IF a <= b THEN a ELSE b
         /\ Max({a, b}) = IF a <= b THEN b ELSE a
<1>1. \E x \in {a, b} : \A y \in {a, b} : x <= y
  <2>1. CASE a <= b
    <3>1. \A y \in {a, b} : a <= y
      BY <2>1
    <3> QED
      BY <3>1
  <2>2. CASE b <= a
    <3>1. \A y \in {a, b} : b <= y
      BY <2>2
    <3> QED
      BY <3>1
  <2> QED
    BY <2>1, <2>2
<1>2. \E x \in {a, b} : \A y \in {a, b} : x >= y
  <2>1. CASE a >= b
    <3>1. \A y \in {a, b} : a >= y
      BY <2>1
    <3> QED
      BY <3>1
  <2>2. CASE b >= a
    <3>1. \A y \in {a, b} : b >= y
      BY <2>2
    <3> QED
      BY <3>1
  <2> QED
    BY <2>1, <2>2
<1>3. Min({a, b}) \in {a, b} /\ \A y \in {a, b} : Min({a, b}) <= y
  BY <1>1 DEF Min
<1>4. Max({a, b}) \in {a, b} /\ \A y \in {a, b} : Max({a, b}) >= y
  BY <1>2 DEF Max
<1> QED
  BY <1>3, <1>4

(* A chunk that has all of the rows when there is room for them.           *)
LEMMA AllOfThem ==
  ASSUME NEW S, IsFiniteSet(S), NEW n \in Nat, Cardinality(S) <= n
  PROVE  kSubset(Min({n, Cardinality(S)}), S) = {S}
<1>1. Cardinality(S) \in Nat
  BY FS_CardinalityType
<1>2. Min({n, Cardinality(S)}) = Cardinality(S)
  BY <1>1, MinMaxOfTwo
<1>3. ASSUME NEW T \in SUBSET S, Cardinality(T) = Cardinality(S) PROVE T = S
  BY <1>3, FS_Subset
<1> QED
  BY <1>2, <1>3 DEF kSubset

LEMMA InitIInv == Init => IInv
<1> SUFFICES ASSUME Init PROVE IInv
  OBVIOUS
<1> USE Erc20Type
<1>1. ChainTyped
  BY DEF Init, ChainTyped
<1>2. SafesTyped
  BY DEF Init, SafesTyped, NotYet
<1>3. cache = [p \in Procs |-> NoCache] /\ task = [t \in Tasks |-> Idle]
  BY DEF Init
<1>4. CacheTyped
  BY <1>3 DEF CacheTyped
<1>5. Types
  BY <1>1, <1>2, <1>3, <1>4 DEF Init, Types, Reindexes, Idle, Objects
<1>6. PassedIsStored
  BY DEF Init, PassedIsStored
<1>7. Complete
  BY <1>3, <1>6 DEF Complete, CacheIsComplete
<1> QED
  BY <1>5, <1>7 DEF IInv

-----------------------------------------------------------------------------
(***************************************************************************)
(* The node, and what the other indexers store.                            *)
(***************************************************************************)
LEMMA MineKeeps == IInv /\ Mine => IInv'
<1> SUFFICES ASSUME IInv, Mine PROVE IInv'
  OBVIOUS
<1> USE Erc20Type
<1>1. /\ head' = head + 1 /\ head < MaxHead
      /\ UNCHANGED <<rows, created, since, stored, status, cache, watch, limit,
                     task, reindex>>
  BY DEF Mine, safeVars
<1>2. head \in Nat /\ Types /\ Complete
  BY DEF IInv, Types, ChainTyped
<1>3. ChainTyped' /\ SafesTyped' /\ CacheTyped' /\ Committed' = Committed
  BY <1>1, <1>2 DEF Types, ChainTyped, SafesTyped, CacheTyped, Committed
<1>4. ASSUME NEW t \in Tasks, task'[t] # Idle
      PROVE  TaskTyped(t, task[t])'
  <2>1. TaskTyped(t, task[t])
    BY <1>1, <1>2, <1>4 DEF Types
  <2> QED
    BY <1>1, <1>2, <1>3, <2>1 DEF TaskTyped, TaskRecords
<1>5. Types'
  <2>1. reindex.at = "run" => reindex.stop <= head'
    BY <1>1, <1>2 DEF Types, Reindexes, Idle
  <2> QED
    BY <1>1, <1>2, <1>3, <1>4, <2>1 DEF Types
<1>6. Complete'
  BY <1>1, <1>2, <1>3
     DEF Complete, CacheIsComplete, PassedIsStored, TaskIsComplete,
         LoadIsComplete, Needed, AddressesOf, InTime
<1> QED
  BY <1>5, <1>6 DEF IInv

(* A row that is not committed is in no set yet.                           *)
LEMMA InsertSafeKeeps ==
  ASSUME IInv, NEW s \in Safes, InsertSafe(s)
  PROVE  IInv'
<1> USE Erc20Type
<1>1. /\ created[s] = NotYet /\ CreatedIn[s] <= head
      /\ created' = [created EXCEPT ![s] = head]
      /\ rows' = rows \cup {CreatedIn[s]}
      /\ UNCHANGED <<head, since, stored, status, cache, watch, limit, task,
                     reindex>>
  BY DEF InsertSafe
<1>2. head \in Nat /\ Types /\ Complete /\ CreatedIn[s] \in Nat
  BY DEF IInv, Types, ChainTyped
<1>3. /\ Committed' = Committed /\ since[s] = NotYet
      /\ \A q \in Committed : created'[q] = created[q]
  BY <1>1, <1>2 DEF Types, SafesTyped, Committed
<1>4. ChainTyped' /\ CacheTyped'
  <2>1. ChainTyped'
    <3>1. ChainTyped /\ CreatedIn[s] \in 0 .. head
      BY <1>1, <1>2 DEF Types
    <3>2. rows' \subseteq 0 .. head
      BY <1>1, <3>1 DEF ChainTyped
    <3> QED
      BY <1>1, <3>1, <3>2 DEF ChainTyped
  <2> QED
    BY <1>1, <1>2, <2>1 DEF Types, CacheTyped
<1>5. SafesTyped'
  BY <1>1, <1>2, <1>3 DEF Types, SafesTyped, NotYet
<1>6. \A t \in Tasks : task'[t] # Idle => TaskTyped(t, task[t])'
  BY <1>1, <1>2, <1>3 DEF Types, TaskTyped
<1>7. Types'
  BY <1>1, <1>2, <1>3, <1>4, <1>5, <1>6 DEF Types
<1>8. CacheIsComplete' /\ PassedIsStored'
  BY <1>1, <1>2, <1>3 DEF Complete, CacheIsComplete, PassedIsStored, InTime
<1>9. ASSUME NEW t \in Tasks, task'[t] # Idle
      PROVE  TaskIsComplete(t, task[t])'
  <2>1. TaskIsComplete(t, task[t]) /\ task[t].todo \subseteq Committed
    BY <1>1, <1>2, <1>9 DEF Complete, Types, TaskTyped
  <2>2. LoadIsComplete(task[t]) => LoadIsComplete(task[t])'
    BY <1>1, <1>3, <2>1 DEF LoadIsComplete, Needed
  <2> QED
    BY <1>1, <1>3, <2>1, <2>2 DEF TaskIsComplete, Needed, AddressesOf, InTime
<1> QED
  BY <1>7, <1>8, <1>9 DEF IInv, Complete

(* A row that is committed now was created after those committed before,   *)
(* and comes too late for every block there is.                            *)
LEMMA CommitSafeTypes ==
  ASSUME Types, NEW s \in Safes, CommitSafe(s)
  PROVE  Types' /\ Committed' = Committed \cup {s}
<1> USE Erc20Type
<1>1. /\ created[s] # NotYet /\ since[s] = NotYet
      /\ since' = [since EXCEPT ![s] = head]
      /\ UNCHANGED <<head, rows, created, stored, status, cache, watch, limit,
                     task, reindex>>
  BY DEF CommitSafe
<1>2. head \in Nat /\ head # NotYet
  BY DEF Types, ChainTyped, NotYet
<1>3. Committed' = Committed \cup {s}
  BY <1>1, <1>2 DEF Types, SafesTyped, Committed
<1>4. ChainTyped' /\ CacheTyped'
  BY <1>1 DEF Types, ChainTyped, CacheTyped
<1>5. SafesTyped'
  BY <1>1, <1>2 DEF Types, SafesTyped
<1>6. \A t \in Tasks : task'[t] # Idle => TaskTyped(t, task[t])'
  BY <1>1, <1>3 DEF Types, TaskTyped
<1> QED
  BY <1>1, <1>3, <1>4, <1>5, <1>6 DEF Types

LEMMA CommitSafeKeeps ==
  ASSUME Setting, IInv, NEW s \in Safes, CommitSafe(s)
  PROVE  IInv'
<1> USE Erc20Type
<1>1. /\ \A q \in Committed : created[q] <= created[s]
      /\ since' = [since EXCEPT ![s] = head] /\ since[s] = NotYet
      /\ UNCHANGED <<head, created, stored, status, cache, watch, task>>
  BY DEF CommitSafe, Setting
<1>2. Types /\ Complete /\ Types' /\ Committed' = Committed \cup {s} /\ s \notin Committed
  BY <1>1, CommitSafeTypes DEF IInv, Committed
<1>3. /\ head \in Nat /\ status \in Nat /\ status <= head + 1
      /\ created \in [Safes -> Int] /\ since \in [Safes -> Int]
      /\ Committed \subseteq Safes /\ since'[s] = head
      /\ \A q \in Committed : since'[q] = since[q]
  BY <1>1, <1>2 DEF Types, ChainTyped, SafesTyped, Committed
<1>4. \A x \in Transfers : x.block \in Nat /\ x.safe \in Safes
  OBVIOUS
<1>5. ASSUME NEW x \in Transfers, InTime(x)', x.block <= head
      PROVE  InTime(x)
  BY <1>2, <1>3, <1>4, <1>5 DEF InTime
<1>6. PassedIsStored'
  BY <1>1, <1>2, <1>3, <1>4, <1>5 DEF Complete, PassedIsStored
<1>7. CacheIsComplete'
  <2>1. SUFFICES ASSUME NEW p \in Procs, cache[p] # NoCache
                 PROVE  /\ \E q \in Committed' : created[q] = cache[p].last
                        /\ \A q \in Committed' :
                             created[q] < cache[p].last => q \in watch[cache[p].known]
    BY <1>1 DEF CacheIsComplete
  <2>2. PICK q \in Committed : created[q] = cache[p].last
    BY <1>2, <2>1 DEF Complete, CacheIsComplete
  <2>3. ~(created[s] < cache[p].last)
    BY <1>1, <1>3, <2>2
  <2> QED
    BY <1>2, <2>1, <2>2, <2>3 DEF Complete, CacheIsComplete
<1>8. ASSUME NEW t \in Tasks, task'[t] # Idle
      PROVE  TaskIsComplete(t, task[t])'
  <2> DEFINE r == task[t]
  <2>1. /\ TaskIsComplete(t, r) /\ TaskTyped(t, r)
        /\ r.current \in Nat /\ r.current <= head /\ r.to \in Nat /\ r.to <= head
        /\ r.from \in Nat /\ task' = task
    BY <1>1, <1>2, <1>3, <1>8 DEF Complete, Types, TaskTyped, TaskRecords
  <2>2. Needed(r)' = Needed(r)
    BY <1>2, <1>3, <2>1 DEF Needed
  <2>3. LoadIsComplete(r) => LoadIsComplete(r)'
    <3>1. \A q \in r.todo : created[q] <= created[s]
      BY <1>1, <2>1 DEF TaskTyped
    <3> QED
      BY <1>1, <1>2, <2>1, <2>2, <3>1 DEF LoadIsComplete
  <2>4. AddressesOf(t, r)' = AddressesOf(t, r)
    BY <1>1 DEF AddressesOf
  <2>5. r.at = "update" => \A x \in Transfers :
          InTime(x)' /\ x.block \in r.from .. r.to => x \in stored'
    <3>1. ASSUME NEW x \in Transfers, x.block \in r.from .. r.to
          PROVE  x.block <= head
      BY <1>3, <1>4, <2>1, <3>1
    <3>2. r.at = "update" => \A x \in Transfers :
            InTime(x) /\ x.block \in r.from .. r.to => x \in stored
      BY <2>1 DEF TaskIsComplete
    <3> HIDE DEF r
    <3> QED
      BY <1>1, <1>5, <3>1, <3>2
  <2> QED
    BY <1>1, <2>1, <2>2, <2>3, <2>4, <2>5 DEF TaskIsComplete
<1> QED
  BY <1>2, <1>6, <1>7, <1>8 DEF IInv, Complete

-----------------------------------------------------------------------------
(***************************************************************************)
(* What a step of one task has to keep.                                    *)
(***************************************************************************)
LEMMA TaskStepTypes ==
  ASSUME Types, NEW t \in Tasks, NEW r, r = Idle \/ TaskTyped(t, r),
         r # Idle /\ cache[r.proc] = NoCache => r.known = <<t, r.proc>>,
         task' = [task EXCEPT ![t] = r],
         UNCHANGED <<head, created, since, cache, watch, reindex>>,
         ChainTyped', limit' \in [Procs -> 1 .. BlockProcessLimitMax]
  PROVE  Types'
<1>1. Committed' = Committed
  BY DEF Committed
<1>2. /\ task' \in [Tasks -> {Idle} \cup TaskRecords]
      /\ task'[t] = r /\ \A u \in Tasks \ {t} : task'[u] = task[u]
  BY DEF Types, TaskTyped
<1>3. \A u \in Tasks : task'[u] # Idle => TaskTyped(u, task[u])'
  BY <1>1, <1>2 DEF Types, TaskTyped
<1>4. CacheTyped' /\ SafesTyped'
  BY <1>1, <1>2 DEF Types, CacheTyped, SafesTyped
<1> QED
  BY <1>1, <1>2, <1>3, <1>4 DEF Types

LEMMA TaskStepComplete ==
  ASSUME Types, Complete, NEW t \in Tasks, NEW r,
         r = Idle \/ TaskIsComplete(t, r)',
         task' = [task EXCEPT ![t] = r],
         UNCHANGED <<created, since, cache, watch>>,
         stored \subseteq stored', PassedIsStored'
  PROVE  Complete'
<1>1. Committed' = Committed
  BY DEF Committed
<1>2. /\ task'[t] = r /\ \A u \in Tasks \ {t} : task'[u] = task[u]
  BY DEF Types
<1>3. CacheIsComplete'
  BY <1>1 DEF Complete, CacheIsComplete
<1>4. ASSUME NEW u \in Tasks \ {t}, task'[u] # Idle
      PROVE  TaskIsComplete(u, task[u])'
  <2>1. TaskIsComplete(u, task[u]) /\ task'[u] = task[u]
    BY <1>2, <1>4 DEF Complete
  <2>2. LoadIsComplete(task[u])' = LoadIsComplete(task[u])
    BY <1>1, <2>1 DEF LoadIsComplete, Needed
  <2> QED
    BY <1>1, <2>1, <2>2 DEF TaskIsComplete, Needed, AddressesOf, InTime
<1> QED
  BY <1>2, <1>3, <1>4 DEF Complete

LEMMA SamePassed ==
  ASSUME PassedIsStored, UNCHANGED <<since, status>>, stored \subseteq stored'
  PROVE  PassedIsStored'
BY DEF PassedIsStored, InTime, Committed

LEMMA StoreTyped ==
  ASSUME Types, NEW logs \in SUBSET Transfers, \A x \in logs : x.block <= head,
         Store(logs), UNCHANGED <<head, status>>
  PROVE  ChainTyped' /\ stored \subseteq stored' /\ logs \subseteq stored'
<1>1. ChainTyped
  BY DEF Types
<1>2. \A x \in logs : x.block \in 0 .. head
  BY <1>1, Erc20Type DEF ChainTyped
<1>3. /\ stored' = stored \cup logs
      /\ rows' = rows \cup {x.block : x \in logs}
  BY DEF Store
<1> QED
  BY <1>1, <1>2, <1>3 DEF ChainTyped

LEMMA BetweenTyped ==
  ASSUME NEW from \in Nat, NEW to \in Nat, to <= head, head \in Nat, NEW S
  PROVE  /\ Between(from, to, S) \in SUBSET Transfers
         /\ \A x \in Between(from, to, S) : x.block <= head
<1>1. \A x \in Transfers : x.block \in Nat
  BY Erc20Type
<1> QED
  BY <1>1 DEF Between

-----------------------------------------------------------------------------
(***************************************************************************)
(* A task up to its first window.                                          *)
(***************************************************************************)
LEMMA StartKeeps ==
  ASSUME IInv, NEW t \in Tasks, NEW p \in Procs, Start(t, p)
  PROVE  IInv'
<1>1. PICK r : r = [at |-> "select", proc |-> p, current |-> head,
                    known |-> <<t, p>>, todo |-> {}, addresses |-> {},
                    from |-> 0, to |-> 0]
  OBVIOUS
<1>2. /\ task' = [task EXCEPT ![t] = r]
      /\ UNCHANGED <<head, rows, created, since, stored, status, cache, watch,
                     reindex>>
  BY <1>1 DEF Start, safeVars
<1>3. Types /\ Complete /\ ChainTyped /\ head \in Nat
  BY DEF IInv, Types, ChainTyped
<1>4. limit' \in [Procs -> 1 .. BlockProcessLimitMax]
  BY <1>3, Erc20Type DEF Start, Types
<1>5. TaskTyped(t, r) /\ r.at = "select" /\ r.known = <<t, r.proc>>
  BY <1>1, <1>3 DEF TaskTyped, TaskRecords, Objects
<1>6. TaskIsComplete(t, r)'
  BY <1>5 DEF TaskIsComplete
<1>7. ChainTyped' /\ PassedIsStored'
  BY <1>2, <1>3, SamePassed DEF ChainTyped, Complete
<1>8. Types'
  BY <1>2, <1>3, <1>4, <1>5, <1>7, TaskStepTypes
<1>9. Complete'
  BY <1>2, <1>3, <1>6, <1>7, TaskStepComplete
<1> QED
  BY <1>8, <1>9 DEF IInv

(* Without a cache the object that a task makes anew is used by no other.  *)
LEMMA SelectAllKeeps ==
  ASSUME IInv, NEW t \in Tasks, Select(t), cache[task[t].proc] = NoCache
  PROVE  IInv'
<1> DEFINE p == task[t].proc
<1>1. PICK r : r = IF Committed = {} THEN Idle
                   ELSE [task[t] EXCEPT !.at = "load", !.todo = Committed]
  OBVIOUS
<1>2. Types /\ Complete
  BY DEF IInv
<1>3. /\ task[t] # Idle /\ task[t].at = "select" /\ p \in Procs
      /\ task[t] \in TaskRecords /\ TaskTyped(t, task[t])
      /\ task[t].known = <<t, p>> /\ <<t, p>> \in Objects
  BY <1>2 DEF Select, Types, TaskTyped, TaskRecords, Objects
<1>4. /\ watch' = [watch EXCEPT ![<<t, p>>] = {}]
      /\ task' = [task EXCEPT ![t] = r]
      /\ UNCHANGED <<head, rows, created, since, stored, status, cache, limit,
                     reindex>>
  BY <1>1, <1>3 DEF Select, safeVars
<1>5. Committed' = Committed /\ Committed \subseteq Safes
  BY <1>4 DEF Committed
<1>6. r # Idle => /\ r \in TaskRecords /\ r.at = "load" /\ r.todo = Committed
                  /\ r.proc = p /\ r.known = <<t, p>>
                  /\ r.current = task[t].current /\ r.to = task[t].to
                  /\ r.addresses = task[t].addresses
  BY <1>1, <1>3, <1>5 DEF TaskRecords
<1>7. r = Idle \/ TaskTyped(t, r)
  BY <1>3, <1>6 DEF TaskTyped
<1>8. /\ task' \in [Tasks -> {Idle} \cup TaskRecords]
      /\ task'[t] = r /\ \A u \in Tasks \ {t} : task'[u] = task[u]
  BY <1>2, <1>4, <1>6 DEF Types
<1>9. Types'
  <2>1. \A u \in Tasks : task'[u] # Idle => TaskTyped(u, task[u])'
    BY <1>2, <1>4, <1>5, <1>7, <1>8 DEF Types, TaskTyped
  <2>2. CacheTyped' /\ SafesTyped' /\ ChainTyped'
    BY <1>2, <1>4, <1>6, <1>8 DEF Types, CacheTyped, SafesTyped, ChainTyped
  <2>3. /\ watch' \in [Objects -> SUBSET Safes]
        /\ \A o \in Objects : watch'[o] \subseteq Committed
    BY <1>2, <1>3, <1>4 DEF Types
  <2> QED
    BY <1>2, <1>4, <1>5, <1>8, <2>1, <2>2, <2>3 DEF Types
<1>10. CacheIsComplete'
  <2>1. SUFFICES ASSUME NEW q \in Procs, cache[q] # NoCache
                 PROVE  watch'[cache[q].known] = watch[cache[q].known]
    BY <1>2, <1>4, <1>5 DEF Complete, CacheIsComplete
  <2>2. cache[q].known \in Objects /\ cache[q].known[2] = q /\ q # p
    BY <1>2, <2>1 DEF Types, CacheTyped
  <2> QED
    BY <1>2, <1>4, <2>2 DEF Types
<1>11. ASSUME NEW u \in Tasks, task'[u] # Idle
       PROVE  TaskIsComplete(u, task[u])'
  <2>1. CASE u = t
    <3>1. task'[u] = r /\ r.at = "load" /\ r.todo = Committed
      BY <1>6, <1>8, <1>11, <2>1
    <3> QED
      BY <1>4, <1>5, <3>1 DEF TaskIsComplete, LoadIsComplete, Needed
  <2>2. CASE u # t
    <3>1. /\ task'[u] = task[u] /\ TaskIsComplete(u, task[u])
          /\ TaskTyped(u, task[u])
      BY <1>2, <1>8, <1>11, <2>2 DEF Complete, Types
    <3>2. task[u].known \in Objects /\ task[u].known # <<t, p>>
      <4>1. task[u].known \in Objects /\ task[u].known[2] = task[u].proc
        BY <3>1 DEF TaskTyped, TaskRecords
      <4>2. CASE task[u].proc = p
        BY <1>2, <1>3, <1>11, <2>2, <3>1, <4>1, <4>2 DEF Types, CacheTyped
      <4>3. CASE task[u].proc # p
        BY <4>1, <4>3
      <4> QED
        BY <4>2, <4>3
    <3>3. watch'[task[u].known] = watch[task[u].known]
      BY <1>2, <1>4, <3>2 DEF Types
    <3> QED
      BY <1>4, <1>5, <3>1, <3>3
         DEF TaskIsComplete, LoadIsComplete, Needed, AddressesOf, InTime
  <2> QED
    BY <2>1, <2>2
<1>12. PassedIsStored'
  BY <1>2, <1>4, SamePassed DEF Complete
<1> QED
  BY <1>9, <1>10, <1>11, <1>12 DEF IInv, Complete

LEMMA SelectNewKeeps ==
  ASSUME IInv, NEW t \in Tasks, Select(t), cache[task[t].proc] # NoCache
  PROVE  IInv'
<1> DEFINE p == task[t].proc
           c == cache[p]
<1>1. PICK r : r = [task[t] EXCEPT !.at = "load", !.known = c.known,
                                   !.todo = NewRows(c.last)]
  OBVIOUS
<1>2. Types /\ Complete /\ CacheIsComplete /\ ChainTyped
  BY DEF IInv, Types, Complete
<1>3. /\ task[t] # Idle /\ p \in Procs
      /\ task[t] \in TaskRecords /\ TaskTyped(t, task[t])
      /\ c.known \in Objects /\ c.known[2] = p /\ c.last \in Nat
  BY <1>2 DEF Select, Types, TaskTyped, TaskRecords, CacheTyped
<1>4. /\ task' = [task EXCEPT ![t] = r]
      /\ UNCHANGED <<head, rows, created, since, stored, status, cache, watch,
                     limit, reindex>>
  BY <1>1 DEF Select, safeVars
<1>5. Committed \subseteq Safes /\ NewRows(c.last) \subseteq Committed
  BY DEF Committed, NewRows
<1>6. /\ r \in TaskRecords /\ r.at = "load" /\ r.todo = NewRows(c.last)
      /\ r.proc = p /\ r.known = c.known /\ r.known[2] = p
      /\ r.current = task[t].current /\ r.to = task[t].to
      /\ r.addresses = task[t].addresses
  <2> HIDE DEF c
  <2>1. NewRows(c.last) \in SUBSET Safes
    BY <1>5
  <2> QED
    BY <1>1, <1>3, <2>1 DEF TaskRecords
<1>7. TaskTyped(t, r)
  BY <1>3, <1>5, <1>6 DEF TaskTyped
<1>8. \A s \in Committed :
        s \in NewRows(c.last) \/ (created[s] < c.last /\ s \in watch[c.known])
  <2>1. \A s \in Committed : created[s] \in Int
    BY <1>2 DEF Types, SafesTyped, Committed
  <2> QED
    BY <1>2, <1>3, <2>1 DEF NewRows, CacheIsComplete
<1>9. TaskIsComplete(t, r)'
  <2>1. LoadIsComplete(r)
    BY <1>6, <1>8 DEF LoadIsComplete, Needed
  <2>2. LoadIsComplete(r)'
    BY <1>4, <2>1 DEF LoadIsComplete, Needed, Committed
  <2> QED
    BY <1>6, <2>2 DEF TaskIsComplete
<1>10. ChainTyped' /\ PassedIsStored'
  BY <1>2, <1>4, SamePassed DEF Complete, ChainTyped
<1>11. Types'
  BY <1>2, <1>4, <1>6, <1>7, <1>10, TaskStepTypes DEF Types
<1>12. Complete'
  BY <1>2, <1>4, <1>9, <1>10, TaskStepComplete
<1> QED
  BY <1>11, <1>12 DEF IInv

(* What a chunk of rows makes of the task: the rest of the rows are left,  *)
(* or it has what it needs.                                                *)
AfterChunk(t, r, chunk) ==
  IF chunk = r.todo THEN Loaded(t, r, watch[r.known] \cup chunk)
  ELSE {[r EXCEPT !.todo = @ \ chunk]}

LEMMA NextOfLoadTyped ==
  ASSUME Types, NEW t \in Tasks, task[t] # Idle, task[t].at = "load",
         NEW chunk \in SUBSET task[t].todo,
         NEW next \in AfterChunk(t, task[t], chunk)
  PROVE  next # Idle /\ TaskTyped(t, next)
<1> DEFINE r == task[t]
           found == watch[r.known] \cup chunk
<1>1. /\ r \in TaskRecords /\ TaskTyped(t, r) /\ r.known \in Objects
      /\ r.proc \in Procs /\ <<t, r.proc>> \in Objects
      /\ Committed \subseteq Safes
  BY DEF Types, TaskTyped, TaskRecords, Objects, Committed
<1>2. found \subseteq Committed
  BY <1>1 DEF Types, TaskTyped
<1>3. CASE chunk # r.todo
  <2>1. /\ next = [r EXCEPT !.todo = r.todo \ chunk]
        /\ r.todo \ chunk \in SUBSET Safes
    BY <1>1, <1>3 DEF TaskRecords, AfterChunk
  <2>2. /\ next \in TaskRecords /\ next.todo = r.todo \ chunk /\ next.at = r.at
        /\ next.known = r.known /\ next.proc = r.proc /\ next.to = r.to
        /\ next.current = r.current /\ next.addresses = r.addresses
    BY <1>1, <2>1 DEF TaskRecords
  <2>3. next # Idle
    BY <2>2 DEF Idle
  <2> QED
    BY <1>1, <1>3, <2>2, <2>3 DEF TaskTyped
<1>4. CASE chunk = r.todo
  <2>1. PICK some \in SUBSET found :
          next = [r EXCEPT !.at = "window", !.todo = {},
                           !.known = IF t = Command THEN <<t, r.proc>> ELSE @,
                           !.addresses = some]
    BY <1>4 DEF Loaded, AfterChunk, kSubset
  <2>2. some \in SUBSET Safes
    BY <1>1, <1>2, <2>1
  <2> HIDE DEF found
  <2>3. /\ next \in TaskRecords /\ next.todo = {} /\ next.at = "window"
        /\ next.known = (IF t = Command THEN <<t, r.proc>> ELSE r.known)
        /\ next.proc = r.proc /\ next.to = r.to
        /\ next.current = r.current /\ next.addresses = some
    BY <1>1, <2>1, <2>2 DEF TaskRecords
  <2>4. next # Idle
    BY <2>3 DEF Idle
  <2>5. some \subseteq Committed
    BY <1>2, <2>1
  <2> QED
    BY <1>1, <1>4, <2>3, <2>4, <2>5 DEF TaskTyped, found
<1> QED
  BY <1>3, <1>4

LEMMA NextOfLoadFields ==
  ASSUME Types, NEW t \in Tasks, task[t] # Idle, task[t].at = "load",
         NEW chunk \in SUBSET task[t].todo,
         NEW next \in AfterChunk(t, task[t], chunk)
  PROVE  /\ next.proc = task[t].proc /\ next.current = task[t].current
         /\ next.known \in {task[t].known, <<t, task[t].proc>>}
         /\ (chunk # task[t].todo \/ t # Command => next.known = task[t].known)
         /\ IF chunk = task[t].todo THEN next.at = "window"
            ELSE next.at = "load" /\ next.todo = task[t].todo \ chunk
<1> DEFINE r == task[t]
<1>1. r \in TaskRecords
  BY DEF Types, TaskTyped
<1>2. CASE chunk # r.todo
  <2>1. next = [r EXCEPT !.todo = r.todo \ chunk]
    BY <1>2 DEF AfterChunk
  <2> QED
    BY <1>1, <1>2, <2>1 DEF TaskRecords
<1>3. CASE chunk = r.todo
  <2>1. PICK some :
          next = [r EXCEPT !.at = "window", !.todo = {},
                           !.known = IF t = Command THEN <<t, r.proc>> ELSE @,
                           !.addresses = some]
    BY <1>3 DEF Loaded, AfterChunk
  <2>2. /\ next.at = "window" /\ next.proc = r.proc /\ next.current = r.current
        /\ next.known = (IF t = Command THEN <<t, r.proc>> ELSE r.known)
    BY <1>1, <2>1 DEF TaskRecords
  <2> QED
    BY <1>3, <2>2
<1> QED
  BY <1>2, <1>3

(* The command has room for all of them.                                   *)
LEMMA NextOfLoadAll ==
  ASSUME Setting, Types, task[Command] # Idle, task[Command].at = "load",
         NEW next \in AfterChunk(Command, task[Command], task[Command].todo)
  PROVE  next.addresses = watch[task[Command].known] \cup task[Command].todo
<1> DEFINE r == task[Command]
           found == watch[r.known] \cup r.todo
<1>1. r \in TaskRecords /\ r.known \in Objects /\ found \in SUBSET Safes
  BY DEF Types, TaskTyped, TaskRecords, Committed, Tasks
<1>2. kSubset(Min({NumberOfAddresses, Cardinality(found)}), found) = {found}
  <2> HIDE DEF found
  <2>1. IsFiniteSet(Safes) /\ Cardinality(Safes) <= NumberOfAddresses
    BY DEF Setting
  <2>2. IsFiniteSet(found) /\ Cardinality(found) <= Cardinality(Safes)
    BY <1>1, <2>1, FS_Subset
  <2>3. Cardinality(found) <= NumberOfAddresses /\ NumberOfAddresses \in Nat
    BY <2>1, <2>2, FS_CardinalityType, Erc20Type
  <2> QED
    BY <2>2, <2>3, AllOfThem
<1>3. next = [r EXCEPT !.at = "window", !.todo = {},
                       !.known = <<Command, r.proc>>, !.addresses = found]
  BY <1>2 DEF Loaded, AfterChunk
<1> QED
  BY <1>1, <1>3 DEF TaskRecords

(* The times of a chunk, which are the earliest of the rows to load.       *)
LEMMA TimesOfChunk ==
  ASSUME Types, NEW chunk \in SUBSET Committed, chunk # {}
  PROVE  LET times == {created[s] : s \in chunk} IN
         /\ Min(times) \in times /\ \A m \in times : Min(times) <= m
         /\ Max(times) \in times /\ \A m \in times : m <= Max(times)
         /\ times \subseteq 0 .. head
<1> DEFINE times == {created[s] : s \in chunk}
<1>1. head \in Nat
  BY Erc20Type DEF Types, ChainTyped
<1>2. \A s \in Committed : created[s] \in 0 .. head
  BY <1>1, Erc20Type DEF Types, SafesTyped, Committed
<1>3. times \in SUBSET (0 .. head) /\ times # {} /\ times \in SUBSET Nat
  BY <1>1, <1>2
<1> HIDE DEF times
<1>4. /\ Min(times) \in times /\ \A m \in times : Min(times) <= m
      /\ Max(times) \in times /\ \A m \in times : m <= Max(times)
  BY <1>1, <1>3, MinIsLeast, MaxIsGreatest
<1> QED
  BY <1>3, <1>4 DEF times

LEMMA LoadRowsKeeps ==
  ASSUME Setting, IInv, NEW t \in Tasks, LoadRows(t)
  PROVE  IInv'
<1> DEFINE r == task[t]
           times(chunk) == {created[s] : s \in chunk}
           lastOf(chunk) == IF chunk = r.todo THEN Max(times(chunk)) ELSE Min(times(chunk))
<1>1. /\ Types /\ Complete /\ r # Idle /\ r.at = "load"
      /\ TaskTyped(t, r) /\ LoadIsComplete(r)
      /\ UNCHANGED <<head, rows, created, since, stored, status, limit, reindex>>
  BY DEF IInv, LoadRows, safeVars, Types, Complete, TaskIsComplete
<1>0. PICK chunk \in SUBSET r.todo : \E next :
        /\ next \in AfterChunk(t, r, chunk)
        /\ \A s \in r.todo \ chunk : created[s] >= Max(times(chunk))
        /\ watch' = [watch EXCEPT ![r.known] = watch[r.known] \cup chunk]
        /\ cache' = IF chunk = {} THEN cache ELSE [cache EXCEPT ![r.proc] =
                      [known |-> r.known, last |-> lastOf(chunk)]]
        /\ task' = [task EXCEPT ![t] = next]
  BY DEF LoadRows, kSubset, AfterChunk
<1>2. PICK next :
        /\ next \in AfterChunk(t, r, chunk)
        /\ \A s \in r.todo \ chunk : created[s] >= Max(times(chunk))
        /\ watch' = [watch EXCEPT ![r.known] = watch[r.known] \cup chunk]
        /\ cache' = IF chunk = {} THEN cache ELSE [cache EXCEPT ![r.proc] =
                      [known |-> r.known, last |-> lastOf(chunk)]]
        /\ task' = [task EXCEPT ![t] = next]
  BY <1>0
<1>3. /\ r.known \in Objects /\ r.proc \in Procs /\ r.known[2] = r.proc
      /\ r.todo \subseteq Committed /\ Committed \subseteq Safes
  BY <1>1 DEF TaskTyped, TaskRecords, Committed
<1>4. /\ TaskTyped(t, next) /\ next # Idle
      /\ next.proc = r.proc /\ next.current = r.current
      /\ next.known = r.known \/ next.known = <<t, r.proc>>
      /\ chunk # r.todo =>
           next.at = "load" /\ next.todo = r.todo \ chunk /\ next.known = r.known
      /\ chunk = r.todo =>
           /\ next.at = "window" /\ (t # Command => next.known = r.known)
           /\ t = Command => next.addresses = watch[r.known] \cup chunk
  <2>1. /\ Types /\ r # Idle /\ r.at = "load"
        /\ chunk \in SUBSET r.todo /\ next \in AfterChunk(t, r, chunk)
    BY <1>1, <1>2
  <2>2. TaskTyped(t, next) /\ next # Idle
    BY <2>1, NextOfLoadTyped
  <2>3. /\ next.proc = r.proc /\ next.current = r.current
        /\ next.known \in {r.known, <<t, r.proc>>}
        /\ (chunk # r.todo \/ t # Command => next.known = r.known)
        /\ IF chunk = r.todo THEN next.at = "window"
           ELSE next.at = "load" /\ next.todo = r.todo \ chunk
    BY <2>1, NextOfLoadFields
  <2>4. chunk = r.todo /\ t = Command => next.addresses = watch[r.known] \cup chunk
    BY <2>1, NextOfLoadAll
  <2> QED
    BY <2>2, <2>3, <2>4
<1> DEFINE last == lastOf(chunk)
<1>5. /\ chunk # {} =>
           /\ last \in 0 .. head /\ (\E s \in chunk : created[s] = last)
           /\ \A s \in r.todo : created[s] < last => s \in chunk
           /\ \E s \in r.todo : last <= created[s]
  <2>1. SUFFICES ASSUME chunk # {} PROVE
           /\ last \in 0 .. head /\ (\E s \in chunk : created[s] = last)
           /\ \A s \in r.todo : created[s] < last => s \in chunk
           /\ \E s \in r.todo : last <= created[s]
    OBVIOUS
  <2>2. chunk \in SUBSET Committed
    BY <1>2, <1>3
  <2> DEFINE T == times(chunk)
  <2>3. /\ Min(T) \in T /\ \A m \in T : Min(T) <= m
        /\ Max(T) \in T /\ \A m \in T : m <= Max(T)
        /\ T \subseteq 0 .. head
    BY <1>1, <2>1, <2>2, TimesOfChunk
  <2>4. last \in T /\ last <= Max(T) /\ last \in 0 .. head
    BY <2>3
  <2>5. \A s \in r.todo \ chunk : created[s] >= Max(T)
    BY <1>2
  <2>6. \A s \in Committed : created[s] \in Int
    BY <1>1 DEF Types, SafesTyped, Committed
  <2>7. PICK s \in chunk : created[s] = last
    BY <2>4
  <2>8. Max(T) \in Int /\ last \in Int
    BY <2>3, <2>4
  <2> HIDE DEF T, last
  <2>9. \A q \in r.todo : created[q] < last => q \in chunk
    BY <1>3, <2>4, <2>5, <2>6, <2>8
  <2> QED
    BY <1>2, <2>4, <2>7, <2>8, <2>9
<1> HIDE DEF last, times, lastOf
<1>6. /\ Committed' = Committed
      /\ watch' \in [Objects -> SUBSET Safes]
      /\ watch'[r.known] = watch[r.known] \cup chunk
      /\ \A o \in Objects : watch[o] \subseteq watch'[o] /\ watch'[o] \subseteq Committed
  BY <1>1, <1>2, <1>3 DEF Types, Committed
<1>7. /\ task' \in [Tasks -> {Idle} \cup TaskRecords]
      /\ task'[t] = next /\ \A u \in Tasks \ {t} : task'[u] = task[u]
  BY <1>1, <1>2, <1>4 DEF Types, TaskTyped
<1>8. /\ chunk = {} => cache' = cache
      /\ chunk # {} => /\ cache'[r.proc].known = r.known
                       /\ cache'[r.proc].last = last /\ cache'[r.proc] # NoCache
      /\ \A p \in Procs \ {r.proc} : cache'[p] = cache[p]
      /\ cache' \in [Procs -> {NoCache} \cup [known : Objects, last : Nat]]
  <2>1. CASE chunk = {}
    BY <1>1, <1>2, <2>1 DEF Types, CacheTyped
  <2>2. CASE chunk # {}
    <3> DEFINE n == [known |-> r.known, last |-> last]
    <3>1. n.last # NotYet /\ n \in [known : Objects, last : Nat]
      BY <1>3, <1>5, <2>2, Erc20Type DEF NotYet
    <3>2. n # NoCache
      BY <3>1 DEF NoCache
    <3>3. cache' = [cache EXCEPT ![r.proc] = n]
      BY <1>2, <2>2 DEF last
    <3>4. cache \in [Procs -> {NoCache} \cup [known : Objects, last : Nat]]
      BY <1>1 DEF Types, CacheTyped
    <3>5. n.known = r.known /\ n.last = last
      OBVIOUS
    <3> HIDE DEF n
    <3> QED
      BY <1>3, <2>2, <3>1, <3>2, <3>3, <3>4, <3>5
  <2> QED
    BY <2>1, <2>2
<1>9. Types'
  <2>1. \A u \in Tasks : task'[u] # Idle => TaskTyped(u, task[u])'
    BY <1>1, <1>4, <1>6, <1>7 DEF Types, TaskTyped
  <2>2. SafesTyped' /\ ChainTyped'
    BY <1>1 DEF Types, SafesTyped, ChainTyped
  <2>3. CacheTyped'
    <3>1. SUFFICES ASSUME NEW p \in Procs
                   PROVE  /\ cache'[p] # NoCache =>
                               cache'[p].known[2] = p /\ cache'[p].last <= head
                          /\ cache'[p] = NoCache => \A u \in Tasks :
                               task'[u] # Idle /\ task'[u].proc = p =>
                                 task'[u].known = <<u, p>>
      BY <1>1, <1>8 DEF CacheTyped
    <3>2. CASE p = r.proc /\ chunk # {}
      BY <1>3, <1>5, <1>8, <3>2
    <3>3. CASE ~(p = r.proc /\ chunk # {})
      <4>1. cache'[p] = cache[p]
        BY <1>8, <3>3
      <4>2. cache[p] = NoCache => \A u \in Tasks :
              task[u] # Idle /\ task[u].proc = p => task[u].known = <<u, p>>
        BY <1>1 DEF Types, CacheTyped
      <4>3. cache[p] # NoCache => cache[p].known[2] = p /\ cache[p].last <= head
        BY <1>1 DEF Types, CacheTyped
      <4> QED
        BY <1>1, <1>4, <1>7, <4>1, <4>2, <4>3
    <3> QED
      BY <3>2, <3>3
  <2> QED
    BY <1>1, <1>6, <1>7, <2>1, <2>2, <2>3 DEF Types
<1>10. CacheIsComplete'
  <2>1. SUFFICES ASSUME NEW p \in Procs, cache'[p] # NoCache
                 PROVE  /\ \E s \in Committed : created[s] = cache'[p].last
                        /\ \A s \in Committed :
                             created[s] < cache'[p].last => s \in watch'[cache'[p].known]
    BY <1>1, <1>6 DEF CacheIsComplete
  <2>2. CASE p = r.proc /\ chunk # {}
    <3>1. cache'[p].last = last /\ cache'[p].known = r.known
      BY <1>8, <2>2
    <3>2. ASSUME NEW s \in Committed, created[s] < last
          PROVE  s \in watch'[r.known]
      <4>1. PICK q \in r.todo : last <= created[q]
        BY <1>5, <2>2
      <4>2. created[q] \in Int /\ created[s] \in Int /\ last \in Int
        BY <1>1, <1>3, <1>5, <2>2, <4>1, Erc20Type
           DEF Types, SafesTyped, ChainTyped, Committed
      <4>3. s \in r.todo \cup watch[r.known]
        BY <1>1, <3>2, <4>1, <4>2 DEF LoadIsComplete
      <4> QED
        BY <1>5, <1>6, <2>2, <3>2, <4>3
    <3> QED
      BY <1>2, <1>3, <1>5, <2>2, <3>1, <3>2
  <2>3. CASE ~(p = r.proc /\ chunk # {})
    <3>1. cache'[p] = cache[p] /\ cache[p].known \in Objects
      BY <1>1, <1>8, <2>1, <2>3 DEF Types, CacheTyped
    <3> QED
      BY <1>1, <1>6, <2>1, <3>1 DEF Complete, CacheIsComplete
  <2> QED
    BY <2>2, <2>3
<1>11. ASSUME NEW u \in Tasks, task'[u] # Idle
       PROVE  TaskIsComplete(u, task[u])'
  <2>1. CASE u # t
    <3>1. task'[u] = task[u] /\ TaskIsComplete(u, task[u]) /\ task[u].known \in Objects
      BY <1>1, <1>7, <1>11, <2>1 DEF Complete, Types, TaskRecords
    <3>2. watch[task[u].known] \subseteq watch'[task[u].known]
      BY <1>6, <3>1
    <3> QED
      BY <1>1, <1>6, <3>1, <3>2
         DEF TaskIsComplete, LoadIsComplete, Needed, AddressesOf, InTime
  <2>2. CASE u = t /\ chunk = r.todo
    <3>1. task'[u] = next /\ next.at = "window"
      BY <1>4, <1>7, <2>2
    <3>2. Needed(next)' = Needed(r)
      BY <1>1, <1>4, <1>6 DEF Needed
    <3>3. AddressesOf(t, next)' = watch[r.known] \cup chunk
      BY <1>4, <1>6, <2>2 DEF AddressesOf
    <3>4. Needed(r) \subseteq watch[r.known] \cup chunk
      BY <1>1, <2>2 DEF LoadIsComplete
    <3>5. (next.at \in {"window", "query", "update"} =>
             Needed(next) \subseteq AddressesOf(t, next))'
      BY <3>2, <3>3, <3>4
    <3> QED
      BY <2>2, <3>1, <3>5 DEF TaskIsComplete
  <2>3. CASE u = t /\ chunk # r.todo
    <3>1. /\ task'[u] = next /\ next.at = "load"
          /\ next.todo = r.todo \ chunk /\ next.known = r.known
      BY <1>4, <1>7, <2>3
    <3>2. Needed(next)' = Needed(r)
      BY <1>1, <1>4, <1>6 DEF Needed
    <3>3. next.todo \cup watch'[next.known] = r.todo \cup watch[r.known]
      BY <1>2, <1>6, <3>1
    <3>4. LoadIsComplete(next)'
      BY <1>1, <1>6, <3>1, <3>2, <3>3 DEF LoadIsComplete
    <3> QED
      BY <3>1, <3>4 DEF TaskIsComplete
  <2> QED
    BY <2>1, <2>2, <2>3
<1>12. PassedIsStored'
  BY <1>1, SamePassed DEF Complete
<1> QED
  BY <1>9, <1>10, <1>11, <1>12 DEF IInv, Complete

-----------------------------------------------------------------------------
(***************************************************************************)
(* The windows of a task.                                                  *)
(***************************************************************************)
LEMMA BusyTask ==
  ASSUME IInv, NEW t \in Tasks, task[t] # Idle
  PROVE  /\ Types /\ Complete /\ ChainTyped /\ PassedIsStored
         /\ TaskTyped(t, task[t]) /\ TaskIsComplete(t, task[t])
         /\ task[t] \in TaskRecords
         /\ head \in Nat /\ status \in Nat /\ limit[task[t].proc] \in Nat \ {0}
         /\ (cache[task[t].proc] = NoCache => task[t].known = <<t, task[t].proc>>)
BY Erc20Type DEF IInv, Types, Complete, ChainTyped, CacheTyped, TaskTyped, TaskRecords

LEMMA GetBlockNumbersForSearchKeeps ==
  ASSUME IInv, NEW t \in Tasks, GetBlockNumbersForSearch(t)
  PROVE  IInv'
<1> USE Erc20Type
<1> DEFINE size == limit[task[t].proc]
           to == ToBlock(task[t].current, status, size)
           again == IF status + size > task[t].current
                    THEN Min({size - (to - status + 1), BlocksToReindexAgain})
                    ELSE 0
           from == Max({status - again, 0})
<1>1. /\ task[t] # Idle /\ task[t].at = "window"
      /\ UNCHANGED <<head, rows, created, since, stored, status, cache, watch,
                     limit, reindex>>
  BY DEF GetBlockNumbersForSearch, safeVars
<1>2. /\ Types /\ Complete /\ ChainTyped /\ PassedIsStored
      /\ TaskTyped(t, task[t]) /\ TaskIsComplete(t, task[t])
      /\ task[t] \in TaskRecords
      /\ head \in Nat /\ status \in Nat /\ size \in Nat \ {0}
      /\ (cache[task[t].proc] = NoCache => task[t].known = <<t, task[t].proc>>)
  BY <1>1, BusyTask
<1>3. PICK r : r = IF NothingNew(task[t].current, status) THEN Idle
                   ELSE [task[t] EXCEPT !.at = "query", !.from = from, !.to = to]
  OBVIOUS
<1>4. task' = [task EXCEPT ![t] = r]
  <2>1. CASE NothingNew(task[t].current, status)
    BY <1>3, <2>1 DEF GetBlockNumbersForSearch
  <2>2. CASE ~NothingNew(task[t].current, status)
    <3>1. task' = [task EXCEPT ![t].at = "query", ![t].from = from, ![t].to = to]
      BY <2>2 DEF GetBlockNumbersForSearch
    <3> HIDE DEF from, to
    <3>2. task \in [Tasks -> {Idle} \cup TaskRecords]
      BY <1>2 DEF Types
    <3> QED
      BY <1>3, <2>2, <3>1, <3>2
  <2> QED
    BY <2>1, <2>2
<1>5. r # Idle => /\ from \in Nat /\ to \in Nat /\ to <= task[t].current
  <2>1. SUFFICES ASSUME ~NothingNew(task[t].current, status)
                 PROVE  from \in Nat /\ to \in Nat /\ to <= task[t].current
    BY <1>3
  <2>2. task[t].current \in Nat /\ status <= task[t].current
    BY <1>2, <2>1 DEF NothingNew, TaskRecords
  <2>3. to = IF status + size - 1 <= task[t].current THEN status + size - 1
             ELSE task[t].current
    BY <1>2, <2>2, MinMaxOfTwo DEF ToBlock
  <2>4. to \in Nat /\ to <= task[t].current
    BY <1>2, <2>2, <2>3
  <2>5. again \in Int
    <3> HIDE DEF size, to
    <3>1. size - (to - status + 1) \in Int
      BY <1>2, <2>4
    <3> QED
      BY <3>1, MinMaxOfTwo
  <2>6. status - again \in Int
    BY <1>2, <2>5
  <2> HIDE DEF again, to
  <2>7. \A x \in Int : Max({x, 0}) = IF x <= 0 THEN 0 ELSE x
    <3>1. 0 \in Int
      OBVIOUS
    <3> QED
      BY <3>1, MinMaxOfTwo, Zenon
  <2>8. from \in Nat
    BY <2>6, <2>7
  <2> QED
    BY <2>4, <2>8
<1> HIDE DEF from, to
<1>6. r # Idle => /\ r \in TaskRecords /\ r.at = "query" /\ r.from = from /\ r.to = to
                  /\ r.proc = task[t].proc /\ r.known = task[t].known
                  /\ r.current = task[t].current /\ r.todo = task[t].todo
                  /\ r.addresses = task[t].addresses
  BY <1>2, <1>3, <1>5 DEF TaskRecords
<1>7. r = Idle \/ TaskTyped(t, r)
  BY <1>2, <1>5, <1>6 DEF TaskTyped
<1>8. r = Idle \/ TaskIsComplete(t, r)'
  <2>1. SUFFICES ASSUME r # Idle PROVE TaskIsComplete(t, r)'
    OBVIOUS
  <2>2. Needed(task[t]) \subseteq AddressesOf(t, task[t])
    BY <1>1, <1>2 DEF TaskIsComplete
  <2>3. Needed(r)' \subseteq AddressesOf(t, r)'
    BY <1>1, <1>6, <2>1, <2>2 DEF Needed, AddressesOf, Committed
  <2> QED
    BY <1>6, <2>1, <2>3 DEF TaskIsComplete
<1>9. ChainTyped' /\ PassedIsStored'
  BY <1>1, <1>2, SamePassed DEF ChainTyped
<1>10. Types'
  BY <1>1, <1>2, <1>4, <1>6, <1>7, <1>9, TaskStepTypes DEF Types
<1>11. Complete'
  BY <1>1, <1>2, <1>4, <1>8, <1>9, TaskStepComplete
<1> QED
  BY <1>10, <1>11 DEF IInv

LEMMA AdjustedTyped ==
  ASSUME NEW size \in 1 .. BlockProcessLimitMax
  PROVE  Adjusted(size) \subseteq 1 .. BlockProcessLimitMax
<1> USE Erc20Type
<1>1. size \div 2 \in Int /\ size \div 2 <= size /\ size - 20 \in Int
  OBVIOUS
<1>6. \A x \in Int : Max({x, 1}) = IF x <= 1 THEN 1 ELSE x
  <2>1. 1 \in Int
    OBVIOUS
  <2> QED
    BY <2>1, MinMaxOfTwo, Zenon
<1>2. Max({size \div 2, 1}) \in 1 .. BlockProcessLimitMax
  BY <1>1, <1>6
<1>3. Max({size - 20, 1}) \in 1 .. BlockProcessLimitMax
  BY <1>1, <1>6
<1>4. \A n \in Nat \ {0} : Min({n, BlockProcessLimitMax}) \in 1 .. BlockProcessLimitMax
  BY MinMaxOfTwo
<1>5. size * 2 \in Nat \ {0} /\ size + 20 \in Nat \ {0}
  OBVIOUS
<1> QED
  BY <1>2, <1>3, <1>4, <1>5 DEF Adjusted

(* The answer has what every Safe of the set transferred in the window.    *)
LEMMA ProcessElementsKeeps ==
  ASSUME IInv, NEW t \in Tasks, ProcessElements(t)
  PROVE  IInv'
<1> USE Erc20Type
<1> DEFINE size == limit[task[t].proc]
<1>1. /\ task[t] # Idle /\ task[t].at = "query"
      /\ UNCHANGED <<head, created, since, status, cache, watch, reindex>>
  BY DEF ProcessElements, safeVars
<1>2. /\ Types /\ Complete /\ ChainTyped /\ PassedIsStored
      /\ TaskTyped(t, task[t]) /\ TaskIsComplete(t, task[t])
      /\ task[t] \in TaskRecords
      /\ head \in Nat /\ status \in Nat /\ size \in Nat \ {0}
      /\ (cache[task[t].proc] = NoCache => task[t].known = <<t, task[t].proc>>)
  BY <1>1, BusyTask
<1> DEFINE logs == Between(task[t].from, task[t].to, Addresses(t))
<1>3. PICK r : r = [task[t] EXCEPT !.at = "update"]
  OBVIOUS
<1>4. task' = [task EXCEPT ![t] = r]
  <2>1. task' = [task EXCEPT ![t].at = "update"]
    BY DEF ProcessElements
  <2> QED
    BY <1>3, <2>1
<1>5. /\ r \in TaskRecords /\ r.at = "update" /\ r.from = task[t].from
      /\ r.to = task[t].to
      /\ r.proc = task[t].proc /\ r.known = task[t].known
      /\ r.current = task[t].current /\ r.todo = task[t].todo
      /\ r.addresses = task[t].addresses
  BY <1>2, <1>3 DEF TaskRecords
<1>6. TaskTyped(t, r)
  BY <1>2, <1>5 DEF TaskTyped
<1>7. ChainTyped' /\ stored \subseteq stored' /\ logs \subseteq stored'
  <2>1. /\ task[t].from \in Nat /\ task[t].to \in Nat /\ task[t].to <= head
    BY <1>2 DEF TaskRecords, TaskTyped
  <2>2. logs \in SUBSET Transfers /\ \A x \in logs : x.block <= head
    BY <1>2, <2>1, BetweenTyped
  <2>3. Store(logs)
    BY DEF ProcessElements
  <2> HIDE DEF logs
  <2> QED
    BY <1>1, <1>2, <2>2, <2>3, StoreTyped
<1>8. TaskIsComplete(t, r)'
  <2>1. Needed(task[t]) \subseteq AddressesOf(t, task[t])
    BY <1>1, <1>2 DEF TaskIsComplete
  <2>2. Needed(r)' \subseteq AddressesOf(t, r)'
    BY <1>1, <1>5, <2>1 DEF Needed, AddressesOf, Committed
  <2>3. AddressesOf(t, task[t]) = Addresses(t)
    BY DEF AddressesOf, Addresses
  <2>4. ASSUME NEW x \in Transfers, InTime(x)', x.block \in r.from .. r.to
        PROVE  x \in stored'
    <3>1. x.safe \in Committed /\ since[x.safe] < x.block /\ x.block \in Nat
          /\ x.safe \in Safes
      BY <1>1, <2>4 DEF InTime, Committed
    <3>2. since[x.safe] \in Int /\ r.to \in Nat /\ task[t].current \in Nat
          /\ r.to <= task[t].current /\ r.from \in Nat
      BY <1>2, <1>5, <3>1 DEF Types, SafesTyped, TaskTyped, TaskRecords
    <3>3. x.safe \in Needed(task[t])
      BY <2>4, <3>1, <3>2 DEF Needed
    <3>4. x \in logs
      BY <1>5, <2>1, <2>3, <2>4, <3>3 DEF Between
    <3> QED
      BY <1>7, <3>4
  <2> QED
    BY <1>5, <2>2, <2>4 DEF TaskIsComplete
<1>9. limit' \in [Procs -> 1 .. BlockProcessLimitMax]
  <2>1. limit \in [Procs -> 1 .. BlockProcessLimitMax] /\ task[t].proc \in Procs
    BY <1>2 DEF Types, TaskRecords
  <2>2. PICK n \in Adjusted(size) \cup {size} : limit' = [limit EXCEPT ![task[t].proc] = n]
    BY DEF ProcessElements
  <2>3. n \in 1 .. BlockProcessLimitMax
    BY <2>1, <2>2, AdjustedTyped
  <2> QED
    BY <2>1, <2>2, <2>3
<1> HIDE DEF logs
<1>10. PassedIsStored'
  BY <1>1, <1>2, <1>7, SamePassed
<1>11. Types'
  BY <1>1, <1>2, <1>4, <1>5, <1>6, <1>7, <1>9, TaskStepTypes
<1>12. Complete'
  BY <1>1, <1>2, <1>4, <1>7, <1>8, <1>10, TaskStepComplete
<1> QED
  BY <1>11, <1>12 DEF IInv

(* Every block up to the end of the window was passed before or is in it.  *)
LEMMA UpdateMonitoredAddressesKeeps ==
  ASSUME IInv, NEW t \in Tasks, UpdateMonitoredAddresses(t)
  PROVE  IInv'
<1> USE Erc20Type
<1>1. /\ task[t] # Idle /\ task[t].at = "update"
      /\ UNCHANGED <<head, rows, created, since, stored, cache, watch, limit,
                     reindex>>
  BY DEF UpdateMonitoredAddresses, safeVars
<1>2. /\ Types /\ Complete /\ ChainTyped /\ PassedIsStored
      /\ TaskTyped(t, task[t]) /\ TaskIsComplete(t, task[t])
      /\ task[t] \in TaskRecords
      /\ head \in Nat /\ status \in Nat
      /\ (cache[task[t].proc] = NoCache => task[t].known = <<t, task[t].proc>>)
  BY <1>1, BusyTask
<1>3. PICK r : r = IF status >= task[t].from /\ task[t].to # task[t].current
                   THEN [task[t] EXCEPT !.at = "window", !.from = 0, !.to = 0]
                   ELSE Idle
  OBVIOUS
<1>4. /\ task' = [task EXCEPT ![t] = r]
      /\ status' = IF status >= task[t].from THEN task[t].to + 1 ELSE status
  BY <1>3 DEF UpdateMonitoredAddresses
<1>5. r # Idle => /\ r \in TaskRecords /\ r.at = "window" /\ r.to = 0
                  /\ r.proc = task[t].proc /\ r.known = task[t].known
                  /\ r.current = task[t].current /\ r.todo = task[t].todo
                  /\ r.addresses = task[t].addresses
  BY <1>2, <1>3 DEF TaskRecords
<1>6. r = Idle \/ TaskTyped(t, r)
  BY <1>2, <1>5 DEF TaskTyped, TaskRecords
<1>7. r = Idle \/ TaskIsComplete(t, r)'
  <2>1. SUFFICES ASSUME r # Idle PROVE TaskIsComplete(t, r)'
    OBVIOUS
  <2>2. Needed(task[t]) \subseteq AddressesOf(t, task[t])
    BY <1>1, <1>2 DEF TaskIsComplete
  <2>3. Needed(r)' \subseteq AddressesOf(t, r)'
    BY <1>1, <1>5, <2>1, <2>2 DEF Needed, AddressesOf, Committed
  <2> QED
    BY <1>5, <2>1, <2>3 DEF TaskIsComplete
<1>8. /\ task[t].from \in Nat /\ task[t].to \in Nat /\ task[t].to <= head
  BY <1>2 DEF TaskRecords, TaskTyped
<1>9. ChainTyped'
  BY <1>1, <1>2, <1>4, <1>8 DEF ChainTyped
<1>10. PassedIsStored'
  <2>1. SUFFICES ASSUME NEW x \in Transfers, InTime(x), x.block < status'
                 PROVE  x \in stored
    BY <1>1 DEF PassedIsStored, InTime, Committed
  <2>2. x.block \in Nat
    OBVIOUS
  <2>3. CASE x.block < status
    BY <1>2, <2>1, <2>3 DEF PassedIsStored
  <2>4. CASE ~(x.block < status)
    <3>1. status >= task[t].from /\ status' = task[t].to + 1
      BY <1>4, <2>1, <2>4
    <3>2. x.block \in task[t].from .. task[t].to
      BY <1>2, <1>8, <2>1, <2>2, <2>4, <3>1
    <3> QED
      BY <1>1, <1>2, <2>1, <3>2 DEF TaskIsComplete
  <2> QED
    BY <2>3, <2>4
<1>11. Types'
  BY <1>1, <1>2, <1>4, <1>5, <1>6, <1>9, TaskStepTypes DEF Types
<1>12. Complete'
  BY <1>1, <1>2, <1>4, <1>7, <1>10, TaskStepComplete
<1> QED
  BY <1>11, <1>12 DEF IInv

-----------------------------------------------------------------------------
(***************************************************************************)
(* Failures: what is lost is the task, and with a process its cache.       *)
(***************************************************************************)
LEMMA NodeFailsKeeps ==
  ASSUME IInv, NEW t \in Tasks, NodeFails(t)
  PROVE  IInv'
<1> USE Erc20Type
<1>1. /\ task[t] # Idle /\ task[t].at = "query"
      /\ limit' = [limit EXCEPT ![task[t].proc] = 1]
      /\ UNCHANGED <<head, rows, created, since, stored, status, cache, watch,
                     reindex>>
  BY DEF NodeFails, safeVars
<1>2. /\ Types /\ Complete /\ ChainTyped /\ PassedIsStored
      /\ TaskTyped(t, task[t]) /\ TaskIsComplete(t, task[t])
      /\ task[t] \in TaskRecords
      /\ (cache[task[t].proc] = NoCache => task[t].known = <<t, task[t].proc>>)
  BY <1>1, BusyTask
<1>3. PICK r : r = IF t = Command
                   THEN [task[t] EXCEPT !.at = "window", !.from = 0, !.to = 0]
                   ELSE Idle
  OBVIOUS
<1>4. task' = [task EXCEPT ![t] = r]
  BY <1>3 DEF NodeFails
<1>5. r # Idle => /\ r \in TaskRecords /\ r.at = "window" /\ r.to = 0
                  /\ r.proc = task[t].proc /\ r.known = task[t].known
                  /\ r.current = task[t].current /\ r.todo = task[t].todo
                  /\ r.addresses = task[t].addresses
  BY <1>2, <1>3 DEF TaskRecords
<1>6. r = Idle \/ TaskTyped(t, r)
  BY <1>2, <1>5 DEF TaskTyped, TaskRecords
<1>7. r = Idle \/ TaskIsComplete(t, r)'
  <2>1. SUFFICES ASSUME r # Idle PROVE TaskIsComplete(t, r)'
    OBVIOUS
  <2>2. Needed(task[t]) \subseteq AddressesOf(t, task[t])
    BY <1>1, <1>2 DEF TaskIsComplete
  <2>3. Needed(r)' \subseteq AddressesOf(t, r)'
    BY <1>1, <1>5, <2>1, <2>2 DEF Needed, AddressesOf, Committed
  <2> QED
    BY <1>5, <2>1, <2>3 DEF TaskIsComplete
<1>8. limit' \in [Procs -> 1 .. BlockProcessLimitMax]
  <2>1. /\ limit \in [Procs -> 1 .. BlockProcessLimitMax]
        /\ task[t].proc \in Procs
    BY <1>2 DEF Types, TaskRecords
  <2>2. 1 \in 1 .. BlockProcessLimitMax
    BY <2>1
  <2> QED
    BY <1>1, <2>1, <2>2
<1>9. ChainTyped' /\ PassedIsStored'
  BY <1>1, <1>2, SamePassed DEF ChainTyped
<1>10. Types'
  BY <1>1, <1>2, <1>4, <1>5, <1>6, <1>8, <1>9, TaskStepTypes
<1>11. Complete'
  BY <1>1, <1>2, <1>4, <1>7, <1>9, TaskStepComplete
<1> QED
  BY <1>10, <1>11 DEF IInv

LEMMA TaskFailsKeeps ==
  ASSUME IInv, NEW t \in Tasks, TaskFails(t)
  PROVE  IInv'
<1> USE Erc20Type
<1> DEFINE asked == task[t].at = "query"
           logs == IF asked
                   THEN Between(task[t].from, task[t].to, Addresses(t)) ELSE {}
<1>1. /\ task[t] # Idle /\ task' = [task EXCEPT ![t] = Idle]
      /\ UNCHANGED <<head, created, since, status, cache, watch, reindex>>
  BY DEF TaskFails, safeVars
<1>2. /\ Types /\ Complete /\ ChainTyped /\ PassedIsStored
      /\ TaskTyped(t, task[t]) /\ task[t] \in TaskRecords /\ head \in Nat
  BY <1>1, BusyTask
<1>3. PICK some \in SUBSET logs : Store(some)
  BY DEF TaskFails
<1>4. ChainTyped' /\ stored \subseteq stored'
  <2>1. task[t].from \in Nat /\ task[t].to \in Nat /\ task[t].to <= head
    BY <1>2 DEF TaskRecords, TaskTyped
  <2>2. logs \in SUBSET Transfers /\ \A x \in logs : x.block <= head
    BY <1>2, <2>1, BetweenTyped
  <2> HIDE DEF logs
  <2> QED
    BY <1>1, <1>2, <1>3, <2>2, StoreTyped
<1>5. limit' \in [Procs -> 1 .. BlockProcessLimitMax]
  <2>1. /\ limit \in [Procs -> 1 .. BlockProcessLimitMax]
        /\ task[t].proc \in Procs
    BY <1>2 DEF Types, TaskRecords
  <2>2. PICK n \in {limit[task[t].proc], 1} : limit' = [limit EXCEPT ![task[t].proc] = n]
    BY DEF TaskFails
  <2>3. n \in 1 .. BlockProcessLimitMax
    BY <2>1, <2>2
  <2> QED
    BY <2>1, <2>2, <2>3
<1> HIDE DEF logs
<1>6. PassedIsStored'
  BY <1>1, <1>2, <1>4, SamePassed
<1>7. Types'
  BY <1>1, <1>2, <1>4, <1>5, TaskStepTypes
<1>8. Complete'
  BY <1>1, <1>2, <1>4, <1>6, TaskStepComplete
<1> QED
  BY <1>7, <1>8 DEF IInv

LEMMA CrashKeeps ==
  ASSUME IInv, NEW p \in Procs, Crash(p)
  PROVE  IInv'
<1> USE Erc20Type
<1>1. /\ cache' = [cache EXCEPT ![p] = NoCache]
      /\ task' = [t \in Tasks |->
           IF task[t] # Idle /\ task[t].proc = p THEN Idle ELSE task[t]]
      /\ UNCHANGED <<head, rows, created, since, stored, status, watch, reindex>>
  BY DEF Crash, safeVars
<1>2. Types /\ Complete
  BY DEF IInv
<1>3. Committed' = Committed
  BY <1>1 DEF Committed
<1>4. \A t \in Tasks : task'[t] # Idle => task'[t] = task[t] /\ task[t].proc # p
  BY <1>1
<1>5. /\ task' \in [Tasks -> {Idle} \cup TaskRecords]
      /\ \A t \in Tasks : task'[t] # Idle => TaskTyped(t, task[t])'
  BY <1>1, <1>2, <1>3, <1>4 DEF Types, TaskTyped
<1>6. /\ cache' \in [Procs -> {NoCache} \cup [known : Objects, last : Nat]]
      /\ cache'[p] = NoCache /\ \A q \in Procs \ {p} : cache'[q] = cache[q]
  BY <1>1, <1>2 DEF Types, CacheTyped
<1>7. CacheTyped'
  BY <1>1, <1>2, <1>4, <1>6 DEF Types, CacheTyped
<1>8. limit' \in [Procs -> 1 .. BlockProcessLimitMax]
  <2>1. PICK n \in Limits : limit' = [limit EXCEPT ![p] = n]
    BY DEF Crash
  <2> QED
    BY <1>2, <2>1 DEF Types
<1>9. Types'
  BY <1>1, <1>2, <1>3, <1>5, <1>7, <1>8 DEF Types, ChainTyped, SafesTyped
<1>10. CacheIsComplete' /\ PassedIsStored'
  BY <1>1, <1>2, <1>3, <1>6
     DEF Complete, CacheIsComplete, PassedIsStored, InTime
<1>11. ASSUME NEW t \in Tasks, task'[t] # Idle
       PROVE  TaskIsComplete(t, task[t])'
  <2>1. TaskIsComplete(t, task[t]) /\ task'[t] = task[t]
    BY <1>2, <1>4, <1>11 DEF Complete
  <2>2. LoadIsComplete(task[t])' = LoadIsComplete(task[t])
    BY <1>1, <1>3, <2>1 DEF LoadIsComplete, Needed
  <2> QED
    BY <1>1, <1>3, <2>1, <2>2 DEF TaskIsComplete, Needed, AddressesOf, InTime
<1> QED
  BY <1>9, <1>10, <1>11 DEF IInv, Complete

-----------------------------------------------------------------------------
(***************************************************************************)
(* The repetition of the last hours, which only adds transfers.            *)
(***************************************************************************)
LEMMA ReindexStepKeeps ==
  ASSUME IInv,
         UNCHANGED <<head, created, since, status, cache, watch, limit, task>>,
         ChainTyped', stored \subseteq stored',
         reindex' \in Reindexes, (reindex.at = "run" => reindex.stop <= head)'
  PROVE  IInv'
<1>1. Committed' = Committed /\ Types /\ Complete
  BY DEF Committed, IInv
<1>2. SafesTyped' /\ CacheTyped'
  BY <1>1 DEF Types, SafesTyped, CacheTyped
<1>3. \A t \in Tasks : task'[t] # Idle => TaskTyped(t, task[t])'
  BY <1>1 DEF Types, TaskTyped
<1>4. Types'
  BY <1>1, <1>2, <1>3 DEF Types
<1>5. CacheIsComplete' /\ PassedIsStored'
  BY <1>1, SamePassed DEF Complete, CacheIsComplete
<1>6. ASSUME NEW t \in Tasks, task'[t] # Idle
      PROVE  TaskIsComplete(t, task[t])'
  <2>1. TaskIsComplete(t, task[t])
    BY <1>1, <1>6 DEF Complete
  <2>2. LoadIsComplete(task[t])' = LoadIsComplete(task[t])
    BY <1>1 DEF LoadIsComplete, Needed
  <2> QED
    BY <1>1, <2>1, <2>2 DEF TaskIsComplete, Needed, AddressesOf, InTime
<1> QED
  BY <1>4, <1>5, <1>6 DEF IInv, Complete

LEMMA ReindexKeeps ==
  ASSUME IInv,
         ReindexLastHours \/ StartReindex \/ ReindexWindow \/ ReindexFails
  PROVE  IInv'
<1> USE Erc20Type
<1>1. /\ Types /\ ChainTyped /\ head \in Nat /\ rows \in SUBSET (0 .. head)
      /\ reindex \in Reindexes /\ (reindex.at = "run" => reindex.stop <= head)
      /\ Committed \in SUBSET Safes
  BY DEF IInv, Types, ChainTyped, Committed
<1>2. CASE ReindexLastHours
  <2>1. OldRows \in SUBSET (0 .. head) /\ OldRows # {} /\ rows # {}
    BY <1>1, <1>2 DEF ReindexLastHours, OldRows
  <2>2. Max(OldRows) \in Nat /\ Max(rows) \in Nat
    <3>1. Max(OldRows) \in OldRows
      BY <1>1, <2>1, MaxIsGreatest
    <3>2. Max(rows) \in rows
      BY <1>1, <2>1, MaxIsGreatest
    <3>3. OldRows \subseteq Nat /\ rows \subseteq Nat
      BY <1>1, <2>1
    <3> QED
      BY <3>1, <3>2, <3>3, Zenon
  <2>3. reindex' \in Reindexes /\ reindex'.at = "sent"
    BY <1>2, <2>2 DEF ReindexLastHours, Reindexes
  <2>4. ChainTyped' /\ UNCHANGED <<head, created, since, stored, status, cache,
                                   watch, limit, task>>
    BY <1>1, <1>2 DEF ReindexLastHours, ChainTyped, safeVars
  <2> QED
    BY <2>3, <2>4, ReindexStepKeeps
<1>3. CASE StartReindex
  <2>1. reindex \in [at : {"sent"}, from : Nat, to : Nat]
    BY <1>1, <1>3 DEF StartReindex, Reindexes, Idle
  <2>2. Min({head, reindex.to}) = IF head <= reindex.to THEN head ELSE reindex.to
    BY <1>1, <2>1, MinMaxOfTwo
  <2>3. Min({head, reindex.to}) \in Nat /\ Min({head, reindex.to}) <= head
    BY <1>1, <2>1, <2>2
  <2>4. /\ reindex' \in Reindexes
        /\ reindex'.at = "run" => reindex'.stop <= head
    BY <1>1, <1>3, <2>1, <2>3 DEF StartReindex, Reindexes, Idle
  <2>5. ChainTyped' /\ UNCHANGED <<head, created, since, stored, status, cache,
                                   watch, limit, task>>
    BY <1>1, <1>3 DEF StartReindex, ChainTyped, safeVars
  <2> QED
    BY <2>4, <2>5, ReindexStepKeeps
<1>4. CASE ReindexWindow
  <2> DEFINE to == Min({reindex.next + ReindexLimit - 1, reindex.stop})
             logs == Between(reindex.next, to, reindex.addresses)
  <2>1. reindex \in [at : {"run"}, addresses : SUBSET Safes, next : Nat, stop : Nat]
    BY <1>1, <1>4 DEF ReindexWindow, Reindexes, Idle
  <2>2. reindex.next + ReindexLimit - 1 \in Int /\ reindex.next + ReindexLimit - 1 >= 0
    BY <2>1
  <2>3. to = IF reindex.next + ReindexLimit - 1 <= reindex.stop
             THEN reindex.next + ReindexLimit - 1 ELSE reindex.stop
    BY <2>1, <2>2, MinMaxOfTwo
  <2>4. reindex.stop <= head
    BY <1>1, <1>4 DEF ReindexWindow
  <2>5. to \in Nat /\ to <= head
    BY <1>1, <2>1, <2>2, <2>3, <2>4
  <2> HIDE DEF to
  <2>6. logs \in SUBSET Transfers /\ \A x \in logs : x.block <= head
    BY <1>1, <2>1, <2>5, BetweenTyped
  <2>7. /\ Store(logs)
        /\ reindex' = IF to = reindex.stop THEN Idle
                      ELSE [reindex EXCEPT !.next = to + 1]
        /\ UNCHANGED <<head, created, since, status, cache, watch, limit, task>>
    BY <1>4 DEF ReindexWindow, safeVars, to
  <2> HIDE DEF logs
  <2>8. ChainTyped' /\ stored \subseteq stored'
    BY <1>1, <2>6, <2>7, StoreTyped
  <2>9. reindex' \in Reindexes /\ (reindex'.at = "run" => reindex'.stop <= head)
    BY <2>1, <2>4, <2>5, <2>7 DEF Reindexes, Idle
  <2> QED
    BY <2>7, <2>8, <2>9, ReindexStepKeeps
<1>5. CASE ReindexFails
  <2>1. /\ reindex' \in Reindexes /\ reindex'.at # "run" /\ ChainTyped'
        /\ UNCHANGED <<head, created, since, stored, status, cache, watch, limit,
                       task>>
    BY <1>1, <1>5 DEF ReindexFails, Reindexes, Idle, ChainTyped, safeVars
  <2> QED
    BY <2>1, ReindexStepKeeps
<1> QED
  BY <1>2, <1>3, <1>4, <1>5

-----------------------------------------------------------------------------
LEMMA NextKeeps == Setting /\ IInv /\ [Next]_vars => IInv'
<1> SUFFICES ASSUME Setting, IInv, [Next]_vars PROVE IInv'
  OBVIOUS
<1>1. CASE Mine
  BY <1>1, MineKeeps
<1>2. ASSUME NEW s \in Safes, InsertSafe(s) \/ CommitSafe(s) PROVE IInv'
  BY <1>2, InsertSafeKeeps, CommitSafeKeeps
<1>3. ASSUME NEW t \in Tasks, NEW p \in Procs, Start(t, p) PROVE IInv'
  BY <1>3, StartKeeps
<1>4. ASSUME NEW t \in Tasks, Step(t) PROVE IInv'
  <2>1. CASE Select(t)
    BY <2>1, SelectAllKeeps, SelectNewKeeps
  <2>2. CASE ~Select(t)
    BY <1>4, <2>2, LoadRowsKeeps, GetBlockNumbersForSearchKeeps,
       ProcessElementsKeeps, UpdateMonitoredAddressesKeeps DEF Step
  <2> QED
    BY <2>1, <2>2
<1>5. ASSUME NEW t \in Tasks, NodeFails(t) \/ TaskFails(t) PROVE IInv'
  BY <1>5, NodeFailsKeeps, TaskFailsKeeps
<1>6. ASSUME NEW p \in Procs, Crash(p) PROVE IInv'
  BY <1>6, CrashKeeps
<1>7. CASE ReindexLastHours \/ StartReindex \/ ReindexWindow \/ ReindexFails
  BY <1>7, ReindexKeeps
<1>8. CASE UNCHANGED vars
  <2>1. /\ UNCHANGED <<head, rows, created, since, stored, status, cache, watch,
                       limit, task, reindex>>
    BY <1>8 DEF vars, safeVars
  <2>2. /\ reindex' \in Reindexes /\ (reindex.at = "run" => reindex.stop <= head)'
        /\ ChainTyped'
    BY <2>1 DEF IInv, Types, ChainTyped
  <2> QED
    BY <2>1, <2>2, ReindexStepKeeps
<1> QED
  BY <1>1, <1>2, <1>3, <1>4, <1>5, <1>6, <1>7, <1>8 DEF Next

(* What the indexer keeps has the types the code gives it: addresses and   *)
(* tasks name only Safes that are committed, windows end at the block read *)
(* at the start, and every transfer has the row of its block.              *)
THEOREM TypeCorrect == ASSUME Setting PROVE Spec => []TypeOK
<1>1. IInv => TypeOK
  <2> SUFFICES ASSUME IInv PROVE TypeOK
    OBVIOUS
  <2> USE Erc20Type
  <2>1. Types /\ ChainTyped /\ SafesTyped /\ CacheTyped
    BY DEF IInv, Types
  <2>2. \A s \in Committed : created[s] \in CreatedIn[s] .. since[s]
    <3>1. SUFFICES ASSUME NEW s \in Committed
                   PROVE  created[s] \in CreatedIn[s] .. since[s]
      OBVIOUS
    <3>2. s \in Safes /\ since[s] # NotYet
      BY DEF Committed
    <3>3. /\ created[s] \in CreatedIn[s] .. head
          /\ since[s] \in created[s] .. head
      BY <2>1, <3>2 DEF SafesTyped
    <3> QED
      BY <3>2, <3>3
  <2>3. \A p \in Procs : cache[p] # NoCache =>
          watch[cache[p].known] \subseteq Committed /\ cache[p].last \in 0 .. head
    BY <2>1 DEF Types, CacheTyped, ChainTyped
  <2>4. ASSUME NEW t \in Tasks, task[t] # Idle
        PROVE  /\ task[t].at \in {"select", "load", "window", "query", "update"}
               /\ task[t].current <= head /\ task[t].to <= task[t].current
               /\ task[t].todo \cup Addresses(t) \subseteq Committed
    BY <2>1, <2>4 DEF Types, TaskTyped, TaskRecords, Addresses
  <2>5. reindex.at \in {"idle", "sent", "run"}
    BY <2>1 DEF Types, Reindexes, Idle
  <2> QED
    BY <2>1, <2>2, <2>3, <2>4, <2>5 DEF Types, ChainTyped, TypeOK
<1> QED
  BY <1>1, InitIInv, NextKeeps, PTL DEF Spec

(* No block is passed with a transfer of a Safe missing that was in the    *)
(* database before the block was mined.                                    *)
THEOREM PassedBlocksAreStored == ASSUME Setting PROVE Spec => []PassedIsStored
<1>1. IInv => PassedIsStored
  BY DEF IInv, Complete
<1> QED
  BY <1>1, InitIInv, NextKeeps, PTL DEF Spec

-----------------------------------------------------------------------------
(***************************************************************************)
(* The rollup of balances: types.                                          *)
(***************************************************************************)
Phases == {"chunks", "whales", "finish"}

Copies ==
  [state : {"running", "failed", "finished"}, phase : Phases \cup {"done"},
   seq : Nat, size : ChunkFloor .. ChunkSize, range : RangeFloor .. RangeSize,
   fresh : BOOLEAN]

Manifest == {m \in Copies : m.state = "running" => m.phase # "done"}

Messages(n) == [run : 1 .. n, phase : Phases, seq : Nat]

(* The tasks of the chain when there are n manifests: a slice works in the *)
(* phase of its message, on a copy of a manifest that was running.         *)
SliceTasks(n) ==
  {c \in [at : Phases \cup {"advance", "shrink", "failed", "finished"},
          run : 1 .. n, m : Copies, msg : Messages(n), done : Nat] :
     /\ c.msg.run = c.run /\ c.m.state = "running"
     /\ c.at # "finished" => c.m.phase # "done"
     /\ c.at \in Phases => c.msg.phase = c.at}

Sights(n) ==
  {c \in [at : {"seen"}, run : 1 .. n, m : Manifest] : c.m.state = "running"}

WorldTypes ==
  /\ headBlock \in Block /\ safes \in SUBSET AllSafes
  /\ settled \in 0 .. MaxSafe /\ 1 .. settled \subseteq safes

BoundTypes == faults \in Nat /\ delays \in Nat /\ commands \in Nat

PairTypes ==
  /\ pair \in [DOMAIN pair -> Int] /\ DOMAIN pair \subseteq safes
  /\ watermark \in 0 .. headBlock /\ marker \in 0 .. settled

ProgressTypes ==
  /\ progress \in [head : 0 .. headBlock, cursor : 0 .. settled]
  /\ progress.head = 0 => progress = NoProgress
  /\ boundary \in {NoBoundary} \cup 0 .. settled
  /\ walked \in 0 .. headBlock /\ whales \subseteq safes

LockTypes ==
  /\ lock \in {"free", "dead", "nightly"} \cup Workers
  /\ lock = "nightly" <=> nightly # AtRest
  /\ \A w \in Workers : lock = w <=> slice[w].at \in Phases

RunTypes == runs \in Seq(Manifest)

QueueTypes == IsABag(queue) /\ DOMAIN queue \subseteq Messages(Len(runs))

SliceTypes == slice \in [Workers -> {AtRest} \cup SliceTasks(Len(runs))]

NightlyTypes ==
  /\ nightly \in {AtRest} \cup
       [at : {"seed", "delta"}, head : Block, from : Block,
        new : SUBSET AllSafes, bound : Nat]
  /\ nightly # AtRest =>
       /\ nightly.new \subseteq safes /\ nightly.bound \in 0 .. settled
       /\ nightly.head <= headBlock /\ nightly.from <= nightly.head

WatchdogTypes == watchdog \in {AtRest} \cup Sights(Len(runs))

RollupTypes ==
  /\ WorldTypes /\ BoundTypes /\ PairTypes /\ ProgressTypes /\ LockTypes
  /\ RunTypes /\ QueueTypes /\ SliceTypes /\ NightlyTypes /\ WatchdogTypes

-----------------------------------------------------------------------------
(***************************************************************************)
(* The rollup of balances: what there is besides types.                    *)
(***************************************************************************)
Acts(w) == slice[w] # AtRest
IsRunning(r) == runs[r].state = "running"

(* Before there is a watermark the rows are those of the backfill: none,   *)
(* when there is no progress; else those of the Safes up to the cursor, as *)
(* of one block, and those of the whales, as of the block walked so far.   *)
RowsOfNothing ==
  /\ progress = NoProgress <=> boundary = NoBoundary
  /\ watermark # 0 => progress = NoProgress
  /\ progress = NoProgress => walked = 0
  /\ progress = NoProgress /\ watermark = 0 => DOMAIN pair = {}

RowOfBackfill(s) ==
  /\ s \in whales => Value(s) = Balance(s, walked)
  /\ s \notin whales /\ s <= progress.cursor =>
       Value(s) = Balance(s, progress.head)
  /\ s \notin whales /\ s > progress.cursor => s \notin DOMAIN pair

RowsOfBackfill ==
  progress # NoProgress =>
    /\ progress.cursor <= boundary /\ walked <= progress.head
    /\ walked = 0 \/ progress.cursor = boundary
    /\ \A s \in DOMAIN pair : s <= boundary
    /\ \A s \in 1 .. boundary : RowOfBackfill(s)

(* Afterwards every Safe up to the marker has its balance as of the        *)
(* watermark, and so has every row; no row is out of reach of the next     *)
(* nightly task.                                                           *)
RowsOfRollup ==
  watermark # 0 =>
    /\ \A s \in DOMAIN pair : s <= settled /\ s <= marker + MaxSeed
    /\ \A s \in DOMAIN pair \cup 1 .. marker : Value(s) = Balance(s, watermark)
    /\ holders = {s \in 1 .. marker : Balance(s, watermark) > 0}

NightlyIsRight ==
  nightly # AtRest =>
    /\ watermark # 0 /\ nightly.from = watermark
    /\ marker <= nightly.bound /\ nightly.bound <= marker + MaxSeed
    /\ nightly.new = marker + 1 .. nightly.bound
    /\ \A s \in DOMAIN pair : s <= nightly.bound
    /\ nightly.at = "delta" =>
         \A s \in 1 .. nightly.bound : Value(s) = Balance(s, watermark)

RightRows == RowsOfNothing /\ RowsOfBackfill /\ RowsOfRollup /\ NightlyIsRight

(* There is one slice at a time, of the last run; the watchdog looks at    *)
(* that run, not while a slice works and never after the watermark.        *)
OneSlice == \A v, w \in Workers : Acts(v) /\ Acts(w) => v = w
SliceOfLatest ==
  \A w \in Workers : Acts(w) => slice[w].run = Len(runs) /\ IsRunning(Len(runs))
OnlyTheLatestRuns == \A r \in 1 .. Len(runs) : IsRunning(r) => r = Len(runs)
WatchdogIsAlone ==
  watchdog # AtRest =>
    /\ watchdog.run = Len(runs) /\ watermark = 0 /\ lock \notin Workers
FinishedIsOver ==
  \A w \in Workers : slice[w].at = "finished" => watermark # 0

Chain ==
  /\ OneSlice /\ SliceOfLatest /\ OnlyTheLatestRuns /\ WatchdogIsAlone
  /\ FinishedIsOver

(* No message, slice, manifest or copy is ahead of the rows.               *)
Fits(phase) ==
  \/ phase = "chunks"
  \/ /\ progress # NoProgress /\ progress.cursor = boundary
     /\ \/ phase = "whales"
        \/ walked = progress.head
        \/ \A s \in whales : s > boundary

Ahead ==
  watermark = 0 /\ Running =>
    /\ Fits(Latest.phase)
    /\ \A e \in DOMAIN queue : e.run = Len(runs) => Fits(e.phase)
    /\ \A w \in Workers :
         Acts(w) => Fits(slice[w].msg.phase) /\ Fits(slice[w].m.phase)
    /\ watchdog # AtRest => Fits(watchdog.m.phase)

(* Without delays there is one message or slice that counts, and it has    *)
(* the phase of the manifest; what goes stale is dead.                     *)
QueueIsPunctual ==
  Running => \A e \in DOMAIN queue : e.run = Len(runs) =>
    e.seq <= Latest.seq /\ (e.seq = Latest.seq => e.phase = Latest.phase)

SliceIsPunctual ==
  \A w \in Workers : Acts(w) =>
    /\ slice[w].m.seq = Latest.seq /\ slice[w].msg.seq = Latest.seq
    /\ slice[w].msg.phase = Latest.phase
    /\ slice[w].at \in Phases \cup {"shrink"} => slice[w].m.phase = Latest.phase
    /\ slice[w].at \in {"shrink", "advance"} => Latest.phase # "finish"
    /\ slice[w].at = "finished" => Latest.phase = "finish"

StaleIsDead == Running /\ ~Latest.fresh => ~Live(Len(runs))

WatchdogIsPunctual ==
  watchdog # AtRest => Running /\ ~Latest.fresh /\ watchdog.m = Latest

NoDelay ==
  delays = 0 =>
    /\ QueueIsPunctual /\ SliceIsPunctual /\ StaleIsDead /\ WatchdogIsPunctual
    /\ watermark # 0 /\ Running => Latest.phase = "finish"

(* Without faults and commands there is one run, and it ends with the      *)
(* watermark.                                                              *)
NoFault ==
  faults = 0 /\ commands = 0 =>
    /\ Len(runs) <= 1
    /\ \A w \in Workers : slice[w].at \notin {"shrink", "failed"}
    /\ watermark = 0 => \A r \in 1 .. Len(runs) : IsRunning(r)
    /\ watermark # 0 /\ Running => \E w \in Workers : slice[w].at = "finished"

RollupInv ==
  /\ RollupTypes /\ RightRows /\ Chain /\ Ahead /\ NoDelay /\ NoFault
  /\ delays = 0 \/ (faults = 0 /\ commands = 0)

-----------------------------------------------------------------------------
(***************************************************************************)
(* Pages and values.                                                       *)
(***************************************************************************)

(* The first n of the Safes after one and up to another.                   *)
LEMMA FirstOfRange ==
  ASSUME NEW a \in Nat, NEW b \in Nat, a <= b, NEW n \in Nat
  PROVE  FirstOf(a + 1 .. b, n) = a + 1 .. (IF b <= a + n THEN b ELSE a + n)
<1>1. ASSUME NEW s \in a + 1 .. b
      PROVE  Cardinality({t \in a + 1 .. b : t <= s}) = s - a
  <2>1. {t \in a + 1 .. b : t <= s} = a + 1 .. s
    OBVIOUS
  <2>2. Cardinality(a + 1 .. s) = s - a
    BY FS_Interval
  <2> QED BY <2>1, <2>2
<1>2. FirstOf(a + 1 .. b, n) = {s \in a + 1 .. b : s - a <= n}
  BY <1>1 DEF FirstOf
<1>3. \A s \in a + 1 .. b :
        s - a <= n <=> s \in a + 1 .. (IF b <= a + n THEN b ELSE a + n)
  OBVIOUS
<1>4. \A s \in a + 1 .. (IF b <= a + n THEN b ELSE a + n) : s \in a + 1 .. b
  OBVIOUS
<1> QED BY <1>2, <1>3, <1>4, Zenon

LEMMA MaxOfRange ==
  ASSUME NEW a \in Nat, NEW b \in Nat, a < b
  PROVE  Max(a + 1 .. b) = b
<1>1. b \in a + 1 .. b /\ \A x \in a + 1 .. b : x <= b
  OBVIOUS
<1>2. \A y \in a + 1 .. b : (\A x \in a + 1 .. b : x <= y) => y = b
  OBVIOUS
<1> QED BY <1>1, <1>2 DEF Max

(* The Safes between two settled ones are there.                           *)
LEMMA SafesBetween ==
  ASSUME WorldTypes, NEW a \in Nat, NEW b \in 0 .. settled
  PROVE  {s \in safes : a < s /\ s <= b} = a + 1 .. b
<1>1. safes \subseteq 1 .. MaxSafe /\ 1 .. settled \subseteq safes
  BY DEF WorldTypes, AllSafes
<1>2. \A s \in 1 .. MaxSafe : s \in Nat
  BY Erc20BalanceType
<1>3. settled \in Nat
  BY Erc20BalanceType DEF WorldTypes
<1>4. \A s \in safes : a < s /\ s <= b => s \in a + 1 .. b
  BY <1>1, <1>2, <1>3
<1>5. \A s \in a + 1 .. b : s \in 1 .. settled /\ a < s /\ s <= b
  BY <1>3
<1> QED BY <1>1, <1>4, <1>5, Zenon

LEMMA BalanceType ==
  ASSUME NEW s \in AllSafes, NEW n \in 0 .. MaxBlock
  PROVE  Balance(s, n) \in Int
  BY Erc20BalanceType DEF Balance, Block

LEMMA SafesAreNumbers == \A s \in AllSafes : s \in Nat /\ s >= 1
  BY Erc20BalanceType DEF AllSafes

(* Blocks without a flow leave a balance alone: of those after which it    *)
(* is another, there would be a first.                                     *)
LEMMA SameBalance ==
  ASSUME NEW s \in AllSafes, NEW from \in 0 .. MaxBlock,
         NEW to \in from .. MaxBlock,
         \A b \in from + 1 .. to : Balance(s, b) = Balance(s, b - 1)
  PROVE  Balance(s, to) = Balance(s, from)
<1> DEFINE T == {b \in from .. to : Balance(s, b) # Balance(s, from)}
<1> SUFFICES ASSUME T # {} PROVE FALSE
  BY Erc20BalanceType
<1>0. MaxBlock \in Nat /\ from \in Nat /\ to \in Nat
  BY Erc20BalanceType
<1>1. T \in SUBSET Nat
  BY <1>0
<1> DEFINE b == Min(T)
<1>2. b \in T /\ \A c \in T : b <= c
  <2> HIDE DEF T
  <2> QED BY <1>1, MinIsLeast
<1>3. b \in from + 1 .. to /\ b - 1 \in from .. to /\ b - 1 < b
  BY <1>0, <1>2
<1>4. b - 1 \notin T
  BY <1>2, <1>3
<1>5. Balance(s, b - 1) = Balance(s, from)
  BY <1>3, <1>4
<1> QED BY <1>2, <1>3, <1>5

(* The balance a row has, or would have.                                   *)
ValueIn(p, s) == IF s \in DOMAIN p THEN p[s] ELSE 0

LEMMA SeededValues ==
  ASSUME PairTypes, WorldTypes, NEW new \in SUBSET safes,
         NEW n \in 0 .. MaxBlock
  PROVE  /\ Seeded(new, n) \in [DOMAIN Seeded(new, n) -> Int]
         /\ DOMAIN pair \subseteq DOMAIN Seeded(new, n)
         /\ DOMAIN Seeded(new, n) \subseteq DOMAIN pair \cup new
         /\ \A s \in DOMAIN pair : ValueIn(Seeded(new, n), s) = ValueIn(pair, s)
         /\ \A s \in new \ DOMAIN pair :
              ValueIn(Seeded(new, n), s) = Balance(s, n)
         /\ \A s : s \notin new => ValueIn(Seeded(new, n), s) = ValueIn(pair, s)
<1> DEFINE D == DOMAIN pair \cup {t \in new : Balance(t, n) # 0}
<1>1. /\ DOMAIN Seeded(new, n) = D
      /\ \A s \in D : Seeded(new, n)[s] =
                        IF s \in DOMAIN pair THEN pair[s] ELSE Balance(s, n)
      /\ Seeded(new, n) = [s \in D |-> Seeded(new, n)[s]]
  BY DEF Seeded
<1>2. \A s \in new : Balance(s, n) \in Int
  BY BalanceType DEF WorldTypes
<1>3. \A s \in D : Seeded(new, n)[s] \in Int
  BY <1>1, <1>2 DEF PairTypes
<1> QED BY <1>1, <1>3 DEF ValueIn

LEMMA FlowValues ==
  ASSUME PairTypes, WorldTypes, NEW some \in SUBSET safes,
         NEW from \in 0 .. MaxBlock, NEW to \in from .. MaxBlock
  PROVE  /\ WithFlows(some, from, to) \in [DOMAIN WithFlows(some, from, to) -> Int]
         /\ DOMAIN WithFlows(some, from, to) \subseteq DOMAIN pair \cup some
         /\ \A s \in some : ValueIn(WithFlows(some, from, to), s) =
              ValueIn(pair, s) + Balance(s, to) - Balance(s, from)
         /\ \A s : s \notin some =>
              /\ ValueIn(WithFlows(some, from, to), s) = ValueIn(pair, s)
              /\ s \in DOMAIN WithFlows(some, from, to) <=> s \in DOMAIN pair
<1> DEFINE p == WithFlows(some, from, to)
           T == Touched(some, from, to)
           D == DOMAIN pair \cup T
<1>0. MaxBlock \in Nat /\ from \in 0 .. MaxBlock /\ to \in 0 .. MaxBlock
  BY Erc20BalanceType
<1>1. T \subseteq some /\ some \subseteq AllSafes
  BY DEF Touched, WorldTypes
<1>2. /\ DOMAIN p = D
      /\ \A s \in D : p[s] = (IF s \in DOMAIN pair THEN pair[s] ELSE 0)
           + (IF s \in T THEN Balance(s, to) - Balance(s, from) ELSE 0)
      /\ p = [s \in D |-> p[s]]
  BY DEF WithFlows
<1>3. \A s \in some : Balance(s, to) \in Int /\ Balance(s, from) \in Int
  BY <1>0, <1>1, BalanceType
<1>4. \A s \in some \ T : Balance(s, to) = Balance(s, from)
  BY <1>1, SameBalance DEF Touched
<1>5. \A s \in DOMAIN pair : pair[s] \in Int
  BY DEF PairTypes
<1> HIDE DEF p, T
<1>6. \A s \in D : p[s] \in Int
  BY <1>1, <1>2, <1>3, <1>5
<1>7. ASSUME NEW s \in some
      PROVE  ValueIn(p, s) = ValueIn(pair, s) + Balance(s, to) - Balance(s, from)
  <2>1. ValueIn(pair, s) \in Int
    BY <1>5 DEF ValueIn
  <2>2. CASE s \in T
    <3>1. s \in D
      BY <2>2
    <3>2. p[s] = ValueIn(pair, s) + (Balance(s, to) - Balance(s, from))
      BY <1>2, <2>2, <3>1 DEF ValueIn
    <3> QED BY <1>2, <1>3, <2>1, <3>1, <3>2 DEF ValueIn
  <2>3. CASE s \notin T
    <3>1. Balance(s, to) = Balance(s, from)
      BY <1>4, <2>3
    <3>2. s \in D <=> s \in DOMAIN pair
      BY <2>3
    <3>3. s \in DOMAIN pair => p[s] = pair[s] + 0
      BY <1>2, <2>3, <3>2
    <3>4. ValueIn(p, s) = ValueIn(pair, s)
      BY <1>2, <1>5, <3>2, <3>3 DEF ValueIn
    <3> QED BY <1>3, <2>1, <3>1, <3>4
  <2> QED BY <2>2, <2>3
<1>8. ASSUME NEW s, s \notin some
      PROVE  /\ ValueIn(p, s) = ValueIn(pair, s)
             /\ s \in DOMAIN p <=> s \in DOMAIN pair
  <2>1. s \notin T
    BY <1>1, <1>8
  <2>2. s \in D <=> s \in DOMAIN pair
    BY <2>1
  <2>3. s \in DOMAIN pair => p[s] = pair[s] + 0
    BY <1>2, <2>1, <2>2
  <2> QED BY <1>2, <1>5, <2>2, <2>3 DEF ValueIn
<1> QED BY <1>1, <1>2, <1>6, <1>7, <1>8 DEF p

LEMMA NoZeroValues ==
  ASSUME NEW p, p \in [DOMAIN p -> Int], NEW some
  PROVE  /\ WithoutZeros(p, some) \in [DOMAIN WithoutZeros(p, some) -> Int]
         /\ DOMAIN WithoutZeros(p, some) \subseteq DOMAIN p
         /\ \A s : ValueIn(WithoutZeros(p, some), s) = ValueIn(p, s)
         /\ \A s \in DOMAIN p \ some : s \in DOMAIN WithoutZeros(p, some)
  BY DEF WithoutZeros, ValueIn

-----------------------------------------------------------------------------
(***************************************************************************)
(* What the steps do to messages, manifests and slices.                    *)
(***************************************************************************)
Gets(e) == IsABag(queue') /\ DOMAIN queue' = DOMAIN queue \cup {e}
Loses == IsABag(queue') /\ DOMAIN queue' \subseteq DOMAIN queue

LEMMA SendingGets ==
  ASSUME QueueTypes, NEW d, queue' = queue (+) SetToBag({d})
  PROVE  Gets(d)
<1>1. /\ DOMAIN SetToBag({d}) = {d}
      /\ \A e : (IF e \in {d} THEN SetToBag({d})[e] ELSE 0)
               = IF e = d THEN 1 ELSE 0
  BY DEF SetToBag
<1>2. queue' = [e \in DOMAIN queue \cup {d} |->
                  (IF e \in DOMAIN queue THEN queue[e] ELSE 0)
                  + (IF e = d THEN 1 ELSE 0)]
  BY <1>1, Zenon DEF (+)
<1>3. \A e \in DOMAIN queue : queue[e] \in Nat /\ queue[e] > 0
  BY DEF IsABag, QueueTypes
<1>4. DOMAIN queue' = DOMAIN queue \cup {d}
  BY <1>2
<1>5. \A e \in DOMAIN queue' : queue'[e] \in Nat /\ queue'[e] > 0
  BY <1>2, <1>3, <1>4
<1>6. queue' = [e \in DOMAIN queue' |-> queue'[e]]
  BY <1>2
<1>7. IsABag(queue')
  BY <1>5, <1>6 DEF IsABag
<1> QED BY <1>4, <1>7 DEF Gets

LEMMA TakingLoses ==
  ASSUME QueueTypes, NEW d \in DOMAIN queue, queue' = queue (-) SetToBag({d})
  PROVE  Loses
<1> DEFINE b == [e \in DOMAIN queue |-> IF e = d THEN queue[e] - 1 ELSE queue[e]]
<1>1. DOMAIN SetToBag({d}) = {d} /\ SetToBag({d})[d] = 1
  BY DEF SetToBag
<1>2. \A e \in DOMAIN queue : queue[e] \in Nat \ {0}
  BY DEF IsABag, QueueTypes
<1>3. \A e \in DOMAIN queue :
        (IF e \in DOMAIN SetToBag({d}) THEN queue[e] - SetToBag({d})[e]
         ELSE queue[e])
        = IF e = d THEN queue[e] - 1 ELSE queue[e]
  BY <1>1
<1>4. queue' = [e \in {c \in DOMAIN b : b[c] > 0} |-> b[e]]
  BY <1>3, Zenon DEF (-)
<1>a. /\ DOMAIN b = DOMAIN queue
      /\ \A e \in DOMAIN queue : b[e] = IF e = d THEN queue[e] - 1 ELSE queue[e]
  OBVIOUS
<1> HIDE DEF b
<1>5. DOMAIN queue' \subseteq DOMAIN queue
  BY <1>4, <1>a
<1>6. \A e \in DOMAIN queue' : queue'[e] \in Nat /\ queue'[e] > 0
  BY <1>2, <1>4, <1>a
<1>7. queue' = [e \in DOMAIN queue' |-> queue'[e]]
  BY <1>4
<1>8. IsABag(queue')
  BY <1>6, <1>7 DEF IsABag
<1> QED BY <1>5, <1>8 DEF Loses

(* A manifest is stored, and so is fresh.                                  *)
Stores(r, state, phase, seq) ==
  /\ runs' \in Seq(Manifest) /\ Len(runs') = Len(runs)
  /\ \A q \in 1 .. Len(runs) : q # r => runs'[q] = runs[q]
  /\ runs'[r].state = state /\ runs'[r].phase = phase /\ runs'[r].seq = seq
  /\ runs'[r].fresh

LEMMA RunExcept ==
  ASSUME RunTypes, NEW r \in 1 .. Len(runs), NEW m \in Manifest,
         runs' = [runs EXCEPT ![r] = m]
  PROVE  /\ runs' \in Seq(Manifest) /\ Len(runs') = Len(runs)
         /\ \A q \in 1 .. Len(runs) : q # r => runs'[q] = runs[q]
         /\ runs'[r] = m
<1>1. runs \in Seq(Manifest)
  BY DEF RunTypes
<1>2. /\ [runs EXCEPT ![r] = m] \in Seq(Manifest)
      /\ Len([runs EXCEPT ![r] = m]) = Len(runs)
      /\ \A q \in 1 .. Len(runs) :
           [runs EXCEPT ![r] = m][q] = IF q = r THEN m ELSE runs[q]
  BY <1>1, ExceptSeq
<1>3. /\ runs' \in Seq(Manifest) /\ Len(runs') = Len(runs)
      /\ \A q \in 1 .. Len(runs) : runs'[q] = IF q = r THEN m ELSE runs[q]
  BY <1>2, Zenon
<1> QED BY <1>3

LEMMA SaveStores ==
  ASSUME RunTypes, NEW r \in 1 .. Len(runs), NEW m \in Manifest, Save(r, m)
  PROVE  Stores(r, m.state, m.phase, m.seq)
<1> DEFINE new == [m EXCEPT !.fresh = TRUE]
<1>1. /\ new \in Manifest /\ new.state = m.state /\ new.phase = m.phase
      /\ new.seq = m.seq /\ new.fresh
  BY DEF Manifest, Copies
<1>2. runs' = [runs EXCEPT ![r] = new]
  BY DEF Save
<1> HIDE DEF new
<1> QED BY <1>1, <1>2, RunExcept DEF Stores

LEMMA RedispatchSends ==
  ASSUME RunTypes, QueueTypes, NEW r \in 1 .. Len(runs), NEW m \in Manifest,
         Redispatch(r, m)
  PROVE  /\ Stores(r, m.state, m.phase, m.seq + 1)
         /\ Gets([run |-> r, phase |-> m.phase, seq |-> m.seq + 1])
<1> DEFINE new == [m EXCEPT !.seq = @ + 1]
<1>1. /\ new \in Manifest /\ new.state = m.state /\ new.phase = m.phase
      /\ new.seq = m.seq + 1
  BY DEF Manifest, Copies
<1>2. Save(r, new) /\ queue' = queue (+) Message(r, m.phase, m.seq + 1)
  BY DEF Redispatch
<1> HIDE DEF new
<1>3. Stores(r, m.state, m.phase, m.seq + 1)
  BY <1>1, <1>2, SaveStores
<1>4. Gets([run |-> r, phase |-> m.phase, seq |-> m.seq + 1])
  BY <1>2, SendingGets DEF Message
<1> QED BY <1>3, <1>4

(* A run is started.                                                       *)
Starts(phase) ==
  LET n == Len(runs) + 1 IN
  /\ runs' \in Seq(Manifest) /\ Len(runs') = n
  /\ \A q \in 1 .. Len(runs) : runs'[q] = runs[q]
  /\ runs'[n].state = "running" /\ runs'[n].phase = phase
  /\ runs'[n].seq = 1 /\ runs'[n].fresh
  /\ Gets([run |-> n, phase |-> phase, seq |-> 1])

LEMMA StartRunStarts ==
  ASSUME RunTypes, QueueTypes, NEW phase \in Phases, StartRun(phase)
  PROVE  Starts(phase)
<1> DEFINE new == [state |-> "running", phase |-> phase, seq |-> 1,
                   size |-> ChunkSize, range |-> RangeSize, fresh |-> TRUE]
<1>1. new \in Manifest /\ runs \in Seq(Manifest)
  BY Erc20BalanceType DEF Manifest, Copies, RunTypes, Phases
<1>2. /\ new.state = "running" /\ new.phase = phase /\ new.seq = 1
      /\ new.fresh
  OBVIOUS
<1>3. /\ runs' = Append(runs, new)
      /\ queue' = queue (+) Message(Len(runs) + 1, phase, 1)
  BY DEF StartRun
<1> HIDE DEF new
<1>4. /\ runs' \in Seq(Manifest) /\ Len(runs') = Len(runs) + 1
      /\ \A q \in 1 .. Len(runs) : runs'[q] = runs[q]
      /\ runs'[Len(runs) + 1] = new
  BY <1>1, <1>3, AppendProperties
<1>5. Gets([run |-> Len(runs) + 1, phase |-> phase, seq |-> 1])
  BY <1>3, SendingGets DEF Message
<1> QED BY <1>2, <1>4, <1>5 DEF Starts

LEMMA SliceFields ==
  ASSUME SliceTypes, RunTypes, NEW w \in Workers, Acts(w)
  PROVE  /\ slice[w] \in SliceTasks(Len(runs))
         /\ slice[w].at \in Phases \cup {"advance", "shrink", "failed", "finished"}
         /\ slice[w].run \in 1 .. Len(runs) /\ slice[w].m \in Copies
         /\ slice[w].m.state = "running"
         /\ slice[w].m.phase \in Phases \cup {"done"}
         /\ slice[w].at # "finished" =>
              slice[w].m \in Manifest /\ slice[w].m.phase \in Phases
         /\ slice[w].msg \in Messages(Len(runs)) /\ slice[w].done \in Nat
         /\ slice[w].msg.run = slice[w].run
         /\ slice[w].at \in Phases => slice[w].msg.phase = slice[w].at
<1>1. slice[w] \in SliceTasks(Len(runs))
  BY DEF SliceTypes, Acts
<1> DEFINE c == slice[w]
<1>2. /\ c.at \in Phases \cup {"advance", "shrink", "failed", "finished"}
      /\ c.run \in 1 .. Len(runs) /\ c.m \in Copies
      /\ c.msg \in Messages(Len(runs)) /\ c.done \in Nat
      /\ c.msg.run = c.run /\ c.m.state = "running"
      /\ c.at # "finished" => c.m.phase # "done"
      /\ c.at \in Phases => c.msg.phase = c.at
  BY <1>1 DEF SliceTasks
<1>3. c.m.phase \in Phases \cup {"done"}
  BY <1>2 DEF Copies
<1> QED BY <1>1, <1>2, <1>3 DEF Manifest

LEMMA ActsMeans ==
  ASSUME SliceTypes, NEW w \in Workers
  PROVE  Acts(w) <=> slice[w].at # "idle"
<1>1. slice[w] \in SliceTasks(Len(runs)) => slice[w].at # "idle"
  BY DEF SliceTasks, Phases
<1>2. AtRest.at = "idle"
  BY DEF AtRest
<1> QED BY <1>1, <1>2 DEF SliceTypes, Acts

Slices == [Workers -> {AtRest} \cup SliceTasks(Len(runs))]
Others(w) == \A v \in Workers \ {w} : slice'[v] = slice[v]

(* A slice ends.                                                           *)
Ends(w) ==
  /\ slice' \in Slices /\ slice'[w] = AtRest /\ slice'[w].at = "idle"
  /\ Others(w)

LEMMA SliceEnds ==
  ASSUME SliceTypes, NEW w \in Workers, slice' = [slice EXCEPT ![w] = AtRest]
  PROVE  Ends(w)
  BY DEF SliceTypes, Slices, Ends, Others, AtRest

(* A slice takes another step, and its copy gets another phase.            *)
Goes(w, at, phase) ==
  /\ slice' \in Slices /\ Others(w) /\ slice'[w] # AtRest
  /\ slice'[w].at = at
  /\ slice'[w].run = slice[w].run /\ slice'[w].msg = slice[w].msg
  /\ slice'[w].m.state = slice[w].m.state
  /\ slice'[w].m.seq = slice[w].m.seq /\ slice'[w].m.phase = phase

LEMMA SliceGoes ==
  ASSUME SliceTypes, RunTypes, NEW w \in Workers, Acts(w),
         NEW step \in {"advance", "shrink", "failed", "finished"},
         NEW phase \in Phases \cup {"done"},
         step = "finished" \/ phase \in Phases, Release(w, step, phase)
  PROVE  Goes(w, step, phase) /\ lock' = "free"
<1> DEFINE c == slice[w]
           new == [c EXCEPT !.at = step, !.m.phase = phase]
           Works(n) == [at : Phases \cup {"advance", "shrink", "failed", "finished"},
                        run : 1 .. n, m : Copies, msg : Messages(n), done : Nat]
<1>1. /\ c \in Works(Len(runs)) /\ c.msg.run = c.run /\ c.m.state = "running"
      /\ c.m \in Copies
  BY SliceFields DEF SliceTasks
<1>2. slice' = [slice EXCEPT ![w] = new] /\ lock' = "free"
  BY <1>1 DEF Release, SliceTypes
<1>3. /\ new.at = step /\ new.run = c.run /\ new.msg = c.msg
      /\ new.m = [c.m EXCEPT !.phase = phase] /\ new.done = c.done
      /\ new \in Works(Len(runs))
  <2>1. [c.m EXCEPT !.phase = phase] \in Copies
    BY <1>1 DEF Copies
  <2> QED BY <1>1, <2>1
<1>4. /\ new.m.state = c.m.state /\ new.m.seq = c.m.seq
      /\ new.m.phase = phase
  BY <1>1, <1>3 DEF Copies
<1> HIDE DEF new
<1>5. step \notin Phases /\ (step # "finished" => phase # "done")
  BY DEF Phases
<1>6. new \in SliceTasks(Len(runs)) /\ new # AtRest
  <2>1. new \in SliceTasks(Len(runs))
    BY <1>1, <1>3, <1>4, <1>5 DEF SliceTasks
  <2>2. AtRest.at = "idle"
    BY DEF AtRest
  <2> QED BY <1>3, <2>1, <2>2
<1>7. slice'[w] = new /\ Others(w) /\ slice' \in Slices
  BY <1>2, <1>6 DEF SliceTypes, Slices, Others
<1> QED BY <1>2, <1>3, <1>4, <1>6, <1>7 DEF Goes

(* A step of the work is counted, and the copy stored.                     *)
LEMMA StepIsDone ==
  ASSUME SliceTypes, RunTypes, NEW w \in Workers, slice[w].at \in Phases,
         StepDone(w)
  PROVE  /\ Goes(w, slice[w].at, slice[w].m.phase)
         /\ Stores(slice[w].run, "running", slice[w].m.phase, slice[w].m.seq)
         /\ UNCHANGED <<lock, queue>>
<1> DEFINE c == slice[w]
           new == [c EXCEPT !.done = @ + 1]
           Works(n) == [at : Phases \cup {"advance", "shrink", "failed", "finished"},
                        run : 1 .. n, m : Copies, msg : Messages(n), done : Nat]
<1>0. Acts(w)
  BY ActsMeans DEF Phases
<1>1. /\ c \in Works(Len(runs)) /\ c.msg.run = c.run /\ c.m.state = "running"
      /\ c.run \in 1 .. Len(runs) /\ c.m \in Manifest
      /\ c.m.phase # "done" /\ c.msg.phase = c.at
  BY <1>0, SliceFields DEF SliceTasks, Phases
<1>2. slice' = [slice EXCEPT ![w] = new]
  BY DEF StepDone, SliceTypes
<1>3. /\ new.at = c.at /\ new.run = c.run /\ new.msg = c.msg
      /\ new.m = c.m /\ new \in Works(Len(runs))
  BY <1>1
<1> HIDE DEF new
<1>4. new \in SliceTasks(Len(runs)) /\ new # AtRest
  <2>1. new \in SliceTasks(Len(runs))
    BY <1>1, <1>3 DEF SliceTasks
  <2>2. AtRest.at = "idle"
    BY DEF AtRest
  <2>3. "idle" \notin Phases
    BY DEF Phases
  <2> QED BY <1>3, <2>1, <2>2, <2>3
<1>5. slice'[w] = new /\ Others(w) /\ slice' \in Slices
  BY <1>2, <1>4 DEF SliceTypes, Slices, Others
<1>6. Goes(w, slice[w].at, slice[w].m.phase)
  BY <1>3, <1>4, <1>5 DEF Goes
<1>7. Stores(slice[w].run, "running", slice[w].m.phase, slice[w].m.seq)
  <2>1. Save(slice[w].run, slice[w].m)
    BY DEF StepDone
  <2> QED BY <1>1, <2>1, SaveStores
<1> QED BY <1>6, <1>7 DEF StepDone

(* A message is dropped, or a slice begins with it.                        *)
LEMMA Receives ==
  ASSUME SliceTypes, RunTypes, QueueTypes, NEW w \in Workers, Receive(w)
  PROVE  /\ ~Acts(w)
         /\ \E e \in DOMAIN queue :
              /\ Loses /\ e \in Messages(Len(runs))
              /\ \/ UNCHANGED <<slice, lock>>
                 \/ /\ lock = "free" /\ lock' = w /\ Undivided
                    /\ runs[e.run].state = "running"
                    /\ runs[e.run].seq = e.seq
                    /\ slice' \in Slices /\ Others(w) /\ slice'[w] # AtRest
                    /\ slice'[w].at = e.phase /\ slice'[w].run = e.run
                    /\ slice'[w].m = runs[e.run] /\ slice'[w].msg = e
         /\ UNCHANGED <<world, rollupVars, progressVars, runs, beatVars,
                        boundVars>>
<1>1. PICK e \in DOMAIN queue :
        LET m == runs[e.run] IN
        IF m.state # "running" \/ m.seq # e.seq
          THEN /\ queue' = queue (-) SetToBag({e})
               /\ UNCHANGED <<slice, lock>>
          ELSE /\ lock = "free" /\ lock' = w
               /\ Undivided
               /\ queue' = queue (-) SetToBag({e})
               /\ slice' = [slice EXCEPT ![w] =
                    [at |-> e.phase, run |-> e.run, m |-> m, msg |-> e,
                     done |-> 0]]
  BY DEF Receive, BagToSet
<1>2. Loses
  BY <1>1, TakingLoses
<1>3. e \in Messages(Len(runs))
  BY DEF QueueTypes
<1>4. e.run \in 1 .. Len(runs) /\ e.phase \in Phases
  BY <1>3 DEF Messages
<1>5. runs[e.run] \in Manifest
  BY <1>4 DEF RunTypes
<1>6. CASE runs[e.run].state # "running" \/ runs[e.run].seq # e.seq
  BY <1>1, <1>2, <1>3, <1>6 DEF Receive, Acts
<1>7. CASE ~(runs[e.run].state # "running" \/ runs[e.run].seq # e.seq)
  <2> DEFINE new == [at |-> e.phase, run |-> e.run, m |-> runs[e.run],
                     msg |-> e, done |-> 0]
  <2>1. /\ new.at = e.phase /\ new.run = e.run /\ new.m = runs[e.run]
        /\ new.msg = e
    OBVIOUS
  <2>2. new \in SliceTasks(Len(runs))
    BY <1>3, <1>4, <1>5, <1>7 DEF SliceTasks, Manifest
  <2>3. slice' = [slice EXCEPT ![w] = new]
    BY <1>1, <1>7
  <2> HIDE DEF new
  <2>4. new # AtRest
    <3>1. AtRest.at = "idle" /\ "idle" \notin Phases
      BY DEF AtRest, Phases
    <3> QED BY <1>4, <2>1, <3>1
  <2>5. slice'[w] = new /\ Others(w) /\ slice' \in Slices
    BY <2>2, <2>3 DEF SliceTypes, Slices, Others
  <2> QED BY <1>1, <1>2, <1>3, <1>7, <2>1, <2>4, <2>5 DEF Receive, Acts
<1> QED BY <1>6, <1>7

-----------------------------------------------------------------------------
(***************************************************************************)
(* The steps of the chain.                                                 *)
(***************************************************************************)
ChainTypes == SliceTypes /\ RunTypes /\ QueueTypes /\ WatchdogTypes

Resends(r, phase, seq) ==
  /\ Stores(r, "running", phase, seq + 1)
  /\ Gets([run |-> r, phase |-> phase, seq |-> seq + 1])

LEMMA AdvanceSteps ==
  ASSUME ChainTypes, NEW w \in Workers, Advance(w)
  PROVE  /\ Acts(w) /\ slice[w].at = "advance" /\ Ends(w)
         /\ Resends(slice[w].run, slice[w].m.phase, slice[w].m.seq)
<1>1. slice[w].at = "advance" /\ slice' = [slice EXCEPT ![w] = AtRest]
  BY DEF Advance
<1>2. Acts(w) /\ Ends(w)
  BY <1>1, ActsMeans, SliceEnds DEF ChainTypes
<1>3. /\ slice[w].run \in 1 .. Len(runs) /\ slice[w].m \in Manifest
      /\ slice[w].m.state = "running"
  BY <1>1, <1>2, SliceFields DEF ChainTypes
<1>4. Redispatch(slice[w].run, slice[w].m)
  BY DEF Advance
<1> QED BY <1>1, <1>2, <1>3, <1>4, RedispatchSends DEF ChainTypes, Resends

LEMMA CloseSteps ==
  ASSUME ChainTypes, NEW w \in Workers, Close(w)
  PROVE  /\ Acts(w) /\ slice[w].at \in {"failed", "finished"} /\ Ends(w)
         /\ Stores(slice[w].run, slice[w].at, slice[w].m.phase, slice[w].m.seq)
<1> DEFINE new == [slice[w].m EXCEPT !.state = slice[w].at]
<1>1. /\ slice[w].at \in {"failed", "finished"}
      /\ slice' = [slice EXCEPT ![w] = AtRest] /\ Save(slice[w].run, new)
  BY DEF Close
<1>2. Acts(w) /\ Ends(w)
  BY <1>1, ActsMeans, SliceEnds DEF ChainTypes
<1>3. slice[w].run \in 1 .. Len(runs) /\ slice[w].m \in Copies
  BY <1>2, SliceFields DEF ChainTypes
<1>4. /\ new \in Manifest /\ new.state = slice[w].at
      /\ new.phase = slice[w].m.phase /\ new.seq = slice[w].m.seq
  BY <1>1, <1>3 DEF Manifest, Copies
<1> HIDE DEF new
<1>5. Stores(slice[w].run, new.state, new.phase, new.seq)
  BY <1>1, <1>3, <1>4, SaveStores DEF ChainTypes
<1> QED BY <1>1, <1>2, <1>4, <1>5

LEMMA HalvedIsSize ==
  ASSUME NEW floor \in Nat \ {0}, NEW top \in Nat, NEW n \in floor .. top
  PROVE  Halved(n, floor) \in floor .. top
<1>1. n \div 2 \in Int /\ n \div 2 <= n
  OBVIOUS
<1>2. Halved(n, floor) = IF floor <= n \div 2 THEN n \div 2 ELSE floor
  BY <1>1, MinMaxOfTwo DEF Halved
<1> QED BY <1>1, <1>2

LEMMA ShrinkSteps ==
  ASSUME ChainTypes, NEW w \in Workers, Shrink(w)
  PROVE  /\ Acts(w) /\ slice[w].at = "shrink" /\ Ends(w)
         /\ \/ Resends(slice[w].run, slice[w].m.phase, slice[w].m.seq)
            \/ /\ Stores(slice[w].run, "failed", slice[w].m.phase,
                         slice[w].m.seq)
               /\ UNCHANGED queue
<1> DEFINE r == slice[w].run
           m == slice[w].m
           small == [m EXCEPT !.size = Halved(@, ChunkFloor)]
           narrow == [m EXCEPT !.range = Halved(@, RangeFloor)]
           over == [m EXCEPT !.state = "failed"]
<1>1. slice[w].at = "shrink" /\ slice' = [slice EXCEPT ![w] = AtRest]
  BY DEF Shrink
<1>2. Acts(w) /\ Ends(w)
  BY <1>1, ActsMeans, SliceEnds DEF ChainTypes
<1>3. r \in 1 .. Len(runs) /\ m \in Manifest /\ m.state = "running"
      /\ m \in Copies /\ m.phase # "done"
  BY <1>1, <1>2, SliceFields DEF ChainTypes, Phases
<1>4. /\ Halved(m.size, ChunkFloor) \in ChunkFloor .. ChunkSize
      /\ Halved(m.range, RangeFloor) \in RangeFloor .. RangeSize
  <2>1. m.size \in ChunkFloor .. ChunkSize /\ m.range \in RangeFloor .. RangeSize
    BY <1>3 DEF Copies
  <2>2. /\ ChunkFloor \in Nat \ {0} /\ ChunkSize \in Nat
        /\ RangeFloor \in Nat \ {0} /\ RangeSize \in Nat
    BY Erc20BalanceType
  <2> QED BY <2>1, <2>2, HalvedIsSize
<1>5. /\ small \in Manifest /\ small.state = "running"
      /\ small.phase = m.phase /\ small.seq = m.seq
  BY <1>3, <1>4 DEF Manifest, Copies
<1>6. /\ narrow \in Manifest /\ narrow.state = "running"
      /\ narrow.phase = m.phase /\ narrow.seq = m.seq
  BY <1>3, <1>4 DEF Manifest, Copies
<1>7. /\ over \in Manifest /\ over.state = "failed"
      /\ over.phase = m.phase /\ over.seq = m.seq
  BY <1>3 DEF Manifest, Copies
<1>8. \/ Redispatch(r, small) \/ Redispatch(r, narrow)
      \/ Save(r, over) /\ UNCHANGED queue
  BY DEF Shrink
<1> HIDE DEF small, narrow, over
<1>9. CASE Redispatch(r, small)
  BY <1>1, <1>2, <1>3, <1>5, <1>9, RedispatchSends DEF ChainTypes, Resends
<1>10. CASE Redispatch(r, narrow)
  BY <1>1, <1>2, <1>3, <1>6, <1>10, RedispatchSends DEF ChainTypes, Resends
<1>11. CASE Save(r, over) /\ UNCHANGED queue
  BY <1>1, <1>2, <1>3, <1>7, <1>11, SaveStores DEF ChainTypes
<1> QED BY <1>8, <1>9, <1>10, <1>11

LEMMA KilledSteps ==
  ASSUME ChainTypes, NEW w \in Workers, Killed(w)
  PROVE  /\ Acts(w) /\ Ends(w) /\ UNCHANGED runs
         /\ Gets(slice[w].msg) \/ UNCHANGED queue
<1>1. Acts(w) /\ Ends(w) /\ UNCHANGED runs
  BY SliceEnds DEF Killed, ChainTypes, Acts
<1>2. \/ queue' = queue (+) SetToBag({slice[w].msg})
      \/ UNCHANGED queue
  BY DEF Killed
<1> QED BY <1>1, <1>2, SendingGets DEF ChainTypes

LEMMA BreaksSteps ==
  ASSUME ChainTypes, NEW w \in Workers, Breaks(w)
  PROVE  /\ Acts(w) /\ slice[w].at \in Phases /\ lock' = "free"
         /\ \/ Goes(w, "failed", slice[w].m.phase)
            \/ slice[w].at # "finish" /\ Goes(w, "shrink", slice[w].m.phase)
            \/ slice[w].at = "finish" /\ Ends(w)
<1>1. slice[w].at \in Phases
  BY DEF Breaks, Phases
<1>2. Acts(w)
  BY <1>1, ActsMeans DEF ChainTypes, Phases
<1>3. slice[w].m.phase \in Phases
  BY <1>1, <1>2, SliceFields DEF ChainTypes, Phases
<1>4. CASE Release(w, "failed", slice[w].m.phase)
  BY <1>1, <1>2, <1>3, <1>4, SliceGoes DEF ChainTypes
<1>5. CASE slice[w].at # "finish" /\ Release(w, "shrink", slice[w].m.phase)
  BY <1>1, <1>2, <1>3, <1>5, SliceGoes DEF ChainTypes
<1>6. CASE /\ slice[w].at = "finish" /\ lock' = "free"
           /\ slice' = [slice EXCEPT ![w] = AtRest]
  BY <1>1, <1>2, <1>6, SliceEnds DEF ChainTypes
<1> QED BY <1>4, <1>5, <1>6 DEF Breaks

(* The steps after which the lock is free and the manifest is next.        *)
LEMMA EndSteps ==
  ASSUME ChainTypes, NEW w \in Workers,
         EndChunks(w) \/ EndWalk(w) \/ FinishRun(w) \/ RowsAreGone(w)
  PROVE  /\ Acts(w) /\ slice[w].at \in Phases /\ lock' = "free"
         /\ EndChunks(w) =>
              /\ slice[w].at = "chunks"
              /\ \/ Candidates = {} /\ Goes(w, "advance", "whales")
                 \/ Goes(w, "advance", "chunks")
         /\ EndWalk(w) =>
              /\ slice[w].at = "whales"
              /\ \/ Walkers = {} /\ Goes(w, "advance", "finish")
                 \/ walked >= progress.head /\ Goes(w, "advance", "finish")
                 \/ Goes(w, "advance", "whales")
         /\ FinishRun(w) => slice[w].at = "finish" /\ Goes(w, "finished", "done")
         /\ RowsAreGone(w) => Goes(w, "failed", slice[w].m.phase)
<1>1. /\ slice[w].at \in Phases
      /\ EndChunks(w) => slice[w].at = "chunks"
      /\ EndWalk(w) => slice[w].at = "whales"
      /\ FinishRun(w) => slice[w].at = "finish"
  BY DEF EndChunks, EndWalk, FinishRun, RowsAreGone, InPhase, Phases
<1>2. Acts(w)
  BY <1>1, ActsMeans DEF ChainTypes, Phases
<1>3. slice[w].m.phase \in Phases
  BY <1>1, <1>2, SliceFields DEF ChainTypes, Phases
<1>4. ASSUME NEW step \in {"advance", "failed"}, NEW phase \in Phases,
             Release(w, step, phase)
      PROVE  Goes(w, step, phase) /\ lock' = "free"
  BY <1>2, <1>4, SliceGoes DEF ChainTypes
<1>5. ASSUME Release(w, "finished", "done")
      PROVE  Goes(w, "finished", "done") /\ lock' = "free"
  BY <1>2, <1>5, SliceGoes DEF ChainTypes
<1>6. "whales" \in Phases /\ "chunks" \in Phases /\ "finish" \in Phases
  BY DEF Phases
<1>7. EndChunks(w) =>
        /\ lock' = "free"
        /\ \/ Candidates = {} /\ Goes(w, "advance", "whales")
           \/ Goes(w, "advance", "chunks")
  BY <1>4, <1>6 DEF EndChunks
<1>8. EndWalk(w) =>
        /\ lock' = "free"
        /\ \/ Walkers = {} /\ Goes(w, "advance", "finish")
           \/ walked >= progress.head /\ Goes(w, "advance", "finish")
           \/ Goes(w, "advance", "whales")
  BY <1>4, <1>6 DEF EndWalk
<1>9. FinishRun(w) => lock' = "free" /\ Goes(w, "finished", "done")
  BY <1>5 DEF FinishRun
<1>10. RowsAreGone(w) => lock' = "free" /\ Goes(w, "failed", slice[w].m.phase)
  BY <1>3, <1>4 DEF RowsAreGone
<1> QED BY <1>1, <1>2, <1>7, <1>8, <1>9, <1>10

LEMMA WorkSteps ==
  ASSUME ChainTypes, NEW w \in Workers, SeedChunk(w) \/ WalkRange(w)
  PROVE  /\ Acts(w) /\ slice[w].at \in Phases
         /\ Goes(w, slice[w].at, slice[w].m.phase)
         /\ Stores(slice[w].run, "running", slice[w].m.phase, slice[w].m.seq)
         /\ UNCHANGED <<lock, queue>>
<1>1. slice[w].at \in Phases /\ StepDone(w)
  BY DEF SeedChunk, WalkRange, InPhase, Phases
<1> QED BY <1>1, StepIsDone, ActsMeans DEF ChainTypes, Phases

LEMMA WatchdogFields ==
  ASSUME WatchdogTypes, watchdog # AtRest
  PROVE  /\ watchdog.run \in 1 .. Len(runs) /\ watchdog.m \in Manifest
         /\ watchdog.m.state = "running" /\ watchdog.m.phase \in Phases
<1>1. watchdog \in Sights(Len(runs))
  BY DEF WatchdogTypes
<1> QED BY <1>1 DEF Sights, Manifest, Copies

LEMMA ResumeSteps ==
  ASSUME ChainTypes, Resume
  PROVE  /\ watchdog # AtRest /\ watchdog' = AtRest
         /\ \/ Resends(watchdog.run, watchdog.m.phase, watchdog.m.seq)
            \/ UNCHANGED <<runs, queue>>
<1>1. /\ watchdog # AtRest /\ watchdog' = AtRest
      /\ Redispatch(watchdog.run, watchdog.m) \/ UNCHANGED <<runs, queue>>
  BY DEF Resume, runVars
<1>2. /\ watchdog.run \in 1 .. Len(runs) /\ watchdog.m \in Manifest
      /\ watchdog.m.state = "running"
  BY <1>1, WatchdogFields DEF ChainTypes
<1> QED BY <1>1, <1>2, RedispatchSends DEF ChainTypes, Resends

LEMMA OrphanPhaseType == OrphanPhase \in Phases
  BY DEF OrphanPhase, Phases

StartPhase == IF progress = NoProgress THEN "chunks" ELSE OrphanPhase

LEMMA StartSteps ==
  ASSUME ChainTypes, StartBackfill \/ BackfillCommand \/ Restart
  PROVE  /\ StartBackfill => Starts(StartPhase)
         /\ BackfillCommand \/ Restart => Starts("chunks")
<1>1. StartPhase \in Phases /\ "chunks" \in Phases
  BY OrphanPhaseType DEF StartPhase, Phases
<1>2. /\ StartBackfill => StartRun(StartPhase)
      /\ BackfillCommand \/ Restart => StartRun("chunks")
  BY DEF StartBackfill, BackfillCommand, Restart, StartPhase
<1> QED BY <1>1, <1>2, StartRunStarts DEF ChainTypes

LEMMA GraceSteps ==
  ASSUME RunTypes, NEW r, GracePasses(r)
  PROVE  /\ r \in 1 .. Len(runs) /\ IsRunning(r)
         /\ runs' \in Seq(Manifest) /\ Len(runs') = Len(runs)
         /\ runs'[r].state = runs[r].state /\ runs'[r].phase = runs[r].phase
         /\ runs'[r].seq = runs[r].seq /\ ~runs'[r].fresh
         /\ \A q \in 1 .. Len(runs) : q # r => runs'[q] = runs[q]
<1> DEFINE new == [runs[r] EXCEPT !.fresh = FALSE]
<1>1. /\ r \in 1 .. Len(runs) /\ IsRunning(r)
      /\ runs' = [runs EXCEPT ![r].fresh = FALSE] /\ runs \in Seq(Manifest)
  BY DEF GracePasses, RunTypes, IsRunning
<1>2. runs[r] \in Manifest /\ runs' = [runs EXCEPT ![r] = new]
  BY <1>1
<1>3. /\ new \in Manifest /\ new.state = runs[r].state
      /\ new.phase = runs[r].phase /\ new.seq = runs[r].seq /\ ~new.fresh
  BY <1>2 DEF Manifest, Copies
<1> HIDE DEF new
<1> QED BY <1>1, <1>2, <1>3, RunExcept

-----------------------------------------------------------------------------
(***************************************************************************)
(* The rollup: the types of its rows.                                      *)
(***************************************************************************)
LEMMA RollupInitTypes == RollupInit => RollupTypes
<1> SUFFICES ASSUME RollupInit PROVE RollupTypes
  OBVIOUS
<1>1. WorldTypes /\ BoundTypes
  <2>1. PICK n \in OldCounts : safes = 1 .. n /\ settled = n
    BY DEF RollupInit
  <2>2. n \in 0 .. MaxSafe /\ MaxSafe \in Nat
    BY Erc20BalanceType
  <2> QED BY <2>1, <2>2, Erc20BalanceType
         DEF RollupInit, WorldTypes, BoundTypes, AllSafes
<1>2. PairTypes /\ ProgressTypes
  <2>1. settled \in Nat /\ headBlock \in Nat
    BY <1>1, Erc20BalanceType DEF WorldTypes, Block
  <2>2. NoPairs \in [DOMAIN NoPairs -> Int] /\ DOMAIN NoPairs = {}
    BY DEF NoPairs
  <2> QED BY <2>1, <2>2
         DEF RollupInit, PairTypes, ProgressTypes, NoProgress, NoBoundary
<1>3. LockTypes /\ NightlyTypes /\ WatchdogTypes
  BY Erc20BalanceType
     DEF RollupInit, LockTypes, NightlyTypes, WatchdogTypes, AtRest, Phases
<1>4. RunTypes /\ QueueTypes /\ SliceTypes
  BY DEF RollupInit, RunTypes, QueueTypes, SliceTypes, EmptyBag, SetToBag,
         IsABag
<1> QED BY <1>1, <1>2, <1>3, <1>4 DEF RollupTypes

LEMMA WorldFrame ==
  ASSUME [RollupNext]_allVars
  PROVE  UNCHANGED world \/ HeadMoves \/ SafeCommits \/ Settle
<1>1. ASSUME NEW w \in Workers,
             Receive(w) \/ Work(w) \/ Breaks(w) \/ Killed(w) \/ Redeliver(w)
      PROVE  UNCHANGED world
  BY <1>1 DEF Receive, Work, ResolveRun, SeedChunk, DetectWhales, EndChunks,
              WalkRange, EndWalk, FinishRun, RowsAreGone, Advance, Close,
              Shrink, Breaks, Killed, Redeliver
<1>2. ASSUME \/ LoseMessage \/ LockExpires \/ StartNightly \/ SeedMissing
             \/ ApplyDelta \/ NightlyFails \/ SeeStalled \/ Resume
             \/ StartBackfill \/ WatchdogFails \/ BackfillCommand \/ Restart
             \/ UNCHANGED allVars
      PROVE  UNCHANGED world
  BY <1>2 DEF LoseMessage, LockExpires, StartNightly, SeedMissing, ApplyDelta,
              NightlyFails, SeeStalled, Resume, StartBackfill, WatchdogFails,
              BackfillCommand, Restart, allVars
<1>3. ASSUME NEW r, GracePasses(r) PROVE UNCHANGED world
  BY <1>3 DEF GracePasses
<1> QED BY <1>1, <1>2, <1>3 DEF RollupNext

(* Blocks, Safes and what is settled only grow.                            *)
LEMMA WorldGrows ==
  ASSUME WorldTypes, [RollupNext]_allVars
  PROVE  /\ WorldTypes' /\ headBlock <= headBlock' /\ safes \subseteq safes'
         /\ settled <= settled'
         /\ \A s \in safes' \ safes : s > settled'
<1>0. /\ MaxSafe \in Nat /\ MaxBlock \in Nat /\ settled \in Nat
      /\ headBlock \in Nat
  BY Erc20BalanceType DEF WorldTypes, Block
<1>1. CASE UNCHANGED world
  BY <1>0, <1>1 DEF world, WorldTypes
<1>2. CASE HeadMoves
  <2>1. headBlock' = headBlock + 1 /\ headBlock < MaxBlock
        /\ UNCHANGED <<safes, settled>>
    BY <1>2 DEF HeadMoves
  <2> QED BY <1>0, <2>1 DEF WorldTypes, Block
<1>3. CASE SafeCommits
  <2>1. PICK s \in AllSafes \ safes : safes' = safes \cup {s}
    BY <1>3 DEF SafeCommits
  <2>2. UNCHANGED <<headBlock, settled>> /\ s \notin 1 .. settled
    BY <1>3 DEF SafeCommits, WorldTypes
  <2>3. s > settled
    BY <1>0, <2>2, SafesAreNumbers
  <2> QED BY <1>0, <2>1, <2>2, <2>3 DEF WorldTypes
<1>4. CASE Settle
  <2>1. settled + 1 \in safes /\ settled' = settled + 1
        /\ UNCHANGED <<headBlock, safes>>
    BY <1>4 DEF Settle
  <2>2. settled + 1 \in 1 .. MaxSafe
    BY <2>1 DEF WorldTypes, AllSafes
  <2>3. 1 .. settled + 1 \subseteq safes
    BY <1>0, <2>1 DEF WorldTypes
  <2> QED BY <1>0, <2>1, <2>2, <2>3 DEF WorldTypes
<1> QED BY <1>1, <1>2, <1>3, <1>4, WorldFrame

LEMMA BoundFrame ==
  ASSUME [RollupNext]_allVars
  PROVE  \/ UNCHANGED boundVars \/ Fault \/ Delay
         \/ /\ Within(faults, delays, commands + 1)
            /\ commands' = commands + 1 /\ UNCHANGED <<faults, delays>>
<1>1. ASSUME NEW w \in Workers, Receive(w) \/ Work(w) PROVE UNCHANGED boundVars
  BY <1>1 DEF Receive, Work, ResolveRun, SeedChunk, DetectWhales, EndChunks,
              WalkRange, EndWalk, FinishRun, RowsAreGone, Advance, Close,
              Shrink
<1>2. ASSUME NEW w \in Workers, Breaks(w) \/ Killed(w) \/ Redeliver(w)
      PROVE  Fault \/ Delay
  BY <1>2 DEF Breaks, Killed, Redeliver
<1>3. ASSUME LoseMessage \/ NightlyFails \/ WatchdogFails PROVE Fault
  BY <1>3 DEF LoseMessage, NightlyFails, WatchdogFails
<1>4. ASSUME \/ LockExpires \/ StartNightly \/ SeedMissing \/ ApplyDelta
             \/ SeeStalled \/ Resume \/ StartBackfill \/ HeadMoves
             \/ SafeCommits \/ Settle \/ UNCHANGED allVars
      PROVE  UNCHANGED boundVars
  BY <1>4 DEF LockExpires, StartNightly, SeedMissing, ApplyDelta, SeeStalled,
              Resume, StartBackfill, HeadMoves, SafeCommits, Settle, allVars
<1>5. ASSUME BackfillCommand \/ Restart
      PROVE  /\ Within(faults, delays, commands + 1)
             /\ commands' = commands + 1 /\ UNCHANGED <<faults, delays>>
  BY <1>5 DEF BackfillCommand, Restart, MayCommand
<1>6. ASSUME NEW r, GracePasses(r) PROVE Delay \/ UNCHANGED boundVars
  BY <1>6 DEF GracePasses
<1> QED BY <1>1, <1>2, <1>3, <1>4, <1>5, <1>6 DEF RollupNext

LEMMA BoundTypesKept ==
  ASSUME BoundTypes, [RollupNext]_allVars
  PROVE  /\ BoundTypes'
         /\ faults <= faults' /\ delays <= delays' /\ commands <= commands'
  BY BoundFrame DEF BoundTypes, Fault, Delay, boundVars

LEMMA SettingKept ==
  ASSUME BoundTypes, [RollupNext]_allVars, Steady,
         delays = 0 \/ (faults = 0 /\ commands = 0)
  PROVE  delays' = 0 \/ (faults' = 0 /\ commands' = 0)
<1>1. ASSUME Within(faults', delays', commands')
      PROVE  delays' = 0 \/ (faults' = 0 /\ commands' = 0)
  <2>1. PICK m \in Mishaps :
          faults' <= m[1] /\ delays' <= m[2] /\ commands' <= m[3]
    BY <1>1 DEF Within
  <2>2. m[2] = 0 \/ (m[1] = 0 /\ m[3] = 0)
    BY DEF Steady
  <2> QED BY <2>1, <2>2, BoundTypesKept DEF BoundTypes
<1>2. UNCHANGED boundVars \/ Within(faults', delays', commands')
  BY BoundFrame DEF Fault, Delay
<1> QED BY <1>1, <1>2 DEF boundVars

(* The steps that change rows or progress.                                 *)
LEMMA PairFrame ==
  ASSUME [RollupNext]_allVars
  PROVE  \/ UNCHANGED rollupVars
         \/ \E w \in Workers :
              SeedChunk(w) \/ WalkRange(w) \/ EndWalk(w) \/ FinishRun(w)
         \/ SeedMissing \/ ApplyDelta \/ Restart
<1>1. ASSUME NEW w \in Workers,
             \/ Receive(w) \/ ResolveRun(w) \/ DetectWhales(w) \/ EndChunks(w)
             \/ RowsAreGone(w) \/ Advance(w) \/ Close(w) \/ Shrink(w)
             \/ Breaks(w) \/ Killed(w) \/ Redeliver(w)
      PROVE  UNCHANGED rollupVars
  BY <1>1 DEF Receive, ResolveRun, DetectWhales, EndChunks, RowsAreGone,
              Advance, Close, Shrink, Breaks, Killed, Redeliver
<1>2. ASSUME \/ LoseMessage \/ LockExpires \/ StartNightly \/ NightlyFails
             \/ SeeStalled \/ Resume \/ StartBackfill \/ WatchdogFails
             \/ BackfillCommand \/ HeadMoves \/ SafeCommits \/ Settle
             \/ UNCHANGED allVars
      PROVE  UNCHANGED rollupVars
  BY <1>2 DEF LoseMessage, LockExpires, StartNightly, NightlyFails, SeeStalled,
              Resume, StartBackfill, WatchdogFails, BackfillCommand,
              HeadMoves, SafeCommits, Settle, allVars
<1>3. ASSUME NEW r, GracePasses(r) PROVE UNCHANGED rollupVars
  BY <1>3 DEF GracePasses
<1> QED BY <1>1, <1>2, <1>3 DEF RollupNext, Work

LEMMA ProgressFrame ==
  ASSUME [RollupNext]_allVars
  PROVE  \/ UNCHANGED progressVars
         \/ \E w \in Workers :
              \/ ResolveRun(w) \/ SeedChunk(w) \/ DetectWhales(w)
              \/ WalkRange(w) \/ EndWalk(w) \/ FinishRun(w)
              \/ /\ TornStart /\ progress = NoProgress
                 /\ progress' = [head |-> headBlock, cursor |-> 0]
                 /\ UNCHANGED <<boundary, walked, whales>>
         \/ Restart
<1>1. ASSUME NEW w \in Workers,
             \/ Receive(w) \/ EndChunks(w) \/ RowsAreGone(w) \/ Advance(w)
             \/ Close(w) \/ Shrink(w) \/ Breaks(w) \/ Redeliver(w)
      PROVE  UNCHANGED progressVars
  BY <1>1 DEF Receive, EndChunks, RowsAreGone, Advance, Close, Shrink, Breaks,
              Redeliver
<1>2. ASSUME \/ LoseMessage \/ LockExpires \/ StartNightly \/ SeedMissing
             \/ ApplyDelta \/ NightlyFails \/ SeeStalled \/ Resume
             \/ StartBackfill \/ WatchdogFails \/ BackfillCommand
             \/ HeadMoves \/ SafeCommits \/ Settle \/ UNCHANGED allVars
      PROVE  UNCHANGED progressVars
  BY <1>2 DEF LoseMessage, LockExpires, StartNightly, SeedMissing, ApplyDelta,
              NightlyFails, SeeStalled, Resume, StartBackfill, WatchdogFails,
              BackfillCommand, HeadMoves, SafeCommits, Settle, allVars
<1>3. ASSUME NEW r, GracePasses(r) PROVE UNCHANGED progressVars
  BY <1>3 DEF GracePasses
<1>4. ASSUME NEW w \in Workers, Killed(w)
      PROVE  \/ UNCHANGED progressVars
             \/ /\ TornStart /\ progress = NoProgress
                /\ progress' = [head |-> headBlock, cursor |-> 0]
                /\ UNCHANGED <<boundary, walked, whales>>
  BY <1>4 DEF Killed, progressVars
<1> QED BY <1>1, <1>2, <1>3, <1>4 DEF RollupNext, Work

(* A page is what follows the cursor, up to the next cursor.               *)
LEMMA PageFollows ==
  ASSUME WorldTypes, ProgressTypes, NEW m \in Copies, boundary # NoBoundary,
         Page(m) # {}
  PROVE  /\ Max(Page(m)) \in progress.cursor + 1 .. boundary
         /\ Page(m) = progress.cursor + 1 .. Max(Page(m))
<1>1. /\ progress.cursor \in Nat /\ boundary \in 0 .. settled
      /\ boundary \in Nat /\ m.size \in Nat
  BY Erc20BalanceType DEF ProgressTypes, WorldTypes, Copies
<1>2. Candidates = progress.cursor + 1 .. boundary
  BY <1>1, SafesBetween DEF Candidates
<1>3. progress.cursor < boundary
  <2>1. Candidates # {}
    BY DEF Page, FirstOf
  <2> QED BY <1>1, <1>2, <2>1
<1>4. PICK c : /\ c = IF boundary <= progress.cursor + m.size
                      THEN boundary ELSE progress.cursor + m.size
               /\ Page(m) = progress.cursor + 1 .. c
  BY <1>1, <1>2, <1>3, FirstOfRange DEF Page
<1>5. c \in progress.cursor + 1 .. boundary /\ c \in Nat
  <2>1. c \in Int /\ c <= boundary
    BY <1>1, <1>4
  <2>2. c > progress.cursor
    BY <1>1, <1>4, <2>1
  <2> QED BY <1>1, <2>1, <2>2
<1>6. Max(Page(m)) = c
  BY <1>1, <1>4, <1>5, MaxOfRange
<1> QED BY <1>4, <1>5, <1>6

(* The block to which a range goes.                                        *)
LEMMA RangeEnds ==
  ASSUME WorldTypes, ProgressTypes, SliceTypes, RunTypes, NEW w \in Workers,
         WalkRange(w)
  PROVE  /\ walked' \in walked + 1 .. progress.head
         /\ progress.head \in 1 .. headBlock
<1>1. Acts(w)
  BY ActsMeans DEF WalkRange, InPhase
<1>2. slice[w].m.range \in Nat \ {0}
  BY <1>1, SliceFields, Erc20BalanceType DEF Copies
<1>3. walked \in Nat /\ progress.head \in 0 .. headBlock /\ headBlock \in Nat
  BY Erc20BalanceType DEF WorldTypes, ProgressTypes, Block
<1>4. walked' = Min({walked + slice[w].m.range, progress.head})
      /\ walked < progress.head
  BY DEF WalkRange
<1>5. walked' = IF walked + slice[w].m.range <= progress.head
                THEN walked + slice[w].m.range ELSE progress.head
  <2> PICK a, b : a = walked + slice[w].m.range /\ b = progress.head
    OBVIOUS
  <2>1. a \in Int /\ b \in Int
    BY <1>2, <1>3
  <2>2. Min({a, b}) = IF a <= b THEN a ELSE b
    BY <2>1, MinMaxOfTwo
  <2>3. walked' = Min({a, b})
    BY <1>4
  <2> QED BY <2>2, <2>3
<1>6. ASSUME NEW k \in Nat, NEW h \in Nat, k < h, NEW r \in Nat \ {0}, NEW x,
             x = IF k + r <= h THEN k + r ELSE h
      PROVE  x \in k + 1 .. h
  BY <1>6
<1>7. progress.head \in 1 .. headBlock /\ progress.head \in Nat
  BY <1>3, <1>4
<1>8. walked' \in walked + 1 .. progress.head
  BY <1>2, <1>3, <1>4, <1>5, <1>6, <1>7
<1> QED BY <1>7, <1>8

LEMMA PairTypesKept ==
  ASSUME RollupTypes, [RollupNext]_allVars
  PROVE  PairTypes'
<1>0. /\ WorldTypes /\ PairTypes /\ ProgressTypes /\ NightlyTypes
      /\ SliceTypes /\ RunTypes
  BY DEF RollupTypes
<1>n. /\ headBlock \in 0 .. MaxBlock /\ headBlock \in Nat /\ settled \in Nat
      /\ MaxBlock \in Nat /\ safes \subseteq AllSafes
      /\ DOMAIN pair \subseteq safes
  BY <1>0, Erc20BalanceType DEF WorldTypes, Block, PairTypes
<1>1. CASE UNCHANGED rollupVars
  <2>1. /\ WorldTypes' /\ headBlock <= headBlock' /\ safes \subseteq safes'
        /\ settled <= settled'
    BY <1>0, WorldGrows
  <2>2. headBlock' \in Nat /\ settled' \in Nat
    BY <2>1, Erc20BalanceType DEF WorldTypes, Block
  <2> QED BY <1>0, <1>1, <1>n, <2>1, <2>2 DEF rollupVars, PairTypes
<1>2. ASSUME NEW p, p \in [DOMAIN p -> Int], DOMAIN p \subseteq safes,
             pair' = p, UNCHANGED world, watermark' \in 0 .. headBlock,
             marker' \in 0 .. settled
      PROVE  PairTypes'
  BY <1>2 DEF PairTypes, world
<1>f. watermark \in 0 .. headBlock /\ marker \in 0 .. settled
  BY <1>0 DEF PairTypes
<1>h. progress.head \in 0 .. MaxBlock /\ progress.head \in 0 .. headBlock
  BY <1>0, <1>n DEF ProgressTypes
<1>3. ASSUME NEW w \in Workers, SeedChunk(w) PROVE PairTypes'
  <2> DEFINE new == Page(slice[w].m) \ whales
  <2>1. pair' = Seeded(new, progress.head) /\ UNCHANGED <<world, watermark, marker>>
    BY <1>3 DEF SeedChunk
  <2>2. new \in SUBSET safes
    BY DEF Page, FirstOf, Candidates
  <2> HIDE DEF new
  <2>3. /\ Seeded(new, progress.head)
             \in [DOMAIN Seeded(new, progress.head) -> Int]
        /\ DOMAIN Seeded(new, progress.head) \subseteq safes
    BY <1>0, <1>n, <1>h, <2>2, SeededValues
  <2> QED BY <1>2, <1>f, <2>1, <2>3
<1>4. ASSUME NEW some \in SUBSET safes, NEW from \in 0 .. MaxBlock,
             NEW to \in from .. MaxBlock
      PROVE  /\ WithFlows(some, from, to)
                  \in [DOMAIN WithFlows(some, from, to) -> Int]
             /\ DOMAIN WithFlows(some, from, to) \subseteq safes
  <2>1. DOMAIN WithFlows(some, from, to) \subseteq DOMAIN pair \cup some
    BY <1>0, FlowValues
  <2> QED BY <1>0, <1>n, <2>1, FlowValues
<1>5. ASSUME NEW w \in Workers, WalkRange(w) PROVE PairTypes'
  <2>1. PICK to : to = walked'
    OBVIOUS
  <2>2. pair' = WithFlows(Walkers, walked, to)
        /\ UNCHANGED <<world, watermark, marker>>
    BY <1>5, <2>1 DEF WalkRange
  <2>3. /\ walked \in 0 .. MaxBlock /\ to \in walked .. MaxBlock
        /\ Walkers \in SUBSET safes
    <3>1. to \in walked + 1 .. progress.head /\ walked \in 0 .. headBlock
      BY <1>0, <1>5, <2>1, RangeEnds DEF ProgressTypes
    <3> QED BY <1>n, <1>h, <3>1 DEF Walkers
  <2> QED BY <1>2, <1>4, <1>f, <2>2, <2>3
<1>6. ASSUME NEW p, p \in [DOMAIN p -> Int], DOMAIN p \subseteq safes, NEW some
      PROVE  /\ WithoutZeros(p, some) \in [DOMAIN WithoutZeros(p, some) -> Int]
             /\ DOMAIN WithoutZeros(p, some) \subseteq safes
  BY <1>6, NoZeroValues
<1>7. ASSUME NEW w \in Workers, EndWalk(w) PROVE PairTypes'
  <2>1. /\ pair' = pair \/ pair' = WithoutZeros(pair, Walkers)
        /\ UNCHANGED <<world, watermark, marker>>
    BY <1>7 DEF EndWalk
  <2>2. pair \in [DOMAIN pair -> Int]
    BY <1>0 DEF PairTypes
  <2> QED BY <1>2, <1>6, <1>f, <1>n, <2>1, <2>2
<1>8. ASSUME NEW w \in Workers, FinishRun(w) PROVE PairTypes'
  <2>1. /\ watermark' = progress.head /\ marker' = boundary
        /\ boundary # NoBoundary /\ UNCHANGED <<world, pair>>
    BY <1>8 DEF FinishRun, InPhase
  <2>2. boundary \in 0 .. settled /\ pair \in [DOMAIN pair -> Int]
    BY <1>0, <2>1 DEF ProgressTypes, PairTypes
  <2> QED BY <1>2, <1>h, <1>n, <2>1, <2>2
<1>m. nightly # AtRest =>
        /\ nightly.new \in SUBSET safes /\ nightly.bound \in 0 .. settled
        /\ nightly.head \in 0 .. headBlock /\ nightly.from \in 0 .. MaxBlock
        /\ nightly.head \in nightly.from .. MaxBlock
  BY <1>0, <1>n DEF NightlyTypes, Block
<1>9. ASSUME SeedMissing PROVE PairTypes'
  <2>1. /\ pair' = Seeded(nightly.new, nightly.from)
        /\ UNCHANGED <<world, watermark, marker>> /\ nightly # AtRest
    BY <1>9 DEF SeedMissing, AtRest
  <2>2. /\ Seeded(nightly.new, nightly.from)
             \in [DOMAIN Seeded(nightly.new, nightly.from) -> Int]
        /\ DOMAIN Seeded(nightly.new, nightly.from) \subseteq safes
    BY <1>0, <1>n, <1>m, <2>1, SeededValues
  <2> QED BY <1>2, <1>f, <2>1, <2>2
<1>10. ASSUME ApplyDelta PROVE PairTypes'
  <2> DEFINE p == WithFlows(Covered(nightly), nightly.from, nightly.head)
             gone == Touched(Covered(nightly), nightly.from, nightly.head)
  <2>1. /\ pair' = WithoutZeros(p, gone) /\ watermark' = nightly.head
        /\ marker' = nightly.bound /\ UNCHANGED world /\ nightly # AtRest
    BY <1>10 DEF ApplyDelta, AtRest
  <2>2. p \in [DOMAIN p -> Int] /\ DOMAIN p \subseteq safes
    BY <1>4, <1>m, <2>1 DEF Covered
  <2> HIDE DEF p, gone
  <2> QED BY <1>2, <1>6, <1>m, <2>1, <2>2
<1>11. ASSUME Restart PROVE PairTypes'
  <2>1. NoPairs \in [DOMAIN NoPairs -> Int] /\ DOMAIN NoPairs = {}
    BY DEF NoPairs
  <2>2. /\ pair' = NoPairs /\ watermark' = 0 /\ marker' = 0
        /\ UNCHANGED world
    BY <1>11 DEF Restart
  <2>3. 0 \in 0 .. headBlock /\ 0 \in 0 .. settled
    BY <1>n
  <2> QED BY <1>2, <2>1, <2>2, <2>3
<1> QED BY <1>1, <1>3, <1>5, <1>7, <1>8, <1>9, <1>10, <1>11, PairFrame

LEMMA ProgressTypesKept ==
  ASSUME RollupTypes, [RollupNext]_allVars
  PROVE  ProgressTypes'
<1>0. WorldTypes /\ ProgressTypes /\ SliceTypes /\ RunTypes
  BY DEF RollupTypes
<1>1. /\ WorldTypes' /\ headBlock <= headBlock' /\ safes \subseteq safes'
      /\ settled <= settled'
  BY <1>0, WorldGrows
<1>2. /\ headBlock \in Nat \ {0} /\ settled \in Nat
      /\ headBlock' \in Nat /\ settled' \in Nat
      /\ NoBoundary = -1 /\ NoProgress = [head |-> 0, cursor |-> 0]
  BY <1>0, <1>1, Erc20BalanceType
     DEF WorldTypes, Block, NoBoundary, NoProgress
<1>3. ASSUME NEW x, x \in [head : 0 .. headBlock, cursor : 0 .. settled]
      PROVE  x \in [head : 0 .. headBlock', cursor : 0 .. settled']
  BY <1>1, <1>2, <1>3
<1>4. CASE UNCHANGED progressVars
  <2>1. UNCHANGED <<progress, boundary, walked, whales>>
    BY <1>4 DEF progressVars
  <2>2. progress \in [head : 0 .. headBlock', cursor : 0 .. settled']
    BY <1>0, <1>3 DEF ProgressTypes
  <2> QED BY <1>0, <1>1, <1>2, <2>1, <2>2 DEF ProgressTypes
<1>5. ASSUME NEW w \in Workers, ResolveRun(w) PROVE ProgressTypes'
  <2>1. /\ UNCHANGED <<world, walked>> /\ whales' \subseteq safes
        /\ \/ /\ progress' = [head |-> headBlock, cursor |-> 0]
              /\ boundary' = settled
           \/ UNCHANGED <<progress, boundary>>
    BY <1>0, <1>5 DEF ResolveRun, RunBoundary, ProgressTypes
  <2>2. CASE UNCHANGED <<progress, boundary>>
    BY <1>0, <2>1, <2>2 DEF ProgressTypes, world
  <2>3. CASE /\ progress' = [head |-> headBlock, cursor |-> 0]
             /\ boundary' = settled
    BY <1>0, <1>2, <2>1, <2>3 DEF ProgressTypes, world
  <2> QED BY <2>1, <2>2, <2>3
<1>6. ASSUME NEW w \in Workers, SeedChunk(w) PROVE ProgressTypes'
  <2> DEFINE m == slice[w].m
  <2>1. /\ UNCHANGED <<world, boundary, walked, whales>> /\ Page(m) # {}
        /\ progress' = [progress EXCEPT !.cursor = Max(Page(m))]
        /\ progress # NoProgress /\ boundary # NoBoundary
        /\ slice[w].at = "chunks"
    BY <1>6 DEF SeedChunk, InPhase
  <2>2. m \in Copies
    BY <1>0, <2>1, ActsMeans, SliceFields
  <2> HIDE DEF m
  <2>3. Max(Page(m)) \in progress.cursor + 1 .. boundary
    BY <1>0, <2>1, <2>2, PageFollows
  <2>4. progress.cursor \in 0 .. settled /\ boundary \in 0 .. settled
    BY <1>0, <2>1 DEF ProgressTypes
  <2>5. Max(Page(m)) \in 0 .. settled
    BY <1>2, <2>3, <2>4
  <2>6. /\ progress' \in [head : 0 .. headBlock, cursor : 0 .. settled]
        /\ progress'.head = progress.head /\ progress.head # 0
    BY <1>0, <2>1, <2>5 DEF ProgressTypes
  <2> QED BY <1>0, <2>1, <2>6 DEF ProgressTypes, world
<1>7. ASSUME NEW w \in Workers, DetectWhales(w) PROVE ProgressTypes'
  <2>1. /\ UNCHANGED <<world, progress, boundary, walked>>
        /\ whales' \subseteq safes
    BY <1>0, <1>7 DEF DetectWhales, Page, FirstOf, Candidates, ProgressTypes
  <2> QED BY <1>0, <2>1 DEF ProgressTypes, world
<1>8. ASSUME NEW w \in Workers, WalkRange(w) PROVE ProgressTypes'
  <2>1. UNCHANGED <<world, progress, boundary, whales>>
    BY <1>8 DEF WalkRange
  <2>2. walked' \in walked + 1 .. progress.head /\ walked \in 0 .. headBlock
        /\ progress.head \in 0 .. headBlock
    BY <1>0, <1>8, RangeEnds DEF ProgressTypes
  <2>3. walked' \in 0 .. headBlock
    BY <1>2, <2>2
  <2> QED BY <1>0, <2>1, <2>3 DEF ProgressTypes, world
<1>9. ASSUME NEW w \in Workers, EndWalk(w) PROVE ProgressTypes'
  <2>1. /\ UNCHANGED <<world, progress, boundary, whales>>
        /\ walked' \in {0, walked}
    BY <1>9 DEF EndWalk
  <2> QED BY <1>0, <1>2, <2>1 DEF ProgressTypes, world
<1>10. ASSUME \/ \E w \in Workers : FinishRun(w)
              \/ Restart
       PROVE  ProgressTypes'
  <2>1. /\ progress' = NoProgress /\ boundary' = NoBoundary /\ walked' = 0
        /\ UNCHANGED <<world, whales>>
    BY <1>10 DEF FinishRun, Restart
  <2> QED BY <1>0, <1>2, <2>1 DEF ProgressTypes, world
<1>11. ASSUME progress' = [head |-> headBlock, cursor |-> 0],
              UNCHANGED <<boundary, walked, whales>>
       PROVE  ProgressTypes'
  <2>1. /\ progress'.head = headBlock
        /\ progress' \in [head : 0 .. headBlock, cursor : 0 .. settled]
    BY <1>2, <1>11
  <2>2. progress' \in [head : 0 .. headBlock', cursor : 0 .. settled']
    BY <1>3, <2>1
  <2> QED BY <1>0, <1>1, <1>2, <1>11, <2>1, <2>2 DEF ProgressTypes
<1> QED
  BY <1>4, <1>5, <1>6, <1>7, <1>8, <1>9, <1>10, <1>11, ProgressFrame

(* The chain: who holds the lock, and what its messages and copies are.    *)
LEMMA LockTypesKept ==
  ASSUME RollupTypes, [RollupNext]_allVars
  PROVE  LockTypes'
<1>0. LockTypes /\ ChainTypes /\ SliceTypes /\ RunTypes /\ QueueTypes
  BY DEF RollupTypes, ChainTypes
<1>a. /\ "free" \notin Workers /\ "dead" \notin Workers
      /\ "nightly" \notin Workers
      /\ \A s \in {"advance", "shrink", "failed", "finished", "idle"} :
           s \notin Phases
  BY Erc20BalanceType DEF Phases
<1>1. ASSUME UNCHANGED <<lock, slice, nightly>> PROVE LockTypes'
  BY <1>0, <1>1 DEF LockTypes
<1>2. ASSUME NEW w \in Workers, Others(w), lock' \in {"free", "dead"},
             lock = w, slice'[w].at \notin Phases, UNCHANGED nightly
      PROVE  LockTypes'
  BY <1>0, <1>2, <1>a DEF LockTypes, Others
<1>3. ASSUME NEW w \in Workers, Others(w), lock # w, UNCHANGED <<lock, nightly>>,
             slice'[w].at \notin Phases
      PROVE  LockTypes'
  BY <1>0, <1>3 DEF LockTypes, Others
<1>4. ASSUME NEW w \in Workers, Receive(w) PROVE LockTypes'
  <2>1. UNCHANGED nightly
    BY <1>4 DEF Receive, beatVars
  <2>2. PICK e \in DOMAIN queue :
          /\ e \in Messages(Len(runs))
          /\ \/ UNCHANGED <<slice, lock>>
             \/ /\ lock = "free" /\ lock' = w /\ Others(w)
                /\ slice'[w].at = e.phase
    BY <1>0, <1>4, Receives
  <2>3. e.phase \in Phases
    BY <2>2 DEF Messages
  <2>4. ASSUME lock = "free", lock' = w, Others(w), slice'[w].at = e.phase
        PROVE  LockTypes'
    BY <1>0, <1>a, <2>1, <2>3, <2>4 DEF LockTypes, Others
  <2> QED BY <1>1, <2>1, <2>2, <2>4
<1>5. ASSUME NEW w \in Workers,
             ResolveRun(w) \/ SeedChunk(w) \/ DetectWhales(w) \/ WalkRange(w)
      PROVE  LockTypes'
  <2>1. UNCHANGED <<lock, nightly>>
    BY <1>5 DEF ResolveRun, SeedChunk, DetectWhales, WalkRange, StepDone,
                beatVars
  <2>2. CASE ResolveRun(w) \/ DetectWhales(w)
    BY <1>1, <2>1, <2>2 DEF ResolveRun, DetectWhales
  <2>3. CASE SeedChunk(w) \/ WalkRange(w)
    <3>1. slice'[w].at = slice[w].at /\ Others(w)
      BY <1>0, <2>3, WorkSteps DEF Goes
    <3> QED BY <1>0, <2>1, <3>1 DEF LockTypes, Others
  <2> QED BY <1>5, <2>2, <2>3
<1>6. ASSUME NEW w \in Workers,
             \/ EndChunks(w) \/ EndWalk(w) \/ FinishRun(w) \/ RowsAreGone(w)
             \/ Breaks(w)
      PROVE  LockTypes'
  <2>1. UNCHANGED nightly
    BY <1>6 DEF EndChunks, EndWalk, FinishRun, RowsAreGone, Breaks, beatVars
  <2>2. /\ slice[w].at \in Phases /\ lock' = "free" /\ Others(w)
        /\ slice'[w].at \in {"advance", "shrink", "failed", "finished", "idle"}
    BY <1>0, <1>6, EndSteps, BreaksSteps DEF Goes, Ends
  <2> QED BY <1>0, <1>2, <1>a, <2>1, <2>2 DEF LockTypes
<1>7. ASSUME NEW w \in Workers, Advance(w) \/ Close(w) \/ Shrink(w)
      PROVE  LockTypes'
  <2>1. UNCHANGED <<lock, nightly>>
    BY <1>7 DEF Advance, Close, Shrink, beatVars
  <2>2. /\ slice[w].at \in {"advance", "shrink", "failed", "finished"}
        /\ slice'[w].at = "idle" /\ Others(w)
    BY <1>0, <1>7, AdvanceSteps, CloseSteps, ShrinkSteps DEF Ends
  <2> QED BY <1>0, <1>3, <1>a, <2>1, <2>2 DEF LockTypes
<1>8. ASSUME NEW w \in Workers, Killed(w) PROVE LockTypes'
  <2>1. UNCHANGED nightly /\ lock' = IF lock = w THEN "dead" ELSE lock
    BY <1>8 DEF Killed, beatVars
  <2>2. slice'[w].at = "idle" /\ Others(w)
    BY <1>0, <1>8, KilledSteps DEF Ends
  <2> QED BY <1>2, <1>3, <1>a, <2>1, <2>2
<1>9. ASSUME \/ \E w \in Workers : Redeliver(w)
             \/ LoseMessage \/ SeeStalled \/ Resume \/ StartBackfill
             \/ WatchdogFails \/ BackfillCommand \/ Restart \/ HeadMoves
             \/ SafeCommits \/ Settle \/ \E r \in 1 .. MaxRuns : GracePasses(r)
             \/ UNCHANGED allVars
      PROVE  UNCHANGED <<lock, slice, nightly>>
  BY <1>9 DEF Redeliver, LoseMessage, SeeStalled, Resume, StartBackfill,
              WatchdogFails, BackfillCommand, Restart, HeadMoves, SafeCommits,
              Settle, GracePasses, allVars, beatVars
<1>10. ASSUME lock' \in {"free", "dead", "nightly"}, lock \notin Workers,
              UNCHANGED slice, lock' = "nightly" <=> nightly' # AtRest
       PROVE  LockTypes'
  BY <1>0, <1>10, <1>a DEF LockTypes
<1>11. CASE LockExpires
  BY <1>0, <1>10, <1>11, <1>a DEF LockExpires, LockTypes, beatVars
<1>12. CASE StartNightly
  <2>1. /\ lock = "free" /\ lock' = "nightly" /\ UNCHANGED slice
        /\ nightly'.at = "seed"
    BY <1>12 DEF StartNightly
  <2>2. AtRest.at = "idle"
    BY DEF AtRest
  <2> QED BY <1>10, <1>a, <2>1, <2>2
<1>13. CASE SeedMissing
  <2>1. /\ UNCHANGED <<lock, slice>> /\ nightly.at = "seed"
        /\ nightly' = [nightly EXCEPT !.at = "delta"]
    BY <1>13 DEF SeedMissing
  <2>2. AtRest.at = "idle"
    BY DEF AtRest
  <2>3. nightly \in [at : {"seed", "delta"}, head : Block, from : Block,
                     new : SUBSET AllSafes, bound : Nat]
    BY <2>1, <2>2 DEF RollupTypes, NightlyTypes
  <2>4. nightly'.at = "delta"
    BY <2>1, <2>3
  <2> QED BY <1>0, <2>1, <2>2, <2>4 DEF LockTypes
<1>14. CASE ApplyDelta \/ NightlyFails
  <2>1. /\ lock' \in {"free", "dead"} /\ UNCHANGED slice /\ nightly' = AtRest
        /\ nightly # AtRest
    BY <1>14 DEF ApplyDelta, NightlyFails, AtRest
  <2> QED BY <1>0, <1>10, <1>a, <2>1 DEF LockTypes
<1> QED
  BY <1>1, <1>4, <1>5, <1>6, <1>7, <1>8, <1>9, <1>11, <1>12, <1>13, <1>14
     DEF RollupNext, Work

LEMMA SlicesGrow ==
  ASSUME RunTypes, RunTypes', Len(runs) <= Len(runs')
  PROVE  /\ Messages(Len(runs)) \subseteq Messages(Len(runs'))
         /\ SliceTasks(Len(runs)) \subseteq SliceTasks(Len(runs'))
         /\ Sights(Len(runs)) \subseteq Sights(Len(runs'))
<1> PICK k, n : k = Len(runs) /\ n = Len(runs')
  OBVIOUS
<1>1. k \in Nat /\ n \in Nat /\ k <= n
  BY DEF RunTypes
<1>2. 1 .. k \subseteq 1 .. n
  BY <1>1
<1>3. Messages(k) \subseteq Messages(n)
  BY <1>2 DEF Messages
<1>4. SliceTasks(k) \subseteq SliceTasks(n)
  BY <1>2, <1>3 DEF SliceTasks
<1>5. Sights(k) \subseteq Sights(n)
  BY <1>2 DEF Sights
<1> QED BY <1>3, <1>4, <1>5

LEMMA ChainTypesStep ==
  ASSUME ChainTypes, runs' \in Seq(Manifest), Len(runs) <= Len(runs'),
         UNCHANGED slice \/ slice' \in Slices,
         \/ UNCHANGED queue \/ Loses
         \/ \E e \in Messages(Len(runs')) : Gets(e),
         watchdog' \in {watchdog, AtRest} \cup Sights(Len(runs))
  PROVE  ChainTypes'
<1>1. RunTypes /\ RunTypes'
  BY DEF ChainTypes, RunTypes
<1>2. /\ Messages(Len(runs)) \subseteq Messages(Len(runs'))
      /\ SliceTasks(Len(runs)) \subseteq SliceTasks(Len(runs'))
      /\ Sights(Len(runs)) \subseteq Sights(Len(runs'))
  BY <1>1, SlicesGrow
<1>3. SliceTypes'
  <2>1. slice' \in [Workers -> {AtRest} \cup SliceTasks(Len(runs))]
    BY DEF ChainTypes, SliceTypes, Slices
  <2> QED BY <1>2, <2>1 DEF SliceTypes
<1>4. QueueTypes'
  BY <1>2 DEF ChainTypes, QueueTypes, Loses, Gets
<1>5. WatchdogTypes'
  BY <1>2 DEF ChainTypes, WatchdogTypes
<1> QED BY <1>1, <1>3, <1>4, <1>5 DEF ChainTypes

LEMMA ChainTypesKept ==
  ASSUME ChainTypes, [RollupNext]_allVars
  PROVE  ChainTypes' /\ Len(runs) <= Len(runs')
<1>0. /\ runs \in Seq(Manifest) /\ Len(runs) \in Nat /\ SliceTypes /\ RunTypes
      /\ QueueTypes /\ WatchdogTypes
  BY DEF ChainTypes, RunTypes
<1>1. ASSUME UNCHANGED <<runs, slice>>, UNCHANGED queue \/ Loses
             \/ \E e \in Messages(Len(runs)) : Gets(e),
             watchdog' \in {watchdog, AtRest} \cup Sights(Len(runs))
      PROVE  ChainTypes' /\ Len(runs) <= Len(runs')
  BY <1>0, <1>1, ChainTypesStep
<1>2. ASSUME NEW r, NEW state, NEW phase, NEW seq,
             Stores(r, state, phase, seq), UNCHANGED slice \/ slice' \in Slices,
             \/ UNCHANGED queue
             \/ \E e \in Messages(Len(runs)) : Gets(e),
             watchdog' \in {watchdog, AtRest}
      PROVE  ChainTypes' /\ Len(runs) <= Len(runs')
  BY <1>0, <1>2, ChainTypesStep DEF Stores
<1>3. ASSUME NEW r \in 1 .. Len(runs), NEW phase \in Phases, NEW seq \in Nat
      PROVE  [run |-> r, phase |-> phase, seq |-> seq + 1]
                \in Messages(Len(runs))
  BY DEF Messages
<1>4. ASSUME NEW w \in Workers, Receive(w)
      PROVE  ChainTypes' /\ Len(runs) <= Len(runs')
  <2>1. /\ UNCHANGED <<runs, watchdog>> /\ Loses
        /\ UNCHANGED slice \/ slice' \in Slices
    BY <1>0, <1>4, Receives DEF beatVars
  <2> QED BY <1>0, <2>1, ChainTypesStep
<1>5. ASSUME NEW w \in Workers, SeedChunk(w) \/ WalkRange(w)
      PROVE  ChainTypes' /\ Len(runs) <= Len(runs')
  <2>1. UNCHANGED <<queue, watchdog>>
    BY <1>5 DEF SeedChunk, WalkRange, StepDone, beatVars
  <2>2. /\ Stores(slice[w].run, "running", slice[w].m.phase, slice[w].m.seq)
        /\ slice' \in Slices
    BY <1>5, WorkSteps DEF Goes
  <2> QED BY <1>2, <2>1, <2>2
<1>6. ASSUME NEW w \in Workers,
             \/ EndChunks(w) \/ EndWalk(w) \/ FinishRun(w) \/ RowsAreGone(w)
             \/ Breaks(w)
      PROVE  ChainTypes' /\ Len(runs) <= Len(runs')
  <2>1. UNCHANGED <<runs, queue, watchdog>>
    BY <1>6 DEF EndChunks, EndWalk, FinishRun, RowsAreGone, Breaks, runVars,
                beatVars
  <2>2. slice' \in Slices
    BY <1>6, EndSteps, BreaksSteps DEF Goes, Ends
  <2> QED BY <1>0, <2>1, <2>2, ChainTypesStep
<1>7. ASSUME NEW w \in Workers, Advance(w) \/ Close(w) \/ Shrink(w)
      PROVE  ChainTypes' /\ Len(runs) <= Len(runs')
  <2> DEFINE c == slice[w]
  <2>1. UNCHANGED watchdog /\ (Close(w) => UNCHANGED queue)
    BY <1>7 DEF Advance, Close, Shrink, beatVars
  <2>2. Acts(w) /\ Ends(w)
    BY <1>7, AdvanceSteps, CloseSteps, ShrinkSteps
  <2>3. c.run \in 1 .. Len(runs) /\ c.m.seq \in Nat
        /\ (c.at # "finished" => c.m.phase \in Phases)
    BY <1>0, <2>2, SliceFields DEF Copies
  <2>4. \/ /\ Resends(c.run, c.m.phase, c.m.seq) /\ c.at # "finished"
        \/ /\ \E state : Stores(c.run, state, c.m.phase, c.m.seq)
           /\ UNCHANGED queue
    BY <1>7, <2>1, AdvanceSteps, CloseSteps, ShrinkSteps
  <2>5. CASE Resends(c.run, c.m.phase, c.m.seq) /\ c.at # "finished"
    BY <1>2, <1>3, <2>1, <2>2, <2>3, <2>5 DEF Resends, Ends
  <2>6. CASE /\ \E state : Stores(c.run, state, c.m.phase, c.m.seq)
             /\ UNCHANGED queue
    BY <1>2, <2>1, <2>2, <2>6 DEF Ends
  <2> QED BY <2>4, <2>5, <2>6
<1>8. ASSUME NEW w \in Workers, Killed(w)
      PROVE  ChainTypes' /\ Len(runs) <= Len(runs')
  <2>1. UNCHANGED watchdog
    BY <1>8 DEF Killed, beatVars
  <2>2. /\ Acts(w) /\ Ends(w) /\ UNCHANGED runs
        /\ Gets(slice[w].msg) \/ UNCHANGED queue
    BY <1>8, KilledSteps
  <2>3. slice[w].msg \in Messages(Len(runs))
    BY <1>0, <2>2, SliceFields
  <2> QED BY <1>0, <2>1, <2>2, <2>3, ChainTypesStep DEF Ends
<1>9. ASSUME NEW w \in Workers, Redeliver(w)
      PROVE  ChainTypes' /\ Len(runs) <= Len(runs')
  <2>1. /\ UNCHANGED <<runs, slice, watchdog>> /\ Acts(w)
        /\ queue' = queue (+) SetToBag({slice[w].msg})
    BY <1>9 DEF Redeliver, beatVars, Acts
  <2>2. slice[w].msg \in Messages(Len(runs)) /\ Gets(slice[w].msg)
    BY <1>0, <2>1, SliceFields, SendingGets
  <2> QED BY <1>1, <2>1, <2>2
<1>10. ASSUME LoseMessage
       PROVE  ChainTypes' /\ Len(runs) <= Len(runs')
  <2>1. UNCHANGED <<runs, slice, watchdog>>
    BY <1>10 DEF LoseMessage, beatVars
  <2>2. PICK e \in DOMAIN queue : queue' = queue (-) SetToBag({e})
    BY <1>10 DEF LoseMessage, BagToSet
  <2>3. Loses
    BY <1>0, <2>2, TakingLoses
  <2> QED BY <1>1, <2>1, <2>3
<1>11. ASSUME SeeStalled
       PROVE  ChainTypes' /\ Len(runs) <= Len(runs')
  <2>1. /\ UNCHANGED <<runs, queue, slice>> /\ Running
        /\ watchdog' = [at |-> "seen", run |-> Len(runs), m |-> Latest]
    BY <1>11 DEF SeeStalled, runVars
  <2>2. /\ Len(runs) \in 1 .. Len(runs) /\ Latest \in Manifest
        /\ Latest.state = "running"
    BY <1>0, <2>1 DEF Running, Latest
  <2>3. watchdog' \in Sights(Len(runs))
    BY <2>1, <2>2 DEF Sights
  <2> QED BY <1>1, <2>1, <2>3
<1>12. ASSUME Resume
       PROVE  ChainTypes' /\ Len(runs) <= Len(runs')
  <2>1. UNCHANGED slice
    BY <1>12 DEF Resume
  <2>2. /\ watchdog # AtRest /\ watchdog' = AtRest
        /\ \/ Resends(watchdog.run, watchdog.m.phase, watchdog.m.seq)
           \/ UNCHANGED <<runs, queue>>
    BY <1>12, ResumeSteps
  <2>3. /\ watchdog.run \in 1 .. Len(runs) /\ watchdog.m.phase \in Phases
        /\ watchdog.m.seq \in Nat
    BY <1>0, <2>2, WatchdogFields DEF Manifest, Copies
  <2>4. CASE Resends(watchdog.run, watchdog.m.phase, watchdog.m.seq)
    BY <1>2, <1>3, <2>1, <2>2, <2>3, <2>4 DEF Resends
  <2>5. CASE UNCHANGED <<runs, queue>>
    BY <1>1, <2>1, <2>2, <2>5
  <2> QED BY <2>2, <2>4, <2>5
<1>13. ASSUME StartBackfill \/ BackfillCommand \/ Restart
       PROVE  ChainTypes' /\ Len(runs) <= Len(runs')
  <2>1. UNCHANGED <<slice, watchdog>>
    BY <1>13 DEF StartBackfill, BackfillCommand, Restart, beatVars
  <2>2. PICK phase \in Phases : Starts(phase)
    BY <1>13, StartSteps, OrphanPhaseType DEF StartPhase, Phases
  <2>3. /\ runs' \in Seq(Manifest) /\ Len(runs') = Len(runs) + 1
        /\ Gets([run |-> Len(runs) + 1, phase |-> phase, seq |-> 1])
    BY <2>2 DEF Starts
  <2>4. [run |-> Len(runs) + 1, phase |-> phase, seq |-> 1]
            \in Messages(Len(runs'))
    BY <1>0, <2>3 DEF Messages
  <2> QED BY <1>0, <2>1, <2>3, <2>4, ChainTypesStep
<1>14. ASSUME WatchdogFails
       PROVE  ChainTypes' /\ Len(runs) <= Len(runs')
  BY <1>1, <1>14 DEF WatchdogFails, runVars
<1>15. ASSUME NEW r, GracePasses(r)
       PROVE  ChainTypes' /\ Len(runs) <= Len(runs')
  <2>1. UNCHANGED <<queue, slice, watchdog>>
    BY <1>15 DEF GracePasses, beatVars
  <2>2. runs' \in Seq(Manifest) /\ Len(runs') = Len(runs)
    BY <1>0, <1>15, GraceSteps
  <2> QED BY <1>0, <2>1, <2>2, ChainTypesStep
<1>16. ASSUME \/ \E w \in Workers : ResolveRun(w) \/ DetectWhales(w)
              \/ LockExpires \/ StartNightly \/ SeedMissing \/ ApplyDelta
              \/ NightlyFails \/ HeadMoves \/ SafeCommits \/ Settle
              \/ UNCHANGED allVars
       PROVE  UNCHANGED <<runs, queue, slice, watchdog>>
  BY <1>16 DEF ResolveRun, DetectWhales, LockExpires, StartNightly,
               SeedMissing, ApplyDelta, NightlyFails, HeadMoves, SafeCommits,
               Settle, allVars, runVars, beatVars
<1> QED
  BY <1>1, <1>4, <1>5, <1>6, <1>7, <1>8, <1>9, <1>10, <1>11, <1>12, <1>13,
     <1>14, <1>15, <1>16 DEF RollupNext, Work

LEMMA NightlyFrame ==
  ASSUME [RollupNext]_allVars
  PROVE  UNCHANGED nightly \/ StartNightly \/ SeedMissing \/ nightly' = AtRest
<1>1. ASSUME NEW w \in Workers,
             Receive(w) \/ Work(w) \/ Breaks(w) \/ Killed(w) \/ Redeliver(w)
      PROVE  UNCHANGED nightly
  BY <1>1 DEF Receive, Work, ResolveRun, SeedChunk, DetectWhales, EndChunks,
              WalkRange, EndWalk, FinishRun, RowsAreGone, Advance, Close,
              Shrink, Breaks, Killed, Redeliver, beatVars
<1>2. ASSUME \/ LoseMessage \/ LockExpires \/ SeeStalled \/ Resume
             \/ StartBackfill \/ WatchdogFails \/ BackfillCommand \/ Restart
             \/ HeadMoves \/ SafeCommits \/ Settle \/ UNCHANGED allVars
      PROVE  UNCHANGED nightly
  BY <1>2 DEF LoseMessage, LockExpires, SeeStalled, Resume, StartBackfill,
              WatchdogFails, BackfillCommand, Restart, HeadMoves, SafeCommits,
              Settle, allVars, beatVars
<1>3. ASSUME NEW r, GracePasses(r) PROVE UNCHANGED nightly
  BY <1>3 DEF GracePasses, beatVars
<1>4. ASSUME ApplyDelta \/ NightlyFails PROVE nightly' = AtRest
  BY <1>4 DEF ApplyDelta, NightlyFails
<1> QED BY <1>1, <1>2, <1>3, <1>4 DEF RollupNext

(* The nightly task takes the next MaxSeed settled Safes.                  *)
LEMMA NightlySteps ==
  ASSUME WorldTypes, PairTypes, StartNightly
  PROVE  \E bound \in marker .. settled :
           /\ bound = IF settled <= marker + MaxSeed THEN settled
                      ELSE marker + MaxSeed
           /\ nightly' = [at |-> "seed", head |-> headBlock,
                          from |-> watermark, new |-> marker + 1 .. bound,
                          bound |-> bound]
<1>1. /\ marker \in Nat /\ settled \in Nat /\ marker <= settled
      /\ MaxSeed \in Nat /\ MaxSeed > 0
  BY Erc20BalanceType DEF WorldTypes, PairTypes
<1> DEFINE all == {s \in safes : marker < s /\ s <= RunBoundary}
           new == FirstOf(all, MaxSeed)
<1>2. all = marker + 1 .. settled
  BY <1>1, SafesBetween DEF RunBoundary
<1>3. PICK c : /\ c = IF settled <= marker + MaxSeed THEN settled
                      ELSE marker + MaxSeed
               /\ new = marker + 1 .. c
  <2>1. FirstOf(marker + 1 .. settled, MaxSeed)
          = marker + 1 .. (IF settled <= marker + MaxSeed THEN settled
                           ELSE marker + MaxSeed)
    BY <1>1, FirstOfRange
  <2> HIDE DEF all
  <2> QED BY <1>2, <2>1
<1>4. c \in marker .. settled /\ c \in Nat
  BY <1>1, <1>3
<1>5. c = IF new = all THEN RunBoundary ELSE Max(new)
  <2>1. CASE c = settled
    BY <1>2, <1>3, <2>1 DEF RunBoundary
  <2>2. CASE c # settled
    <3>1. c = marker + MaxSeed /\ c < settled
      BY <1>1, <1>3, <2>2
    <3>2. settled \in marker + 1 .. settled /\ settled \notin marker + 1 .. c
      BY <1>1, <1>4, <3>1
    <3>3. new # all
      BY <1>2, <1>3, <3>2
    <3>4. Max(marker + 1 .. c) = c
      BY <1>1, <1>4, <3>1, MaxOfRange
    <3> QED BY <1>3, <3>3, <3>4
  <2> QED BY <2>1, <2>2
<1>6. nightly' = [at |-> "seed", head |-> headBlock, from |-> watermark,
                  new |-> new,
                  bound |-> IF new = all THEN RunBoundary ELSE Max(new)]
  BY DEF StartNightly
<1> HIDE DEF new, all
<1> QED BY <1>3, <1>4, <1>5, <1>6

LEMMA NightlyTypesKept ==
  ASSUME RollupTypes, [RollupNext]_allVars
  PROVE  NightlyTypes'
<1>0. WorldTypes /\ PairTypes /\ NightlyTypes
  BY DEF RollupTypes
<1>1. /\ WorldTypes' /\ headBlock <= headBlock' /\ safes \subseteq safes'
      /\ settled <= settled'
  BY <1>0, WorldGrows
<1>2. /\ headBlock \in Nat /\ settled \in Nat /\ headBlock' \in Nat
      /\ settled' \in Nat /\ safes \subseteq AllSafes
  BY <1>0, <1>1, Erc20BalanceType DEF WorldTypes, Block
<1>3. CASE UNCHANGED nightly
  BY <1>0, <1>1, <1>2, <1>3, Erc20BalanceType DEF NightlyTypes, Block
<1>4. CASE StartNightly
  <2>1. PICK bound \in marker .. settled :
          nightly' = [at |-> "seed", head |-> headBlock, from |-> watermark,
                      new |-> marker + 1 .. bound, bound |-> bound]
    BY <1>0, <1>4, NightlySteps
  <2>2. UNCHANGED world /\ watermark # 0
    BY <1>4 DEF StartNightly
  <2>3. watermark \in Block /\ watermark <= headBlock /\ headBlock \in Block
    BY <1>0, <2>2, Erc20BalanceType DEF PairTypes, WorldTypes, Block
  <2>4. bound \in 0 .. settled /\ bound \in Nat /\ marker \in Nat
    BY <1>0, <1>2 DEF PairTypes
  <2>5. marker + 1 .. bound \subseteq safes
    <3>1. \A s \in marker + 1 .. bound : s \in 1 .. settled
      BY <1>2, <2>4
    <3> QED BY <1>0, <3>1 DEF WorldTypes
  <2>6. marker + 1 .. bound \in SUBSET AllSafes
    BY <1>2, <2>5
  <2>7. nightly' \in [at : {"seed", "delta"}, head : Block, from : Block,
                     new : SUBSET AllSafes, bound : Nat]
    BY <2>1, <2>3, <2>4, <2>6
  <2>8. /\ nightly'.new = marker + 1 .. bound /\ nightly'.bound = bound
        /\ nightly'.head = headBlock /\ nightly'.from = watermark
        /\ safes' = safes /\ settled' = settled /\ headBlock' = headBlock
    BY <2>1, <2>2 DEF world
  <2>9. /\ nightly'.new \subseteq safes' /\ nightly'.bound \in 0 .. settled'
        /\ nightly'.head <= headBlock' /\ nightly'.from <= nightly'.head
    BY <1>2, <2>3, <2>4, <2>5, <2>8
  <2> QED BY <2>7, <2>9 DEF NightlyTypes
<1>5. CASE SeedMissing
  <2>1. /\ UNCHANGED world /\ nightly # AtRest
        /\ nightly' = [nightly EXCEPT !.at = "delta"]
    BY <1>5 DEF SeedMissing, AtRest
  <2> QED BY <1>0, <2>1 DEF NightlyTypes, world
<1>6. CASE nightly' = AtRest
  BY <1>6 DEF NightlyTypes
<1> QED BY <1>3, <1>4, <1>5, <1>6, NightlyFrame

LEMMA RollupTypesKept ==
  ASSUME RollupTypes, [RollupNext]_allVars
  PROVE  RollupTypes'
<1>1. WorldTypes' /\ BoundTypes'
  BY WorldGrows, BoundTypesKept DEF RollupTypes
<1>2. ChainTypes'
  BY ChainTypesKept DEF RollupTypes, ChainTypes
<1> QED
  BY <1>1, <1>2, PairTypesKept, ProgressTypesKept, LockTypesKept,
     NightlyTypesKept DEF RollupTypes, ChainTypes

(* The rows, messages, manifests and slices of the rollup have their       *)
(* types, and the lock is held by the task that works under it.            *)
THEOREM RollupTypeCorrect == RollupSpec => []RollupTypeOK
<1>1. ASSUME RollupTypes PROVE RollupTypeOK
  <2>0. /\ MaxBlock \in Nat /\ headBlock \in Nat /\ settled \in Nat
        /\ headBlock \in 1 .. MaxBlock
    BY <1>1, Erc20BalanceType DEF RollupTypes, WorldTypes, Block
  <2>1. /\ headBlock \in Block /\ safes \subseteq AllSafes
        /\ settled \in 0 .. MaxSafe /\ 1 .. settled \subseteq safes
    BY <1>1 DEF RollupTypes, WorldTypes
  <2>2. /\ DOMAIN pair \subseteq safes /\ \A s \in DOMAIN pair : pair[s] \in Int
        /\ watermark \in {0} \cup Block /\ marker \in 0 .. settled
    BY <1>1, <2>0 DEF RollupTypes, PairTypes, Block
  <2>3. /\ progress.head \in {0} \cup Block /\ progress.cursor \in 0 .. settled
        /\ boundary \in {NoBoundary} \cup 0 .. settled
        /\ walked \in 0 .. headBlock /\ whales \subseteq safes
    BY <1>1, <2>0 DEF RollupTypes, ProgressTypes, Block
  <2>4. lock \in {"free", "dead", "nightly"} \cup Workers
    BY <1>1 DEF RollupTypes, LockTypes
  <2>5. ASSUME NEW w \in Workers
        PROVE  /\ slice[w].at \in {"idle", "chunks", "whales", "finish",
                                   "advance", "shrink", "failed", "finished"}
               /\ lock = w <=> slice[w].at \in {"chunks", "whales", "finish"}
    <3>1. SliceTypes /\ RunTypes /\ LockTypes
      BY <1>1 DEF RollupTypes
    <3>2. CASE Acts(w)
      BY <3>1, <3>2, SliceFields DEF LockTypes, Phases
    <3>3. CASE ~Acts(w)
      BY <3>1, <3>3 DEF LockTypes, Phases, Acts, AtRest
    <3> QED BY <3>2, <3>3
  <2>6. /\ nightly.at \in {"idle", "seed", "delta"}
        /\ lock = "nightly" <=> nightly # AtRest
        /\ watchdog.at \in {"idle", "seen"}
    BY <1>1 DEF RollupTypes, NightlyTypes, LockTypes, WatchdogTypes, Sights,
                AtRest
  <2>7. ASSUME NEW r \in DOMAIN runs
        PROVE  /\ runs[r].state \in {"running", "failed", "finished"}
               /\ runs[r].phase \in {"chunks", "whales", "finish", "done"}
               /\ runs[r].size \in ChunkFloor .. ChunkSize
               /\ runs[r].range \in RangeFloor .. RangeSize
    <3>1. runs[r] \in Manifest
      BY <1>1 DEF RollupTypes, RunTypes
    <3> QED BY <3>1 DEF Manifest, Copies, Phases
  <2> QED BY <2>1, <2>2, <2>3, <2>4, <2>5, <2>6, <2>7 DEF RollupTypeOK
<1> QED BY <1>1, RollupInitTypes, RollupTypesKept, PTL DEF RollupSpec

-----------------------------------------------------------------------------
(***************************************************************************)
(* The rows are right.                                                     *)
(***************************************************************************)

(* A slice that works has the lock, and is the only task at work.          *)
LEMMA SliceWorks ==
  ASSUME RollupInv, NEW w \in Workers, slice[w].at \in Phases
  PROVE  /\ Acts(w) /\ lock = w /\ nightly = AtRest /\ watchdog = AtRest
         /\ slice[w].msg.phase = slice[w].at /\ slice[w].m \in Manifest
         /\ slice[w].run = Len(runs) /\ Running /\ runs # <<>>
<1>1. Acts(w)
  BY ActsMeans DEF RollupInv, RollupTypes, Phases
<1>2. lock = w /\ lock # "nightly"
  BY Erc20BalanceType DEF RollupInv, RollupTypes, LockTypes
<1>3. nightly = AtRest /\ watchdog = AtRest
  BY <1>2 DEF RollupInv, RollupTypes, LockTypes, Chain, WatchdogIsAlone
<1>4. /\ slice[w].msg.phase = slice[w].at /\ slice[w].m \in Manifest
      /\ slice[w].run \in 1 .. Len(runs)
  BY <1>1, SliceFields DEF RollupInv, RollupTypes, Phases
<1>5. slice[w].run = Len(runs) /\ IsRunning(Len(runs))
  BY <1>1 DEF RollupInv, Chain, SliceOfLatest
<1>6. runs # <<>>
  BY <1>4
<1> QED BY <1>1, <1>2, <1>3, <1>4, <1>5, <1>6 DEF Running, Latest, IsRunning

(* After the watermark is written, slices are about to end.                *)
LEMMA SlicesEndAfterWatermark ==
  ASSUME RollupInv, watermark # 0, NEW w \in Workers, Acts(w)
  PROVE  slice[w].at \in {"finish", "failed", "finished"}
<1>1. /\ slice[w].at \in Phases \cup {"advance", "shrink", "failed", "finished"}
      /\ slice[w].at \in Phases => slice[w].msg.phase = slice[w].at
      /\ slice[w].run \in 1 .. Len(runs)
  BY SliceFields DEF RollupInv, RollupTypes
<1>2. Running
  <2>1. IsRunning(Len(runs)) /\ runs # <<>>
    BY <1>1 DEF RollupInv, Chain, SliceOfLatest
  <2> QED BY <2>1 DEF Running, Latest, IsRunning
<1>3. CASE delays = 0
  <2>1. /\ Latest.phase = "finish" /\ slice[w].msg.phase = Latest.phase
        /\ slice[w].at \in {"shrink", "advance"} => Latest.phase # "finish"
    BY <1>2, <1>3 DEF RollupInv, NoDelay, SliceIsPunctual
  <2> QED BY <1>1, <2>1 DEF Phases
<1>4. CASE faults = 0 /\ commands = 0
  <2>1. PICK v \in Workers : slice[v].at = "finished"
    BY <1>2, <1>4 DEF RollupInv, NoFault
  <2>2. Acts(v)
    BY <2>1, ActsMeans DEF RollupInv, RollupTypes
  <2>3. v = w
    BY <2>2 DEF RollupInv, Chain, OneSlice
  <2> QED BY <2>1, <2>3
<1> QED BY <1>3, <1>4 DEF RollupInv

(* What a slice of a phase finds.                                          *)
LEMMA PhaseFinds ==
  ASSUME RollupInv, NEW w \in Workers, NEW phase, phase \in Phases,
         InPhase(w, phase)
  PROVE  /\ watermark = 0 /\ nightly = AtRest /\ Fits(phase)
         /\ progress # NoProgress /\ boundary \in Nat /\ boundary <= settled
         /\ progress.head \in 1 .. headBlock /\ progress.cursor \in Nat
         /\ RowsOfBackfill /\ progress.cursor <= boundary /\ walked \in Nat
<1>1. /\ slice[w].at = phase /\ progress # NoProgress
      /\ boundary # NoBoundary
  BY DEF InPhase
<1>2. /\ Acts(w) /\ nightly = AtRest /\ slice[w].msg.phase = phase
      /\ Running
  BY <1>1, SliceWorks
<1>3. watermark = 0
  BY <1>1 DEF RollupInv, RightRows, RowsOfNothing
<1>4. Fits(phase)
  BY <1>2, <1>3 DEF RollupInv, Ahead
<1>5. settled \in Nat /\ headBlock \in Nat /\ boundary \in 0 .. settled
      /\ progress.head \in 0 .. headBlock /\ progress.head # 0
      /\ progress.cursor \in 0 .. settled /\ walked \in 0 .. headBlock
  BY <1>1, Erc20BalanceType
     DEF RollupInv, RollupTypes, WorldTypes, ProgressTypes, Block
<1>6. RowsOfBackfill /\ progress.cursor <= boundary
  BY <1>1 DEF RollupInv, RightRows, RowsOfBackfill
<1> QED BY <1>1, <1>2, <1>3, <1>4, <1>5, <1>6

LEMMA RightWhileBackfill ==
  ASSUME nightly' = AtRest, watermark' = 0, progress' # NoProgress,
         boundary' # NoBoundary, RowsOfBackfill'
  PROVE  RightRows'
  BY DEF RightRows, RowsOfNothing, RowsOfRollup, NightlyIsRight

LEMMA RightAfterBackfill ==
  ASSUME watermark' # 0, progress' = NoProgress, boundary' = NoBoundary,
         walked' = 0, RowsOfRollup', NightlyIsRight'
  PROVE  RightRows'
  BY DEF RightRows, RowsOfNothing, RowsOfBackfill

LEMMA ValueIsIn == \A s : Value(s) = ValueIn(pair, s)
  BY DEF Value, ValueIn

LEMMA ValueIsInNext == \A s : Value(s)' = ValueIn(pair', s)
  BY DEF Value, ValueIn

(* A chunk seeds what follows the cursor, and the cursor is set after it.  *)
LEMMA SeedChunkRows ==
  ASSUME RollupInv, NEW w \in Workers, SeedChunk(w)
  PROVE  RightRows'
<1> DEFINE page == Page(slice[w].m)
           new == page \ whales
<1>1. /\ InPhase(w, "chunks") /\ page # {}
      /\ pair' = Seeded(new, progress.head)
      /\ progress' = [progress EXCEPT !.cursor = Max(page)]
      /\ boundary' = boundary /\ walked' = walked /\ whales' = whales
      /\ watermark' = watermark /\ nightly' = nightly
  BY DEF SeedChunk, beatVars
<1>2. /\ watermark = 0 /\ nightly = AtRest /\ progress # NoProgress
      /\ boundary \in Nat /\ boundary # NoBoundary
      /\ progress.cursor \in Nat /\ RowsOfBackfill
      /\ progress.head \in 0 .. MaxBlock
  <2>1. progress.head \in 1 .. headBlock /\ headBlock \in 1 .. MaxBlock
        /\ MaxBlock \in Nat
    BY <1>1, PhaseFinds, Erc20BalanceType
       DEF Phases, RollupInv, RollupTypes, WorldTypes, Block
  <2> QED BY <1>1, <2>1, PhaseFinds DEF Phases, NoBoundary
<1>3. slice[w].m \in Copies
  BY <1>1, SliceWorks DEF InPhase, Phases, Manifest
<1>4. PICK c \in progress.cursor + 1 .. boundary :
        c = Max(page) /\ page = progress.cursor + 1 .. c
  BY <1>1, <1>2, <1>3, PageFollows DEF RollupInv, RollupTypes
<1>5. new \in SUBSET safes
  BY DEF Page, FirstOf, Candidates
<1>6. progress'.head = progress.head /\ progress'.cursor = c
  BY <1>1, <1>4 DEF RollupInv, RollupTypes, ProgressTypes
<1> HIDE DEF page
<1>n. /\ c \in Nat /\ progress.cursor < c /\ c <= boundary
      /\ \A s : s \in page <=> s \in progress.cursor + 1 .. c
  <2>1. progress.cursor \in Nat /\ boundary \in Nat
    BY <1>2
  <2>2. c \in progress.cursor + 1 .. boundary
    OBVIOUS
  <2>3. c \in Nat /\ progress.cursor < c /\ c <= boundary
    BY <2>1, <2>2
  <2>4. \A s : s \in page <=> s \in progress.cursor + 1 .. c
    BY <1>4
  <2> QED BY <2>3, <2>4
<1>7. /\ DOMAIN pair' \subseteq DOMAIN pair \cup new
      /\ \A s \in DOMAIN pair : ValueIn(pair', s) = ValueIn(pair, s)
      /\ \A s \in new \ DOMAIN pair : ValueIn(pair', s) = Balance(s, progress.head)
      /\ \A s : s \notin new => ValueIn(pair', s) = ValueIn(pair, s)
  <2> HIDE DEF new
  <2>1. PairTypes /\ WorldTypes
    BY DEF RollupInv, RollupTypes
  <2>2. PICK p : p = Seeded(new, progress.head)
    OBVIOUS
  <2>3. /\ DOMAIN p \subseteq DOMAIN pair \cup new
        /\ \A s \in DOMAIN pair : ValueIn(p, s) = ValueIn(pair, s)
        /\ \A s \in new \ DOMAIN pair : ValueIn(p, s) = Balance(s, progress.head)
        /\ \A s : s \notin new => ValueIn(p, s) = ValueIn(pair, s)
    BY <1>2, <1>5, <2>1, <2>2, SeededValues
  <2>4. pair' = p
    BY <1>1, <2>2
  <2> QED BY <2>3, <2>4
<1>8. /\ walked <= progress.head /\ walked = 0
      /\ \A s \in DOMAIN pair : s <= boundary
      /\ \A s \in 1 .. boundary : RowOfBackfill(s)
  BY <1>2, <1>n DEF RowsOfBackfill
<1>9. ASSUME NEW s \in 1 .. boundary PROVE RowOfBackfill(s)'
  <2>1. RowOfBackfill(s) /\ s \in Nat
    BY <1>2, <1>8
  <2>2. CASE s \in whales
    <3>1. s \notin new
      BY <2>2
    <3> QED BY <1>1, <1>7, <2>1, <2>2, <3>1, ValueIsIn, ValueIsInNext
            DEF RowOfBackfill
  <2>3. CASE s \notin whales /\ s <= progress.cursor
    <3>1. s \notin new /\ s <= c
      BY <1>2, <1>n, <2>1, <2>3
    <3> QED BY <1>1, <1>6, <1>7, <2>1, <2>3, <3>1, ValueIsIn, ValueIsInNext
            DEF RowOfBackfill
  <2>4. CASE s \notin whales /\ s > progress.cursor /\ s <= c
    <3>1. s \in new /\ s \notin DOMAIN pair
      BY <1>2, <1>n, <2>1, <2>4 DEF RowOfBackfill
    <3> QED BY <1>1, <1>6, <1>7, <2>1, <2>4, <3>1, ValueIsInNext
            DEF RowOfBackfill
  <2>5. CASE s \notin whales /\ s > c
    <3>1. s \notin new /\ s \notin DOMAIN pair
      BY <1>2, <1>n, <2>1, <2>5 DEF RowOfBackfill
    <3>2. s \notin DOMAIN pair' /\ ~(s <= c)
      BY <1>7, <1>n, <2>1, <2>5, <3>1
    <3> QED BY <1>1, <1>6, <2>5, <3>2 DEF RowOfBackfill
  <2> QED BY <1>2, <1>n, <2>1, <2>2, <2>3, <2>4, <2>5
<1>10. \A s \in DOMAIN pair' : s <= boundary
  BY <1>2, <1>7, <1>8, <1>n
<1>11. RowsOfBackfill'
  BY <1>1, <1>6, <1>8, <1>9, <1>10, <1>n DEF RowsOfBackfill
<1>12. progress' # NoProgress
  <2>1. progress.head # 0
    BY <1>2 DEF RollupInv, RollupTypes, ProgressTypes
  <2> QED BY <1>6, <2>1 DEF NoProgress
<1> QED BY <1>1, <1>2, <1>11, <1>12, RightWhileBackfill

(* A Safe that has turned out to be a whale has no row yet.                *)
LEMMA DetectWhalesRows ==
  ASSUME RollupInv, NEW w \in Workers, DetectWhales(w)
  PROVE  RightRows'
<1> DEFINE page == Page(slice[w].m)
           found == page \cap Heavy
<1>1. /\ InPhase(w, "chunks") /\ whales' = whales \cup found
      /\ ~(found \subseteq whales)
      /\ progress' = progress /\ boundary' = boundary /\ walked' = walked
      /\ pair' = pair /\ watermark' = watermark /\ nightly' = nightly
  BY DEF DetectWhales, rollupVars, beatVars
<1>2. /\ watermark = 0 /\ nightly = AtRest /\ progress # NoProgress
      /\ boundary \in Nat /\ boundary # NoBoundary
      /\ progress.cursor \in Nat /\ RowsOfBackfill
  BY <1>1, PhaseFinds DEF Phases, NoBoundary
<1>3. slice[w].m \in Copies
  BY <1>1, SliceWorks DEF InPhase, Phases, Manifest
<1>4. PICK c \in progress.cursor + 1 .. boundary :
        page = progress.cursor + 1 .. c
  <2>1. page # {}
    BY <1>1
  <2> QED BY <1>1, <1>2, <1>3, <2>1, PageFollows DEF RollupInv, RollupTypes
<1>5. /\ progress.cursor < boundary
      /\ \A s \in page : s \in 1 .. boundary /\ s > progress.cursor
  BY <1>2, <1>4
<1> HIDE DEF page
<1>6. /\ walked = 0 /\ walked <= progress.head
      /\ progress.cursor <= boundary
      /\ \A s \in DOMAIN pair : s <= boundary
      /\ \A s \in 1 .. boundary : RowOfBackfill(s)
  BY <1>2, <1>5 DEF RowsOfBackfill
<1>7. ASSUME NEW s \in 1 .. boundary PROVE RowOfBackfill(s)'
  <2>1. RowOfBackfill(s)
    BY <1>6
  <2>2. CASE s \in whales \/ s \notin found
    BY <1>1, <2>1, <2>2, ValueIsIn, ValueIsInNext DEF RowOfBackfill
  <2>3. CASE s \notin whales /\ s \in found
    <3>1. s \notin DOMAIN pair
      BY <1>5, <2>1, <2>3 DEF RowOfBackfill
    <3>2. Value(s)' = 0 /\ Balance(s, walked) = 0 /\ s \in whales'
      BY <1>1, <1>6, <2>3, <3>1 DEF Value, Balance
    <3>3. Balance(s, walked)' = Balance(s, walked)
      BY <1>1 DEF Balance
    <3> QED BY <3>2, <3>3 DEF RowOfBackfill
  <2> QED BY <2>2, <2>3
<1>8. RowsOfBackfill'
  BY <1>1, <1>6, <1>7 DEF RowsOfBackfill
<1> QED BY <1>1, <1>2, <1>8, RightWhileBackfill

(* A backfill begins with the head, the boundary, and nothing else.        *)
LEMMA ResolveRunRows ==
  ASSUME RollupInv, NEW w \in Workers, ResolveRun(w)
  PROVE  RightRows'
<1>1. /\ slice[w].at = "chunks" /\ progress = NoProgress
      /\ progress' = [head |-> headBlock, cursor |-> 0]
      /\ boundary' = settled /\ walked' = walked
      /\ pair' = pair /\ watermark' = watermark /\ nightly' = nightly
  BY DEF ResolveRun, MayRefresh, RunBoundary, rollupVars, beatVars
<1>2. Acts(w) /\ nightly = AtRest
  BY <1>1, SliceWorks DEF Phases
<1>3. watermark = 0
  BY <1>1, <1>2, SlicesEndAfterWatermark
<1>4. DOMAIN pair = {} /\ walked = 0
  BY <1>1, <1>3 DEF RollupInv, RightRows, RowsOfNothing
<1>5. headBlock \in Nat \ {0} /\ settled \in Nat
  BY Erc20BalanceType DEF RollupInv, RollupTypes, WorldTypes, Block
<1>6. /\ progress' # NoProgress /\ boundary' # NoBoundary
      /\ progress'.head = headBlock /\ progress'.cursor = 0
  BY <1>1, <1>5 DEF NoProgress, NoBoundary
<1>7. ASSUME NEW s \in 1 .. settled PROVE RowOfBackfill(s)'
  <2>1. Value(s)' = 0 /\ Balance(s, walked)' = 0
    BY <1>1, <1>4 DEF Value, Balance
  <2> QED BY <1>1, <1>4, <1>5, <1>6, <2>1 DEF RowOfBackfill
<1>8. RowsOfBackfill'
  BY <1>1, <1>4, <1>5, <1>6, <1>7 DEF RowsOfBackfill
<1> QED BY <1>1, <1>2, <1>3, <1>6, <1>8, RightWhileBackfill

(* A range takes the whales from one block to another.                     *)
LEMMA WalkRangeRows ==
  ASSUME RollupInv, NEW w \in Workers, WalkRange(w)
  PROVE  RightRows'
<1>0. PICK to : to = walked'
  OBVIOUS
<1>1. /\ InPhase(w, "whales") /\ pair' = WithFlows(Walkers, walked, to)
      /\ progress' = progress /\ boundary' = boundary /\ whales' = whales
      /\ watermark' = watermark /\ nightly' = nightly
  BY <1>0 DEF WalkRange, beatVars
<1>2. /\ watermark = 0 /\ nightly = AtRest /\ progress # NoProgress
      /\ boundary \in Nat /\ boundary # NoBoundary /\ Fits("whales")
      /\ progress.cursor \in Nat /\ RowsOfBackfill /\ walked \in Nat
      /\ progress.head \in Nat /\ progress.head <= MaxBlock
  <2>1. progress.head \in 1 .. headBlock /\ headBlock \in 1 .. MaxBlock
        /\ MaxBlock \in Nat
    BY <1>1, PhaseFinds, Erc20BalanceType
       DEF Phases, RollupInv, RollupTypes, WorldTypes, Block
  <2> QED BY <1>1, <2>1, PhaseFinds DEF Phases, NoBoundary
<1>3. to \in walked + 1 .. progress.head
  BY <1>0, RangeEnds DEF RollupInv, RollupTypes
<1>4. /\ walked \in 0 .. MaxBlock /\ to \in walked .. MaxBlock
      /\ Walkers \in SUBSET safes /\ safes \subseteq AllSafes
      /\ MaxBlock \in Nat
  BY <1>2, <1>3, Erc20BalanceType
     DEF Walkers, RollupInv, RollupTypes, WorldTypes
<1>5. /\ DOMAIN pair' \subseteq DOMAIN pair \cup Walkers
      /\ \A s \in Walkers : ValueIn(pair', s) =
           ValueIn(pair, s) + Balance(s, to) - Balance(s, walked)
      /\ \A s : s \notin Walkers =>
           /\ ValueIn(pair', s) = ValueIn(pair, s)
           /\ s \in DOMAIN pair' <=> s \in DOMAIN pair
  BY <1>1, <1>4, FlowValues DEF RollupInv, RollupTypes
<1>6. /\ progress.cursor = boundary
      /\ \A s \in DOMAIN pair : s <= boundary
      /\ \A s \in 1 .. boundary : RowOfBackfill(s)
  BY <1>2 DEF RowsOfBackfill, Fits
<1>7. ASSUME NEW s \in 1 .. boundary PROVE RowOfBackfill(s)'
  <2>1. RowOfBackfill(s)
    BY <1>6
  <2>2. CASE s \in whales
    <3>1. s \in Walkers
      BY <2>2 DEF Walkers, RollupInv, RollupTypes, ProgressTypes
    <3>2. Balance(s, walked) \in Int /\ Balance(s, to) \in Int
      BY <1>4, <3>1, BalanceType
    <3>3. ValueIn(pair, s) = Balance(s, walked)
      BY <2>1, <2>2, ValueIsIn DEF RowOfBackfill
    <3>4. ValueIn(pair', s) = Balance(s, to)
      BY <1>5, <3>1, <3>2, <3>3
    <3>5. Balance(s, walked)' = Balance(s, to)
      BY <1>0 DEF Balance
    <3> QED BY <1>1, <2>2, <3>4, <3>5, ValueIsInNext DEF RowOfBackfill
  <2>3. CASE s \notin whales
    <3>1. s \notin Walkers
      BY <2>3 DEF Walkers
    <3> QED BY <1>1, <1>5, <2>1, <2>3, <3>1, ValueIsIn, ValueIsInNext
            DEF RowOfBackfill
  <2> QED BY <2>2, <2>3
<1>8. \A s \in DOMAIN pair' : s <= boundary
  BY <1>5, <1>6 DEF Walkers
<1>9. RowsOfBackfill'
  BY <1>0, <1>1, <1>2, <1>3, <1>6, <1>7, <1>8 DEF RowsOfBackfill
<1> QED BY <1>1, <1>2, <1>9, RightWhileBackfill

(* The walk ends: whales whose rows have come to zero lose them.           *)
LEMMA EndWalkRows ==
  ASSUME RollupInv, NEW w \in Workers, EndWalk(w)
  PROVE  RightRows'
<1>1. /\ InPhase(w, "whales")
      /\ \/ Walkers = {} /\ walked' = 0
         \/ walked' = walked
      /\ pair' = pair \/ pair' = WithoutZeros(pair, Walkers)
      /\ progress' = progress /\ boundary' = boundary /\ whales' = whales
      /\ watermark' = watermark /\ nightly' = nightly
  BY DEF EndWalk, beatVars
<1>2. /\ watermark = 0 /\ nightly = AtRest /\ progress # NoProgress
      /\ boundary \in Nat /\ boundary # NoBoundary /\ walked \in Nat
      /\ progress.head \in Nat /\ RowsOfBackfill
  <2>1. progress.head \in 1 .. headBlock /\ headBlock \in 1 .. MaxBlock
        /\ MaxBlock \in Nat
    BY <1>1, PhaseFinds, Erc20BalanceType
       DEF Phases, RollupInv, RollupTypes, WorldTypes, Block
  <2> QED BY <1>1, <2>1, PhaseFinds DEF Phases, NoBoundary
<1>3. /\ DOMAIN pair' \subseteq DOMAIN pair
      /\ \A s : ValueIn(pair', s) = ValueIn(pair, s)
  <2>1. pair \in [DOMAIN pair -> Int]
    BY DEF RollupInv, RollupTypes, PairTypes
  <2>2. PICK p : p = WithoutZeros(pair, Walkers)
    OBVIOUS
  <2>3. /\ DOMAIN p \subseteq DOMAIN pair
        /\ \A s : ValueIn(p, s) = ValueIn(pair, s)
    BY <2>1, <2>2, NoZeroValues
  <2> QED BY <1>1, <2>2, <2>3
<1>4. /\ progress.cursor <= boundary /\ walked <= progress.head
      /\ walked = 0 \/ progress.cursor = boundary
      /\ \A s \in DOMAIN pair : s <= boundary
      /\ \A s \in 1 .. boundary : RowOfBackfill(s)
  BY <1>2 DEF RowsOfBackfill
<1>5. ASSUME NEW s \in 1 .. boundary PROVE RowOfBackfill(s)'
  <2>1. RowOfBackfill(s)
    BY <1>4
  <2>2. CASE s \in whales
    <3>1. s \in Walkers
      BY <1>2, <2>2 DEF Walkers, RollupInv, RollupTypes, ProgressTypes
    <3>2. Balance(s, walked)' = Balance(s, walked)
      BY <1>1, <3>1 DEF Balance
    <3> QED BY <1>1, <1>3, <2>1, <2>2, <3>2, ValueIsIn, ValueIsInNext
            DEF RowOfBackfill
  <2>3. CASE s \notin whales
    BY <1>1, <1>3, <2>1, <2>3, ValueIsIn, ValueIsInNext DEF RowOfBackfill
  <2> QED BY <2>2, <2>3
<1>6. RowsOfBackfill'
  BY <1>1, <1>2, <1>3, <1>4, <1>5 DEF RowsOfBackfill
<1> QED BY <1>1, <1>2, <1>6, RightWhileBackfill

(* Whoever is counted has a positive row up to the bound.                  *)
LEMMA HoldersCounted ==
  ASSUME NEW p, NEW bound \in Nat, NEW n, \A s \in DOMAIN p : s \in 1 .. bound,
         \A s \in 1 .. bound : ValueIn(p, s) = Balance(s, n)
  PROVE  Holders(p) = {s \in 1 .. bound : Balance(s, n) > 0}
  BY DEF Holders, ValueIn

(* The table is handed over when chunks and whales are as of the head.     *)
LEMMA FinishRunRows ==
  ASSUME RollupInv, NEW w \in Workers, FinishRun(w)
  PROVE  RightRows'
<1>1. /\ InPhase(w, "finish")
      /\ watermark' = progress.head /\ marker' = boundary
      /\ holders' = Holders(pair) /\ pair' = pair /\ settled' = settled
      /\ progress' = NoProgress /\ boundary' = NoBoundary /\ walked' = 0
      /\ nightly' = nightly
  BY DEF FinishRun, beatVars, world
<1>2. /\ nightly = AtRest /\ Fits("finish") /\ RowsOfBackfill
      /\ progress # NoProgress /\ boundary \in Nat /\ boundary <= settled
      /\ progress.head # 0 /\ settled \in Nat
  <2>1. /\ nightly = AtRest /\ Fits("finish") /\ RowsOfBackfill
        /\ progress # NoProgress /\ boundary \in Nat /\ boundary <= settled
        /\ progress.head \in 1 .. headBlock /\ headBlock \in Nat
    BY <1>1, PhaseFinds, Erc20BalanceType
       DEF Phases, RollupInv, RollupTypes, WorldTypes, Block
  <2>2. settled \in Nat
    BY Erc20BalanceType DEF RollupInv, RollupTypes, WorldTypes
  <2> QED BY <2>1, <2>2
<1>3. /\ progress.cursor = boundary
      /\ walked = progress.head \/ \A s \in whales : s > boundary
      /\ \A s \in DOMAIN pair : s <= boundary
      /\ \A s \in 1 .. boundary : RowOfBackfill(s)
  BY <1>2 DEF RowsOfBackfill, Fits
<1>4. \A s \in DOMAIN pair : s \in 1 .. boundary
  <2>1. \A s \in DOMAIN pair : s \in Nat /\ s >= 1
    BY SafesAreNumbers DEF RollupInv, RollupTypes, PairTypes, WorldTypes
  <2> QED BY <1>2, <1>3, <2>1
<1>5. ASSUME NEW s \in 1 .. boundary
      PROVE  Value(s) = Balance(s, progress.head)
  <2>1. RowOfBackfill(s) /\ s \in Nat /\ s <= boundary
    BY <1>2, <1>3
  <2>2. CASE s \in whales
    <3>1. walked = progress.head
      BY <1>2, <1>3, <2>1, <2>2
    <3> QED BY <2>1, <2>2, <3>1 DEF RowOfBackfill
  <2>3. CASE s \notin whales
    BY <1>3, <2>1, <2>3 DEF RowOfBackfill
  <2> QED BY <2>2, <2>3
<1>6. Holders(pair) = {s \in 1 .. boundary : Balance(s, progress.head) > 0}
  <2>1. \A s \in 1 .. boundary : ValueIn(pair, s) = Balance(s, progress.head)
    BY <1>5, ValueIsIn
  <2> QED BY <1>2, <1>4, <2>1, HoldersCounted
<1>7. PICK n : n = progress.head
  OBVIOUS
<1>8. RowsOfRollup'
  <2>1. \A s \in DOMAIN pair : s <= settled /\ s <= boundary + MaxSeed
    BY <1>2, <1>4, Erc20BalanceType
  <2>2. \A s \in DOMAIN pair' \cup 1 .. marker' : Value(s)' = Balance(s, n)
    BY <1>1, <1>4, <1>5, <1>7, ValueIsIn, ValueIsInNext
  <2>3. /\ holders' = {s \in 1 .. marker' : Balance(s, n) > 0}
        /\ watermark' = n
    BY <1>1, <1>6, <1>7
  <2>4. \A s : Balance(s, watermark)' = Balance(s, n)
    BY <2>3 DEF Balance
  <2>5. holders' = {s \in 1 .. marker' : Balance(s, watermark)' > 0}
    BY <2>3, <2>4, Zenon
  <2> QED BY <1>1, <2>1, <2>2, <2>4, <2>5 DEF RowsOfRollup
<1>9. NightlyIsRight'
  BY <1>1, <1>2 DEF NightlyIsRight
<1> QED BY <1>1, <1>2, <1>8, <1>9, RightAfterBackfill

(* What there is when the nightly task works.                              *)
LEMMA NightlyFinds ==
  ASSUME RollupInv, nightly # AtRest
  PROVE  /\ watermark # 0 /\ progress = NoProgress /\ boundary = NoBoundary
         /\ walked = 0 /\ nightly.from = watermark
         /\ marker \in Nat /\ settled \in Nat
         /\ nightly.bound \in marker .. settled
         /\ nightly.bound <= marker + MaxSeed /\ nightly.bound \in Nat
         /\ nightly.new = marker + 1 .. nightly.bound
         /\ nightly.new \subseteq safes
         /\ nightly.from \in 0 .. MaxBlock
         /\ nightly.head \in nightly.from .. MaxBlock /\ nightly.head # 0
         /\ RowsOfRollup
         /\ \A s \in DOMAIN pair : s \in 1 .. nightly.bound
<1>1. /\ watermark # 0 /\ nightly.from = watermark
      /\ marker <= nightly.bound /\ nightly.bound <= marker + MaxSeed
      /\ nightly.new = marker + 1 .. nightly.bound
      /\ \A s \in DOMAIN pair : s <= nightly.bound
  BY DEF RollupInv, RightRows, NightlyIsRight
<1>2. progress = NoProgress /\ boundary = NoBoundary /\ walked = 0
  BY <1>1 DEF RollupInv, RightRows, RowsOfNothing
<1>3. /\ nightly.new \subseteq safes /\ nightly.bound \in 0 .. settled
      /\ nightly.head \in Block /\ nightly.from \in Block
      /\ nightly.from <= nightly.head
      /\ marker \in 0 .. settled /\ settled \in 0 .. MaxSafe
      /\ DOMAIN pair \subseteq AllSafes
  BY DEF RollupInv, RollupTypes, NightlyTypes, PairTypes, WorldTypes
<1>4. /\ marker \in Nat /\ settled \in Nat /\ nightly.bound \in Nat
      /\ nightly.bound \in marker .. settled
      /\ nightly.from \in 0 .. MaxBlock
      /\ nightly.head \in nightly.from .. MaxBlock /\ nightly.head # 0
  BY <1>1, <1>3, Erc20BalanceType DEF Block
<1>5. \A s \in DOMAIN pair : s \in 1 .. nightly.bound
  BY <1>1, <1>3, <1>4, SafesAreNumbers
<1>6. RowsOfRollup
  BY DEF RollupInv, RightRows
<1> QED BY <1>1, <1>2, <1>3, <1>4, <1>5, <1>6

(* The new Safes get their rows as of the watermark.                       *)
LEMMA SeedMissingRows ==
  ASSUME RollupInv, SeedMissing
  PROVE  RightRows'
<1> DEFINE new == nightly.new
           bound == nightly.bound
<1>1. /\ nightly # AtRest /\ nightly.at = "seed"
      /\ pair' = Seeded(new, nightly.from)
      /\ nightly' = [nightly EXCEPT !.at = "delta"]
      /\ watermark' = watermark /\ marker' = marker /\ holders' = holders
      /\ progress' = progress /\ boundary' = boundary /\ walked' = walked
      /\ settled' = settled
  BY DEF SeedMissing, AtRest, progressVars, world
<1>2. /\ nightly' # AtRest /\ nightly'.from = nightly.from
      /\ nightly'.new = nightly.new /\ nightly'.bound = nightly.bound
  <2>1. nightly \in [at : {"seed", "delta"}, head : Block, from : Block,
                     new : SUBSET AllSafes, bound : Nat]
    BY <1>1 DEF RollupInv, RollupTypes, NightlyTypes
  <2>2. nightly'.at = "delta" /\ AtRest.at = "idle"
    BY <1>1, <2>1 DEF AtRest
  <2> QED BY <1>1, <2>1, <2>2
<1>3. /\ watermark # 0 /\ progress = NoProgress /\ boundary = NoBoundary
      /\ walked = 0 /\ nightly.from = watermark
      /\ marker \in Nat /\ settled \in Nat
      /\ bound \in marker .. settled /\ bound <= marker + MaxSeed
      /\ bound \in Nat /\ new = marker + 1 .. bound /\ new \subseteq safes
      /\ watermark \in 0 .. MaxBlock /\ RowsOfRollup
      /\ \A s \in DOMAIN pair : s \in 1 .. bound
  BY <1>1, NightlyFinds
<1>4. /\ DOMAIN pair' \subseteq DOMAIN pair \cup new
      /\ \A s \in DOMAIN pair : ValueIn(pair', s) = ValueIn(pair, s)
      /\ \A s \in new \ DOMAIN pair : ValueIn(pair', s) = Balance(s, watermark)
      /\ \A s : s \notin new => ValueIn(pair', s) = ValueIn(pair, s)
  <2>1. PairTypes /\ WorldTypes
    BY DEF RollupInv, RollupTypes
  <2>2. PICK p : p = Seeded(new, watermark)
    OBVIOUS
  <2>5. new \in SUBSET safes /\ watermark \in 0 .. MaxBlock
    BY <1>3
  <2> HIDE DEF new
  <2>3. /\ DOMAIN p \subseteq DOMAIN pair \cup new
        /\ \A s \in DOMAIN pair : ValueIn(p, s) = ValueIn(pair, s)
        /\ \A s \in new \ DOMAIN pair : ValueIn(p, s) = Balance(s, watermark)
        /\ \A s : s \notin new => ValueIn(p, s) = ValueIn(pair, s)
    BY <2>1, <2>2, <2>5, SeededValues
  <2>4. pair' = p
    BY <1>1, <1>3, <2>2 DEF new
  <2> QED BY <2>3, <2>4
<1>5. \A s \in DOMAIN pair \cup 1 .. marker : Value(s) = Balance(s, watermark)
  BY <1>3 DEF RowsOfRollup
<1> HIDE DEF new, bound
<1>6. ASSUME NEW s \in 1 .. bound
      PROVE  Value(s)' = Balance(s, watermark)
  <2>1. s \in new \/ s \in 1 .. marker
    BY <1>3
  <2>2. s \in 1 .. marker => s \notin new
    BY <1>3
  <2>3. CASE s \in 1 .. marker \/ s \in DOMAIN pair
    BY <1>4, <1>5, <2>2, <2>3, ValueIsIn, ValueIsInNext
  <2>4. CASE s \in new \ DOMAIN pair
    BY <1>4, <2>4, ValueIsInNext
  <2> QED BY <2>1, <2>3, <2>4
<1>7. \A s : Balance(s, watermark)' = Balance(s, watermark)
  BY <1>1 DEF Balance
<1>8. \A s \in DOMAIN pair' : s \in 1 .. bound
  <2>1. \A s \in new : s \in 1 .. bound
    BY <1>3
  <2> QED BY <1>3, <1>4, <2>1
<1>9. RowsOfRollup'
  <2>1. \A s \in DOMAIN pair' : s <= settled /\ s <= marker + MaxSeed
    BY <1>3, <1>8, Erc20BalanceType
  <2>2. \A s \in DOMAIN pair' \cup 1 .. marker :
          Value(s)' = Balance(s, watermark)
    <3>1. \A s \in 1 .. marker : s \in 1 .. bound
      BY <1>3
    <3> QED BY <1>6, <1>8, <3>1
  <2>3. holders' = {s \in 1 .. marker : Balance(s, watermark)' > 0}
    <3>1. holders = {s \in 1 .. marker : Balance(s, watermark) > 0}
      BY <1>3 DEF RowsOfRollup
    <3> QED BY <1>1, <1>7, <3>1, Zenon
  <2> QED BY <1>1, <1>7, <2>1, <2>2, <2>3 DEF RowsOfRollup
<1>10. NightlyIsRight'
  <2>1. /\ nightly'.new = new /\ nightly'.bound = bound
        /\ new = marker + 1 .. bound /\ nightly'.from = watermark
        /\ marker <= bound /\ bound <= marker + MaxSeed
        /\ \A s \in DOMAIN pair' : s <= bound
    BY <1>2, <1>3, <1>8 DEF new, bound
  <2> QED BY <1>1, <1>3, <1>6, <1>7, <2>1 DEF NightlyIsRight
<1> QED BY <1>1, <1>3, <1>9, <1>10, RightAfterBackfill

(* The flows take every Safe up to the bound to the new watermark.         *)
LEMMA ApplyDeltaRows ==
  ASSUME RollupInv, ApplyDelta
  PROVE  RightRows'
<1> DEFINE bound == nightly.bound
           some == Covered(nightly)
           gone == Touched(some, nightly.from, nightly.head)
<1>0. PICK from, to : from = nightly.from /\ to = nightly.head
  OBVIOUS
<1>1. /\ nightly # AtRest /\ nightly.at = "delta"
      /\ pair' = WithoutZeros(WithFlows(some, from, to), gone)
      /\ watermark' = to /\ marker' = bound /\ holders' = Holders(pair')
      /\ nightly' = AtRest /\ settled' = settled
      /\ progress' = progress /\ boundary' = boundary /\ walked' = walked
  BY <1>0 DEF ApplyDelta, AtRest, progressVars, world
<1>2. /\ watermark # 0 /\ progress = NoProgress /\ boundary = NoBoundary
      /\ walked = 0 /\ from = watermark /\ marker \in Nat /\ settled \in Nat
      /\ bound \in marker .. settled /\ bound \in Nat
      /\ from \in 0 .. MaxBlock /\ to \in from .. MaxBlock /\ to # 0
      /\ \A s \in DOMAIN pair : s \in 1 .. bound
  BY <1>0, <1>1, NightlyFinds
<1>3. some = 1 .. bound
  <2>1. some = {s \in safes : 0 < s /\ s <= bound}
    BY SafesAreNumbers DEF Covered, RollupInv, RollupTypes, WorldTypes
  <2>2. bound \in 0 .. settled
    BY <1>2
  <2> HIDE DEF some, bound
  <2> QED BY <2>1, <2>2, SafesBetween DEF RollupInv, RollupTypes
<1>4. some \in SUBSET safes /\ some \subseteq AllSafes
  BY DEF Covered, RollupInv, RollupTypes, WorldTypes
<1>5. \A s \in 1 .. bound : ValueIn(pair, s) = Balance(s, from)
  BY <1>1, <1>2, ValueIsIn DEF RollupInv, RightRows, NightlyIsRight
<1>6. \A s \in 1 .. bound : Balance(s, from) \in Int /\ Balance(s, to) \in Int
  <2>1. to \in 0 .. MaxBlock
    BY <1>2, Erc20BalanceType
  <2> QED BY <1>2, <1>3, <1>4, <2>1, BalanceType
<1> HIDE DEF some, bound, gone
<1>7. PICK p : p = WithFlows(some, from, to)
  OBVIOUS
<1>8. /\ p \in [DOMAIN p -> Int] /\ DOMAIN p \subseteq DOMAIN pair \cup some
      /\ \A s \in some : ValueIn(p, s) =
           ValueIn(pair, s) + Balance(s, to) - Balance(s, from)
  BY <1>2, <1>4, <1>7, FlowValues DEF RollupInv, RollupTypes
<1>9. /\ DOMAIN pair' \subseteq DOMAIN p
      /\ \A s : ValueIn(pair', s) = ValueIn(p, s)
  <2>1. PICK q : q = WithoutZeros(p, gone)
    OBVIOUS
  <2>2. DOMAIN q \subseteq DOMAIN p /\ \A s : ValueIn(q, s) = ValueIn(p, s)
    BY <1>8, <2>1, NoZeroValues
  <2> QED BY <1>1, <1>7, <2>1, <2>2
<1>10. \A s \in DOMAIN pair' : s \in 1 .. bound
  BY <1>2, <1>3, <1>8, <1>9
<1>11. \A s \in 1 .. bound : ValueIn(pair', s) = Balance(s, to)
  BY <1>3, <1>5, <1>6, <1>8, <1>9
<1>12. Holders(pair') = {s \in 1 .. bound : Balance(s, to) > 0}
  <2>1. PICK q : q = pair'
    OBVIOUS
  <2>2. Holders(q) = {s \in 1 .. bound : Balance(s, to) > 0}
    BY <1>2, <1>10, <1>11, <2>1, HoldersCounted
  <2> QED BY <2>1, <2>2
<1>13. RowsOfRollup'
  <2>1. \A s : Balance(s, watermark)' = Balance(s, to)
    BY <1>1 DEF Balance
  <2>2. \A s \in DOMAIN pair' : s <= settled /\ s <= bound + MaxSeed
    BY <1>2, <1>10, Erc20BalanceType
  <2>3. \A s \in DOMAIN pair' \cup 1 .. bound : Value(s)' = Balance(s, to)
    BY <1>10, <1>11, ValueIsInNext
  <2>4. holders' = {s \in 1 .. bound : Balance(s, watermark)' > 0}
    BY <1>1, <1>12, <2>1, Zenon
  <2> QED BY <1>1, <2>1, <2>2, <2>3, <2>4 DEF RowsOfRollup
<1>14. NightlyIsRight'
  BY <1>1 DEF NightlyIsRight
<1> QED BY <1>1, <1>2, <1>13, <1>14, RightAfterBackfill

(* No row is out of reach of the task that starts.                         *)
LEMMA StartNightlyRows ==
  ASSUME RollupInv, StartNightly
  PROVE  RightRows'
<1>1. /\ watermark # 0 /\ pair' = pair /\ watermark' = watermark
      /\ marker' = marker /\ holders' = holders /\ settled' = settled
      /\ progress' = progress /\ boundary' = boundary /\ walked' = walked
  BY DEF StartNightly, rollupVars, progressVars, world
<1>2. PICK bound \in marker .. settled :
        /\ bound = IF settled <= marker + MaxSeed THEN settled
                   ELSE marker + MaxSeed
        /\ nightly' = [at |-> "seed", head |-> headBlock, from |-> watermark,
                       new |-> marker + 1 .. bound, bound |-> bound]
  BY NightlySteps DEF RollupInv, RollupTypes
<1>3. /\ nightly'.at = "seed" /\ nightly'.from = watermark
      /\ nightly'.new = marker + 1 .. bound /\ nightly'.bound = bound
  BY <1>2
<1>4. /\ progress = NoProgress /\ boundary = NoBoundary /\ walked = 0
      /\ RowsOfRollup
  BY <1>1 DEF RollupInv, RightRows, RowsOfNothing
<1>5. /\ marker \in Nat /\ settled \in Nat /\ MaxSeed \in Nat
      /\ \A s \in DOMAIN pair : s \in Nat
  BY Erc20BalanceType, SafesAreNumbers
     DEF RollupInv, RollupTypes, WorldTypes, PairTypes
<1>6. /\ bound \in Nat /\ marker <= bound /\ bound <= marker + MaxSeed
      /\ \A s \in DOMAIN pair : s <= bound
  <2>1. \A s \in DOMAIN pair : s <= settled /\ s <= marker + MaxSeed
    BY <1>1, <1>4 DEF RowsOfRollup
  <2> QED BY <1>2, <1>5, <2>1
<1>7. NightlyIsRight'
  BY <1>1, <1>3, <1>6 DEF NightlyIsRight
<1>8. RowsOfRollup'
  BY <1>1, <1>4 DEF RowsOfRollup, Value, Balance
<1> QED BY <1>1, <1>4, <1>7, <1>8, RightAfterBackfill

(* Elsewhere rows and progress stay as they are.                           *)
LEMMA OtherRows ==
  ASSUME RollupInv, [RollupNext]_allVars, UNCHANGED rollupVars,
         UNCHANGED progressVars, nightly' \in {nightly, AtRest}
  PROVE  RightRows'
<1>1. /\ pair' = pair /\ watermark' = watermark /\ marker' = marker
      /\ holders' = holders /\ progress' = progress /\ boundary' = boundary
      /\ walked' = walked /\ whales' = whales
  BY DEF rollupVars, progressVars
<1>2. /\ \A s : Value(s)' = Value(s)
      /\ \A s : Balance(s, watermark)' = Balance(s, watermark)
      /\ \A s : RowOfBackfill(s)' <=> RowOfBackfill(s)
  BY <1>1 DEF Value, Balance, RowOfBackfill
<1>3. settled \in Nat /\ settled' \in Nat /\ settled <= settled'
  BY WorldGrows, Erc20BalanceType DEF RollupInv, RollupTypes, WorldTypes
<1>4. \A s \in DOMAIN pair : s \in Nat
  BY SafesAreNumbers DEF RollupInv, RollupTypes, WorldTypes, PairTypes
<1>5. RowsOfNothing' /\ RowsOfBackfill'
  BY <1>1, <1>2 DEF RollupInv, RightRows, RowsOfNothing, RowsOfBackfill
<1>6. RowsOfRollup'
  BY <1>1, <1>2, <1>3, <1>4 DEF RollupInv, RightRows, RowsOfRollup
<1>7. NightlyIsRight'
  BY <1>1, <1>2 DEF RollupInv, RightRows, NightlyIsRight
<1> QED BY <1>5, <1>6, <1>7 DEF RightRows

LEMMA RightRowsKept ==
  ASSUME RollupInv, Steady, [RollupNext]_allVars
  PROVE  RightRows'
<1>1. ASSUME NEW w \in Workers,
             \/ SeedChunk(w) \/ DetectWhales(w) \/ ResolveRun(w)
             \/ WalkRange(w) \/ EndWalk(w) \/ FinishRun(w)
      PROVE  RightRows'
  BY <1>1, SeedChunkRows, DetectWhalesRows, ResolveRunRows, WalkRangeRows,
     EndWalkRows, FinishRunRows
<1>2. CASE SeedMissing \/ ApplyDelta \/ StartNightly
  BY <1>2, SeedMissingRows, ApplyDeltaRows, StartNightlyRows
<1>3. CASE Restart
  <2>1. /\ pair' = NoPairs /\ watermark' = 0 /\ progress' = NoProgress
        /\ boundary' = NoBoundary /\ walked' = 0 /\ lock = "free"
        /\ nightly' = nightly
    BY <1>3 DEF Restart, beatVars
  <2>2. nightly = AtRest
    BY <2>1 DEF RollupInv, RollupTypes, LockTypes
  <2>3. DOMAIN NoPairs = {}
    BY DEF NoPairs
  <2> QED BY <2>1, <2>2, <2>3
          DEF RightRows, RowsOfNothing, RowsOfBackfill, RowsOfRollup,
              NightlyIsRight
<1>4. ASSUME ~ SeedMissing, ~ ApplyDelta, ~ StartNightly, ~ Restart,
             \A w \in Workers : ~(\/ SeedChunk(w) \/ DetectWhales(w)
                                  \/ ResolveRun(w) \/ WalkRange(w)
                                  \/ EndWalk(w) \/ FinishRun(w))
      PROVE  RightRows'
  <2>1. UNCHANGED rollupVars
    BY <1>4, PairFrame
  <2>2. UNCHANGED progressVars
    BY <1>4, ProgressFrame DEF Steady
  <2>3. nightly' \in {nightly, AtRest}
    BY <1>4, NightlyFrame
  <2> QED BY <2>1, <2>2, <2>3, OtherRows
<1> QED BY <1>1, <1>2, <1>3, <1>4

-----------------------------------------------------------------------------
(***************************************************************************)
(* The chain goes on as one, and never ahead of the rows.                  *)
(***************************************************************************)
ChainInv == Chain /\ Ahead /\ NoDelay /\ NoFault

LEMMA BoundsGrow ==
  ASSUME RollupInv, [RollupNext]_allVars
  PROVE  /\ delays' = 0 => delays = 0
         /\ faults' = 0 /\ commands' = 0 => faults = 0 /\ commands = 0
  BY BoundTypesKept DEF RollupInv, RollupTypes, BoundTypes

LEMMA RunFacts ==
  ASSUME RollupInv
  PROVE  /\ runs \in Seq(Manifest) /\ Len(runs) \in Nat
         /\ Running <=> Len(runs) \in 1 .. Len(runs) /\ IsRunning(Len(runs))
         /\ \A r \in 1 .. Len(runs) : IsRunning(r) => r = Len(runs)
         /\ Len(runs) \in 1 .. Len(runs) => Latest \in Manifest
  BY DEF RollupInv, RollupTypes, RunTypes, Running, Latest, IsRunning, Chain,
         OnlyTheLatestRuns

(* A slice is alone, and of the last run.                                  *)
LEMMA ActsFacts ==
  ASSUME RollupInv, NEW w \in Workers, Acts(w)
  PROVE  /\ \A v \in Workers \ {w} : ~Acts(v)
         /\ slice[w].run = Len(runs) /\ slice[w].msg.run = Len(runs)
         /\ Running /\ Len(runs) \in 1 .. Len(runs) /\ Live(Len(runs))
         /\ slice[w].at \in Phases \cup {"advance", "shrink", "failed", "finished"}
         /\ slice[w].at \in Phases => slice[w].msg.phase = slice[w].at
         /\ slice[w].m.seq \in Nat
         /\ slice[w].msg.phase \in Phases
<1>1. \A v \in Workers \ {w} : ~Acts(v)
  BY DEF RollupInv, Chain, OneSlice
<1>2. slice[w].run = Len(runs) /\ IsRunning(Len(runs))
  BY DEF RollupInv, Chain, SliceOfLatest
<1>3. /\ slice[w].run \in 1 .. Len(runs) /\ slice[w].msg.run = slice[w].run
      /\ slice[w].at \in Phases \cup {"advance", "shrink", "failed", "finished"}
      /\ slice[w].at \in Phases => slice[w].msg.phase = slice[w].at
      /\ slice[w].m.seq \in Nat /\ slice[w].msg.phase \in Phases
  BY SliceFields DEF RollupInv, RollupTypes, Copies, Messages
<1>4. Live(Len(runs))
  BY <1>2 DEF Live, Acts
<1> QED BY <1>1, <1>2, <1>3, <1>4, RunFacts

LEMMA WatchdogFacts ==
  ASSUME RollupInv, watchdog # AtRest
  PROVE  /\ Running /\ watchdog.run = Len(runs) /\ watermark = 0
         /\ watchdog.m \in Manifest /\ watchdog.m.state = "running"
         /\ watchdog.m.phase \in Phases /\ lock \notin Workers
<1>1. /\ watchdog.run = Len(runs) /\ watermark = 0 /\ lock \notin Workers
  BY DEF RollupInv, Chain, WatchdogIsAlone
<1>2. /\ watchdog.run \in 1 .. Len(runs) /\ watchdog.m \in Manifest
      /\ watchdog.m.state = "running" /\ watchdog.m.phase \in Phases
  BY WatchdogFields DEF RollupInv, RollupTypes
<1>3. CASE delays = 0
  BY <1>1, <1>2, <1>3 DEF RollupInv, NoDelay, WatchdogIsPunctual
<1>4. CASE faults = 0 /\ commands = 0
  <2>1. IsRunning(Len(runs))
    BY <1>1, <1>2, <1>4 DEF RollupInv, NoFault
  <2> QED BY <1>1, <1>2, <2>1, RunFacts
<1> QED BY <1>1, <1>2, <1>3, <1>4 DEF RollupInv

(* When the last run is over, nothing of it is at work.                    *)
LEMMA OverFacts ==
  ASSUME RollupInv, ~Running
  PROVE  /\ \A w \in Workers : ~Acts(w)
         /\ watchdog = AtRest
         /\ \A r \in 1 .. Len(runs) : ~IsRunning(r)
  BY ActsFacts, WatchdogFacts, RunFacts

(* Without delays, a slice leaves the watchdog nothing to see.             *)
LEMMA WatchdogRests ==
  ASSUME RollupInv, delays = 0, NEW w \in Workers, Acts(w)
  PROVE  watchdog = AtRest /\ Latest.fresh
<1>1. Live(Len(runs)) /\ Running
  BY ActsFacts
<1>2. Latest.fresh
  BY <1>1 DEF RollupInv, NoDelay, StaleIsDead
<1> QED BY <1>2 DEF RollupInv, NoDelay, WatchdogIsPunctual

LEMMA CandidatesAre ==
  ASSUME RollupTypes, boundary # NoBoundary
  PROVE  /\ Candidates = progress.cursor + 1 .. boundary
         /\ progress.cursor \in Nat /\ boundary \in Nat
         /\ Candidates = {} /\ progress.cursor <= boundary
              => progress.cursor = boundary
<1>1. /\ progress.cursor \in Nat /\ boundary \in 0 .. settled
      /\ boundary \in Nat
  BY Erc20BalanceType DEF RollupTypes, ProgressTypes, WorldTypes
<1>2. Candidates = progress.cursor + 1 .. boundary
  BY <1>1, SafesBetween DEF Candidates, RollupTypes
<1>3. ASSUME Candidates = {}, progress.cursor <= boundary
      PROVE  progress.cursor = boundary
  <2>1. boundary \notin progress.cursor + 1 .. boundary
    BY <1>2, <1>3
  <2> QED BY <1>1, <1>3, <2>1
<1> QED BY <1>1, <1>2, <1>3

LEMMA WalkersAre ==
  ASSUME ProgressTypes
  PROVE  Walkers = {} <=> \A s \in whales : ~(s <= boundary)
  BY DEF Walkers, ProgressTypes

(* The rows never fall behind a phase, but for a new beginning.            *)
LEMMA FitsKept ==
  ASSUME RollupInv, Steady, [RollupNext]_allVars, watermark' = 0, ~Restart,
         NEW x, Fits(x)
  PROVE  Fits(x)'
<1> SUFFICES ASSUME x # "chunks" PROVE Fits(x)'
  BY DEF Fits
<1>1. /\ progress # NoProgress /\ progress.cursor = boundary
      /\ \/ x = "whales"
         \/ walked = progress.head
         \/ \A s \in whales : s > boundary
  BY DEF Fits
<1>2. boundary # NoBoundary
  BY <1>1 DEF RollupInv, RightRows, RowsOfNothing
<1>3. Candidates = {} /\ boundary \in Nat
  BY <1>1, <1>2, CandidatesAre DEF RollupInv
<1>4. CASE UNCHANGED progressVars
  BY <1>4 DEF Fits, progressVars
<1>5. ASSUME NEW w \in Workers, ResolveRun(w) PROVE Fits(x)'
  BY <1>1, <1>5 DEF ResolveRun, MayRefresh
<1>6. ASSUME NEW w \in Workers, SeedChunk(w) \/ DetectWhales(w)
      PROVE  Fits(x)'
  BY <1>3, <1>6 DEF SeedChunk, DetectWhales, Page, FirstOf
<1>7. ASSUME NEW w \in Workers, WalkRange(w) PROVE Fits(x)'
  <2>1. /\ Walkers # {} /\ walked < progress.head
        /\ progress' = progress /\ boundary' = boundary
    BY <1>7 DEF WalkRange
  <2>2. walked # progress.head
    BY <2>1 DEF RollupInv, RollupTypes, ProgressTypes
  <2>3. ~ \A s \in whales : s > boundary
    <3>1. PICK s \in whales : s <= boundary
      BY <2>1 DEF Walkers
    <3>2. s \in Nat
      BY <3>1, SafesAreNumbers
         DEF RollupInv, RollupTypes, ProgressTypes, WorldTypes
    <3>3. ~(s > boundary)
      BY <1>3, <3>1, <3>2
    <3> QED BY <3>1, <3>3
  <2>4. x = "whales"
    BY <1>1, <2>2, <2>3
  <2> QED BY <1>1, <2>1, <2>4 DEF Fits
<1>8. ASSUME NEW w \in Workers, EndWalk(w) PROVE Fits(x)'
  <2>1. /\ progress' = progress /\ boundary' = boundary /\ whales' = whales
        /\ walked' = walked \/ Walkers = {}
    BY <1>8 DEF EndWalk
  <2>2. CASE walked' = walked
    BY <1>1, <2>1, <2>2 DEF Fits
  <2>3. CASE Walkers = {}
    <3>1. \A s \in whales : s > boundary
      <4>1. \A s \in whales : ~(s <= boundary)
        BY <2>3, WalkersAre DEF RollupInv, RollupTypes
      <4>2. \A s \in whales : s \in Nat
        BY SafesAreNumbers DEF RollupInv, RollupTypes, ProgressTypes, WorldTypes
      <4> QED BY <1>3, <4>1, <4>2
    <3> QED BY <1>1, <2>1, <3>1 DEF Fits
  <2> QED BY <2>1, <2>2, <2>3
<1>9. ASSUME NEW w \in Workers, FinishRun(w) PROVE FALSE
  <2>1. watermark' = progress.head
    BY <1>9 DEF FinishRun
  <2> QED BY <1>1, <2>1 DEF RollupInv, RollupTypes, ProgressTypes
<1> QED
  BY <1>4, <1>5, <1>6, <1>7, <1>8, <1>9, ProgressFrame DEF Steady

(* A slice is in a phase that fits, and goes on to one.                    *)
LEMMA NextPhaseFits ==
  ASSUME RollupInv, NEW w \in Workers
  PROVE  /\ EndChunks(w) /\ Candidates = {} => Fits("whales")
         /\ EndWalk(w) /\ (Walkers = {} \/ walked >= progress.head) =>
              Fits("finish")
<1>1. ASSUME EndChunks(w), Candidates = {} PROVE Fits("whales")
  <2>1. progress # NoProgress /\ boundary # NoBoundary
        /\ progress.cursor <= boundary
    BY <1>1, PhaseFinds DEF EndChunks, InPhase, Phases
  <2> QED BY <1>1, <2>1, CandidatesAre DEF RollupInv, Fits
<1>2. ASSUME EndWalk(w), Walkers = {} \/ walked >= progress.head
      PROVE  Fits("finish")
  <2>1. /\ Fits("whales") /\ RowsOfBackfill /\ progress # NoProgress
        /\ boundary \in Nat /\ walked \in Nat
        /\ progress.head \in 1 .. headBlock /\ headBlock \in Nat
    BY <1>2, PhaseFinds, Erc20BalanceType
       DEF EndWalk, Phases, RollupInv, RollupTypes, WorldTypes, Block
  <2>2. progress.cursor = boundary /\ walked <= progress.head
    BY <2>1 DEF Fits, RowsOfBackfill
  <2>3. CASE Walkers = {}
    <3>1. \A s \in whales : ~(s <= boundary)
      BY <2>3, WalkersAre DEF RollupInv, RollupTypes
    <3>2. \A s \in whales : s \in Nat
      BY SafesAreNumbers DEF RollupInv, RollupTypes, ProgressTypes, WorldTypes
    <3>3. \A s \in whales : s > boundary
      BY <2>1, <3>1, <3>2
    <3> QED BY <2>1, <2>2, <3>3 DEF Fits
  <2>4. CASE walked >= progress.head
    <3>1. walked = progress.head
      BY <2>1, <2>2, <2>4
    <3> QED BY <2>1, <2>2, <3>1 DEF Fits
  <2> QED BY <1>2, <2>3, <2>4
<1> QED BY <1>1, <1>2

(* So does a run that is started anew.                                     *)
LEMMA StartPhaseFits ==
  ASSUME RollupInv
  PROVE  Fits(StartPhase)
<1>1. ASSUME progress # NoProgress PROVE Fits(OrphanPhase)
  <2>1. /\ boundary # NoBoundary /\ progress.cursor <= boundary
        /\ walked <= progress.head
    BY <1>1 DEF RollupInv, RightRows, RowsOfNothing, RowsOfBackfill
  <2>2. CASE Candidates # {}
    BY <2>2 DEF OrphanPhase, Fits
  <2>3. CASE Candidates = {}
    <3>1. progress.cursor = boundary
      BY <2>1, <2>3, CandidatesAre DEF RollupInv
    <3>2. walked \in Int /\ progress.head \in Int
      BY Erc20BalanceType
         DEF RollupInv, RollupTypes, ProgressTypes, WorldTypes, Block
    <3>3. walked < progress.head \/ walked = progress.head
      BY <2>1, <3>2
    <3> QED BY <1>1, <2>1, <2>3, <3>1, <3>2, <3>3 DEF OrphanPhase, Fits
  <2> QED BY <2>2, <2>3
<1> QED BY <1>1 DEF StartPhase, Fits

(* Manifests and slices stay; messages may be dropped.                     *)
LEMMA QuietKeeps ==
  ASSUME RollupInv, Steady, [RollupNext]_allVars, UNCHANGED <<runs, slice>>,
         watchdog' \in {watchdog, AtRest}, UNCHANGED queue \/ Loses,
         UNCHANGED lock \/ lock' \notin Workers, ~Restart,
         watermark' = watermark \/ (watermark # 0 /\ watermark' # 0)
  PROVE  ChainInv'
<1>1. runs' = runs /\ slice' = slice /\ DOMAIN queue' \subseteq DOMAIN queue
  BY DEF Loses
<1>2. /\ Running' <=> Running
      /\ Latest' = Latest
      /\ \A w \in Workers : Acts(w)' <=> Acts(w)
      /\ \A r : IsRunning(r)' <=> IsRunning(r)
  BY <1>1 DEF Running, Latest, Acts, IsRunning
<1>3. Chain'
  <2>1. OneSlice' /\ SliceOfLatest' /\ OnlyTheLatestRuns'
    BY <1>1, <1>2
       DEF RollupInv, Chain, OneSlice, SliceOfLatest, OnlyTheLatestRuns
  <2>2. WatchdogIsAlone' /\ FinishedIsOver'
    BY <1>1 DEF RollupInv, Chain, WatchdogIsAlone, FinishedIsOver
  <2> QED BY <2>1, <2>2 DEF Chain
<1>4. Ahead'
  <2> SUFFICES ASSUME watermark' = 0, Running' PROVE Ahead'
    BY DEF Ahead
  <2>1. watermark = 0 /\ Running
    BY <1>2
  <2>2. \A x : Fits(x) => Fits(x)'
    BY FitsKept
  <2>3. /\ Fits(Latest.phase)
        /\ \A e \in DOMAIN queue : e.run = Len(runs) => Fits(e.phase)
        /\ \A w \in Workers :
             Acts(w) => Fits(slice[w].msg.phase) /\ Fits(slice[w].m.phase)
        /\ watchdog # AtRest => Fits(watchdog.m.phase)
    BY <2>1 DEF RollupInv, Ahead
  <2>4. \A e \in DOMAIN queue' : e.run = Len(runs') => Fits(e.phase)'
    BY <1>1, <2>2, <2>3
  <2>5. \A w \in Workers :
          Acts(w)' => Fits(slice[w].msg.phase)' /\ Fits(slice[w].m.phase)'
    BY <1>1, <1>2, <2>2, <2>3
  <2>6. Fits(Latest.phase)' /\ (watchdog' # AtRest => Fits(watchdog.m.phase)')
    BY <1>1, <1>2, <2>2, <2>3 DEF Fits
  <2> QED BY <2>4, <2>5, <2>6 DEF Ahead, Fits
<1>5. NoDelay'
  <2> SUFFICES ASSUME delays' = 0 PROVE NoDelay'
    BY DEF NoDelay
  <2>1. /\ QueueIsPunctual /\ SliceIsPunctual /\ StaleIsDead
        /\ WatchdogIsPunctual
        /\ watermark # 0 /\ Running => Latest.phase = "finish"
    BY BoundsGrow DEF RollupInv, NoDelay
  <2>2. QueueIsPunctual' /\ SliceIsPunctual'
    BY <1>1, <1>2, <2>1 DEF QueueIsPunctual, SliceIsPunctual
  <2>3. StaleIsDead'
    BY <1>1, <1>2, <2>1 DEF StaleIsDead, Live, BagToSet
  <2>4. WatchdogIsPunctual'
    BY <1>2, <2>1 DEF WatchdogIsPunctual
  <2>5. watermark' # 0 /\ Running' => Latest'.phase = "finish"
    BY <1>2, <2>1
  <2> QED BY <2>2, <2>3, <2>4, <2>5 DEF NoDelay
<1>6. NoFault'
  BY <1>1, <1>2, BoundsGrow DEF RollupInv, NoFault
<1> QED BY <1>3, <1>4, <1>5, <1>6 DEF ChainInv

(* A slice begins: there was none, and its message is of the last run.     *)
LEMMA ReceiveKeeps ==
  ASSUME RollupInv, Steady, [RollupNext]_allVars, NEW w \in Workers, Receive(w)
  PROVE  ChainInv'
<1>1. PICK e \in DOMAIN queue :
        /\ Loses /\ e \in Messages(Len(runs))
        /\ \/ UNCHANGED <<slice, lock>>
           \/ /\ lock = "free" /\ lock' = w /\ Undivided
              /\ runs[e.run].state = "running"
              /\ runs[e.run].seq = e.seq
              /\ slice' \in Slices /\ Others(w) /\ slice'[w] # AtRest
              /\ slice'[w].at = e.phase /\ slice'[w].run = e.run
              /\ slice'[w].m = runs[e.run] /\ slice'[w].msg = e
  BY Receives DEF RollupInv, RollupTypes
<1>2. /\ UNCHANGED <<runs, watchdog, watermark>> /\ ~Acts(w)
      /\ progressVars' = progressVars
      /\ delays' = delays /\ faults' = faults /\ commands' = commands
  BY Receives DEF RollupInv, RollupTypes, rollupVars, beatVars, boundVars
<1>3. CASE UNCHANGED <<slice, lock>>
  <2>1. ~Restart
    <3>1. CASE Restart
      <4>1. Len(runs') = Len(runs) + 1
        BY <3>1, StartSteps DEF RollupInv, RollupTypes, ChainTypes, Starts
      <4> QED BY <1>2, <4>1, RunFacts
    <3> QED BY <3>1
  <2> QED BY <1>1, <1>2, <1>3, <2>1, QuietKeeps
<1>4. ASSUME lock = "free", Undivided,
             runs[e.run].state = "running", runs[e.run].seq = e.seq,
             Others(w), slice'[w] # AtRest,
             slice'[w].at = e.phase, slice'[w].run = e.run,
             slice'[w].m = runs[e.run], slice'[w].msg = e
      PROVE  ChainInv'
  <2>1. /\ e.run \in 1 .. Len(runs) /\ e.phase \in Phases /\ e.seq \in Nat
        /\ e.phase # "shrink" /\ e.phase # "advance" /\ e.phase # "finished"
        /\ e.phase # "failed"
    BY <1>1 DEF Messages, Phases
  <2>2. /\ e.run = Len(runs) /\ Running /\ Latest = runs[e.run]
        /\ IsRunning(Len(runs))
    BY <1>4, <2>1, RunFacts DEF IsRunning, Latest
  <2>3. watchdog = AtRest /\ \A v \in Workers : ~Acts(v)
    <3>1. watchdog = AtRest /\ \A v \in Workers : ~Brisk(v)
      BY <1>4 DEF Undivided, Steady
    <3>2. ASSUME NEW v \in Workers, Acts(v) PROVE FALSE
      <4>1. slice[v].at \in Phases
        BY <3>1, <3>2, ActsFacts DEF Brisk
      <4>2. lock = v
        BY <4>1 DEF RollupInv, RollupTypes, LockTypes
      <4> QED BY <1>4, <4>2, Erc20BalanceType
    <3> QED BY <3>1, <3>2
  <2>4. /\ runs' = runs /\ DOMAIN queue' \subseteq DOMAIN queue
        /\ watchdog' = AtRest
        /\ \A v \in Workers : Acts(v)' => v = w
        /\ Running' <=> Running
        /\ Latest' = Latest
        /\ \A r : IsRunning(r)' <=> IsRunning(r)
    BY <1>1, <1>2, <1>4, <2>3
       DEF Loses, Others, Acts, Running, Latest, IsRunning
  <2>5. Chain'
    <3>1. OneSlice' /\ SliceOfLatest'
      BY <1>4, <2>2, <2>4 DEF OneSlice, SliceOfLatest
    <3>2. OnlyTheLatestRuns' /\ WatchdogIsAlone'
      BY <2>4 DEF RollupInv, Chain, OnlyTheLatestRuns, WatchdogIsAlone
    <3>3. FinishedIsOver'
      BY <1>2, <1>4, <2>1
         DEF Others, RollupInv, Chain, FinishedIsOver
    <3> QED BY <3>1, <3>2, <3>3 DEF Chain
  <2>6. Ahead'
    <3> SUFFICES ASSUME watermark' = 0 PROVE Ahead'
      BY DEF Ahead
    <3>1. /\ Fits(Latest.phase)
          /\ \A d \in DOMAIN queue : d.run = Len(runs) => Fits(d.phase)
      BY <1>2, <2>2 DEF RollupInv, Ahead
    <3>2. \A x : Fits(x)' <=> Fits(x)
      BY <1>2 DEF Fits, progressVars
    <3>3. Fits(Latest.phase)'
      BY <2>4, <3>1, <3>2 DEF Fits
    <3>4. ASSUME NEW v \in Workers, Acts(v)'
          PROVE  Fits(slice[v].msg.phase)' /\ Fits(slice[v].m.phase)'
      <4>1. /\ v = w /\ slice'[v].msg.phase = e.phase
            /\ slice'[v].m.phase = Latest.phase
        BY <1>4, <2>2, <2>4, <3>4
      <4>2. Fits(e.phase) /\ Fits(Latest.phase)
        BY <2>2, <3>1
      <4> QED BY <3>2, <4>1, <4>2 DEF Fits
    <3>5. \A d \in DOMAIN queue' : d.run = Len(runs') => Fits(d.phase)'
      BY <2>4, <3>1, <3>2
    <3> QED BY <2>4, <3>3, <3>4, <3>5 DEF Ahead, Fits
  <2>7. NoDelay'
    <3> SUFFICES ASSUME delays = 0 PROVE NoDelay'
      BY <1>2 DEF NoDelay
    <3>1. /\ QueueIsPunctual /\ SliceIsPunctual /\ StaleIsDead
          /\ watermark # 0 /\ Running => Latest.phase = "finish"
      BY DEF RollupInv, NoDelay
    <3>2. e.phase = Latest.phase /\ e.seq = Latest.seq
      BY <1>4, <2>2, <3>1 DEF QueueIsPunctual
    <3>3. Latest.fresh
      BY <2>2, <3>1 DEF StaleIsDead, Live, BagToSet
    <3>4. QueueIsPunctual'
      BY <2>4, <3>1 DEF QueueIsPunctual
    <3>5. SliceIsPunctual'
      BY <1>4, <2>1, <2>2, <2>4, <3>2 DEF SliceIsPunctual, Phases
    <3>6. StaleIsDead' /\ WatchdogIsPunctual'
      BY <2>4, <3>3 DEF StaleIsDead, WatchdogIsPunctual
    <3>7. watermark' # 0 /\ Running' => Latest'.phase = "finish"
      BY <1>2, <2>4, <3>1
    <3> QED BY <3>4, <3>5, <3>6, <3>7 DEF NoDelay
  <2>8. NoFault'
    <3> SUFFICES ASSUME faults = 0, commands = 0 PROVE NoFault'
      BY <1>2 DEF NoFault
    <3>1. /\ Len(runs) <= 1
          /\ watermark = 0 => \A r \in 1 .. Len(runs) : IsRunning(r)
          /\ watermark = 0 \/ ~Running
      <4>1. \A v \in Workers : slice[v].at # "finished"
        BY <2>3, ActsMeans DEF RollupInv, RollupTypes
      <4> QED BY <4>1 DEF RollupInv, NoFault
    <3>2. \A v \in Workers : slice'[v].at \notin {"shrink", "failed"}
      BY <1>4, <2>1 DEF Others, RollupInv, NoFault
    <3>3. watermark' = 0 /\ runs' = runs
      BY <1>2, <2>2, <3>1
    <3>4. \A r \in 1 .. Len(runs) : IsRunning(r)'
      BY <1>2, <2>4, <3>1, <3>3
    <3> QED BY <3>1, <3>2, <3>3, <3>4 DEF NoFault
  <2> QED BY <2>5, <2>6, <2>7, <2>8 DEF ChainInv
<1> QED BY <1>1, <1>3, <1>4

LEMMA OthersRest ==
  ASSUME RollupInv, NEW w \in Workers, Acts(w), Others(w)
  PROVE  \A v \in Workers \ {w} : ~Acts(v)' /\ slice'[v].at = "idle"
<1> SUFFICES ASSUME NEW v \in Workers \ {w}
             PROVE  ~Acts(v)' /\ slice'[v].at = "idle"
  OBVIOUS
<1>1. slice'[v] = AtRest
  BY ActsFacts DEF Others, Acts
<1> QED BY <1>1 DEF Acts, AtRest

LEMMA StoresFacts ==
  ASSUME RollupInv, Len(runs) \in 1 .. Len(runs), NEW state, NEW phase,
         NEW seq, Stores(Len(runs), state, phase, seq)
  PROVE  /\ Len(runs') = Len(runs) /\ runs' # <<>>
         /\ Latest'.state = state /\ Latest'.phase = phase
         /\ Latest'.seq = seq /\ Latest'.fresh
         /\ Running' <=> state = "running"
         /\ IsRunning(Len(runs))' <=> state = "running"
         /\ \A r \in 1 .. Len(runs) : IsRunning(r)' => r = Len(runs)
<1>1. /\ runs' \in Seq(Manifest) /\ Len(runs') = Len(runs)
      /\ \A q \in 1 .. Len(runs) : q # Len(runs) => runs'[q] = runs[q]
      /\ runs'[Len(runs)].state = state /\ runs'[Len(runs)].phase = phase
      /\ runs'[Len(runs)].seq = seq /\ runs'[Len(runs)].fresh
  BY DEF Stores
<1>2. runs' # <<>> /\ Latest' = runs'[Len(runs)]
  BY <1>1 DEF Latest
<1> QED BY <1>1, <1>2, RunFacts DEF Running, IsRunning, Latest

(* A slice that works takes a step, or releases the lock.                  *)
LEMMA GoingKeeps ==
  ASSUME RollupInv, Steady, [RollupNext]_allVars, ~Restart,
         NEW w \in Workers, slice[w].at \in Phases,
         NEW at, at \in {slice[w].at, "advance", "shrink", "failed", "finished"},
         NEW phase, Goes(w, at, phase), UNCHANGED <<queue, watchdog>>,
         \/ UNCHANGED runs
         \/ Stores(slice[w].run, "running", slice[w].m.phase, slice[w].m.seq),
         watermark' = watermark \/ at = "finished",
         watermark' = 0 => Fits(phase)',
         at \in Phases \cup {"shrink"} => phase = slice[w].m.phase,
         at \in {"shrink", "advance"} => slice[w].at # "finish",
         at = "finished" => slice[w].at = "finish" /\ watermark' # 0,
         at \in {"shrink", "failed"} => ~(faults' = 0 /\ commands' = 0)
  PROVE  ChainInv'
<1> DEFINE c == slice[w]
           d == slice'[w]
<1>1. /\ Acts(w) /\ watchdog' = AtRest
      /\ c.msg.phase = c.at /\ c.run = Len(runs) /\ Running
      /\ c.msg.run = Len(runs) /\ Len(runs) \in 1 .. Len(runs)
      /\ IsRunning(Len(runs))
  BY SliceWorks, ActsFacts, RunFacts
<1>2. /\ Acts(w)' /\ d.at = at /\ d.run = Len(runs) /\ d.msg = c.msg
      /\ d.m.seq = c.m.seq /\ d.m.phase = phase /\ Others(w)
  BY <1>1 DEF Goes, Acts
<1>3. \A v \in Workers : v # w => ~Acts(v)' /\ slice'[v].at = "idle"
  BY <1>1, <1>2, OthersRest
<1>4. /\ Len(runs') = Len(runs) /\ Running' /\ IsRunning(Len(runs))'
      /\ \A r \in 1 .. Len(runs) : IsRunning(r)' => r = Len(runs)
      /\ \/ Latest' = Latest
         \/ /\ Latest'.phase = c.m.phase /\ Latest'.seq = c.m.seq
            /\ Latest'.fresh
  <2>1. CASE runs' = runs
    BY <1>1, <2>1, RunFacts DEF Running, IsRunning, Latest
  <2>2. CASE Stores(slice[w].run, "running", slice[w].m.phase, slice[w].m.seq)
    BY <1>1, <2>2, StoresFacts
  <2> QED BY <2>1, <2>2
<1>5. watermark' = 0 => watermark = 0
  OBVIOUS
<1>6. "finished" \notin Phases /\ "finished" # "idle" /\ "shrink" # "idle"
      /\ "failed" # "idle" /\ "failed" \notin Phases /\ "shrink" \notin Phases
  BY DEF Phases
<1> HIDE DEF c, d
<1>7. Chain'
  <2>1. OneSlice' /\ SliceOfLatest'
    BY <1>2, <1>3, <1>4 DEF OneSlice, SliceOfLatest, d
  <2>2. OnlyTheLatestRuns' /\ WatchdogIsAlone'
    BY <1>1, <1>4 DEF OnlyTheLatestRuns, WatchdogIsAlone
  <2>3. FinishedIsOver'
    BY <1>2, <1>3 DEF FinishedIsOver, c, d, Phases
  <2> QED BY <2>1, <2>2, <2>3 DEF Chain
<1>8. Ahead'
  <2> SUFFICES ASSUME watermark' = 0 PROVE Ahead'
    BY DEF Ahead
  <2>1. \A x : Fits(x) => Fits(x)'
    BY FitsKept
  <2>2. /\ Fits(Latest.phase)
        /\ \A e \in DOMAIN queue : e.run = Len(runs) => Fits(e.phase)
        /\ Fits(c.msg.phase) /\ Fits(c.m.phase)
    BY <1>1, <1>5 DEF RollupInv, Ahead, c
  <2>3. Fits(Latest.phase)'
    BY <1>4, <2>1, <2>2 DEF Fits
  <2>4. ASSUME NEW e \in DOMAIN queue', e.run = Len(runs')
        PROVE  Fits(e.phase)'
    BY <1>4, <2>1, <2>2, <2>4
  <2>5. ASSUME NEW v \in Workers, Acts(v)'
        PROVE  Fits(slice[v].msg.phase)' /\ Fits(slice[v].m.phase)'
    <3>1. PICK x : x = c.msg.phase
      OBVIOUS
    <3>2. slice'[v].msg.phase = x /\ slice'[v].m.phase = phase
      BY <1>2, <1>3, <2>5, <3>1 DEF d
    <3>3. Fits(x)' /\ Fits(phase)'
      BY <2>1, <2>2, <3>1
    <3> QED BY <3>2, <3>3 DEF Fits
  <2> QED BY <1>1, <2>3, <2>4, <2>5 DEF Ahead, Fits
<1>9. NoDelay'
  <2> SUFFICES ASSUME delays' = 0 PROVE NoDelay'
    BY DEF NoDelay
  <2>1. /\ delays = 0 /\ QueueIsPunctual /\ SliceIsPunctual
        /\ watermark # 0 /\ Running => Latest.phase = "finish"
    BY BoundsGrow DEF RollupInv, NoDelay
  <2>2. /\ c.m.seq = Latest.seq /\ c.msg.seq = Latest.seq
        /\ c.msg.phase = Latest.phase /\ c.m.phase = Latest.phase
    BY <1>1, <2>1 DEF SliceIsPunctual, c
  <2>3. /\ Latest'.phase = Latest.phase /\ Latest'.seq = Latest.seq
        /\ Latest'.fresh
    BY <1>1, <1>4, <2>1, <2>2, WatchdogRests
  <2>4. QueueIsPunctual'
    BY <1>1, <1>4, <2>1, <2>3 DEF QueueIsPunctual
  <2>5. SliceIsPunctual'
    BY <1>1, <1>2, <1>3, <2>2, <2>3 DEF SliceIsPunctual, c, d
  <2>6. StaleIsDead' /\ WatchdogIsPunctual'
    BY <1>1, <2>3 DEF StaleIsDead, WatchdogIsPunctual
  <2>7. watermark' # 0 /\ Running' => Latest'.phase = "finish"
    BY <1>1, <2>1, <2>2, <2>3 DEF c
  <2> QED BY <2>4, <2>5, <2>6, <2>7 DEF NoDelay
<1>10. NoFault'
  <2> SUFFICES ASSUME faults' = 0, commands' = 0 PROVE NoFault'
    BY DEF NoFault
  <2>1. /\ Len(runs) <= 1
        /\ watermark # 0 /\ Running => \E v \in Workers : slice[v].at = "finished"
    BY BoundsGrow DEF RollupInv, NoFault
  <2>2. \A v \in Workers : slice'[v].at \notin {"shrink", "failed"}
    BY <1>2, <1>3, <1>6 DEF d
  <2>3. \A r \in 1 .. Len(runs) : IsRunning(r)'
    <3>1. \A r \in 1 .. Len(runs) : r = Len(runs)
      BY <2>1, RunFacts
    <3> QED BY <1>4, <3>1
  <2>4. ASSUME watermark' # 0 PROVE \E v \in Workers : slice'[v].at = "finished"
    <3>1. CASE at = "finished"
      BY <1>2, <3>1 DEF d
    <3>2. CASE watermark # 0
      <4>1. PICK v \in Workers : slice[v].at = "finished"
        BY <1>1, <2>1, <3>2
      <4>2. Acts(v)
        BY <4>1, ActsMeans DEF RollupInv, RollupTypes
      <4>3. v = w
        BY <1>1, <4>2, ActsFacts
      <4> QED BY <1>6, <4>1, <4>3
    <3> QED BY <2>4, <3>1, <3>2
  <2> QED BY <1>4, <2>1, <2>2, <2>3, <2>4 DEF NoFault
<1> QED BY <1>7, <1>8, <1>9, <1>10 DEF ChainInv

LEMMA WorkKeeps ==
  ASSUME RollupInv, Steady, [RollupNext]_allVars, NEW w \in Workers,
         \/ SeedChunk(w) \/ WalkRange(w) \/ EndChunks(w) \/ EndWalk(w)
         \/ FinishRun(w) \/ RowsAreGone(w)
  PROVE  ChainInv'
<1>1. /\ slice[w].at \in Phases /\ UNCHANGED watchdog
      /\ UNCHANGED queue
      /\ FinishRun(w) \/ UNCHANGED watermark
  BY DEF SeedChunk, WalkRange, EndChunks, EndWalk, FinishRun, RowsAreGone,
         StepDone, InPhase, Phases, beatVars, runVars, rollupVars
<1>2. /\ Acts(w) /\ slice[w].msg.phase = slice[w].at /\ Running
      /\ slice[w].run = Len(runs)
  BY <1>1, SliceWorks
<1>3. ChainTypes /\ Len(runs) \in Nat
  BY RunFacts DEF RollupInv, RollupTypes, ChainTypes
<1>4. ~Restart
  BY <1>2, StartSteps, <1>1 DEF Restart, MayCommand, Steady
<1>5. \A x : watermark' = 0 /\ Fits(x) => Fits(x)'
  BY <1>4, FitsKept
<1>6. watermark = 0 => Fits(slice[w].m.phase) /\ Fits(slice[w].at)
  BY <1>2 DEF RollupInv, Ahead
<1>7. Fits("chunks")'
  BY DEF Fits
<1>8. "advance" \notin Phases /\ "failed" \notin Phases
      /\ "finished" \notin Phases /\ "shrink" \notin Phases
  BY DEF Phases
<1>9. CASE SeedChunk(w) \/ WalkRange(w)
  <2>1. /\ Goes(w, slice[w].at, slice[w].m.phase)
        /\ Stores(slice[w].run, "running", slice[w].m.phase, slice[w].m.seq)
    BY <1>3, <1>9, WorkSteps
  <2>2. UNCHANGED watermark
    BY <1>9 DEF SeedChunk, WalkRange
  <2>3. PICK at, phase : at = slice[w].at /\ phase = slice[w].m.phase
    OBVIOUS
  <2>4. watermark' = 0 => Fits(phase)'
    BY <1>5, <1>6, <2>2, <2>3
  <2> QED BY <1>1, <1>4, <1>8, <2>1, <2>2, <2>3, <2>4, GoingKeeps
<1>10. CASE EndChunks(w)
  <2>1. /\ slice[w].at = "chunks" /\ UNCHANGED <<runs, watermark>>
        /\ \/ Candidates = {} /\ Goes(w, "advance", "whales")
           \/ Goes(w, "advance", "chunks")
    BY <1>3, <1>10, EndSteps DEF EndChunks, runVars, rollupVars
  <2>2. Candidates = {} => Fits("whales")
    BY <1>10, NextPhaseFits
  <2>3. PICK phase : /\ Goes(w, "advance", phase)
                     /\ watermark' = 0 => Fits(phase)'
    BY <1>5, <1>7, <2>1, <2>2
  <2> QED BY <1>1, <1>4, <1>8, <2>1, <2>3, GoingKeeps
<1>11. CASE EndWalk(w)
  <2>1. /\ slice[w].at = "whales" /\ UNCHANGED <<runs, watermark>>
        /\ \/ Walkers = {} /\ Goes(w, "advance", "finish")
           \/ walked >= progress.head /\ Goes(w, "advance", "finish")
           \/ Goes(w, "advance", "whales")
    BY <1>3, <1>11, EndSteps DEF EndWalk, runVars, rollupVars
  <2>2. Walkers = {} \/ walked >= progress.head => Fits("finish")
    BY <1>11, NextPhaseFits
  <2>3. watermark' = 0 => Fits("whales")'
    BY <1>5, <1>6, <2>1
  <2>4. PICK phase : /\ Goes(w, "advance", phase)
                     /\ watermark' = 0 => Fits(phase)'
    BY <1>5, <2>1, <2>2, <2>3
  <2> QED BY <1>1, <1>4, <1>8, <2>1, <2>4, GoingKeeps
<1>12. CASE FinishRun(w)
  <2>1. /\ slice[w].at = "finish" /\ Goes(w, "finished", "done")
        /\ UNCHANGED runs /\ watermark' = progress.head
        /\ progress # NoProgress
    BY <1>3, <1>12, EndSteps DEF FinishRun, runVars, InPhase
  <2>2. watermark' # 0
    BY <2>1 DEF RollupInv, RollupTypes, ProgressTypes
  <2> QED BY <1>1, <1>4, <1>8, <2>1, <2>2, GoingKeeps
<1>13. CASE RowsAreGone(w)
  <2>1. /\ Goes(w, "failed", slice[w].m.phase) /\ UNCHANGED <<runs, watermark>>
    BY <1>3, <1>13, EndSteps DEF RowsAreGone, runVars, rollupVars
  <2>2. PICK phase : phase = slice[w].m.phase
    OBVIOUS
  <2>4. watermark' = 0 => Fits(phase)'
    BY <1>5, <1>6, <2>1, <2>2
  <2>3. ~(faults' = 0 /\ commands' = 0)
    <3> SUFFICES ASSUME faults' = 0, commands' = 0 PROVE FALSE
      OBVIOUS
    <3>1. slice[w].at \in {"whales", "finish"} /\ progress = NoProgress
      BY <1>13 DEF RowsAreGone, RollupInv, RightRows, RowsOfNothing
    <3>2. watermark # 0
      BY <1>6, <3>1 DEF Fits
    <3>3. PICK v \in Workers : slice[v].at = "finished"
      BY <1>2, <3>2, BoundsGrow DEF RollupInv, NoFault
    <3>4. Acts(v)
      BY <3>3, ActsMeans DEF RollupInv, RollupTypes
    <3>5. v = w
      BY <1>2, <3>4, ActsFacts
    <3> QED BY <3>1, <3>3, <3>5
  <2> QED BY <1>1, <1>4, <1>8, <2>1, <2>2, <2>3, <2>4, GoingKeeps
<1> QED BY <1>9, <1>10, <1>11, <1>12, <1>13

(* A slice ends: with a message, with the run, or for no reason.           *)
SendsOn(w) ==
  /\ slice[w].at \in {"advance", "shrink"}
  /\ Resends(Len(runs), slice[w].m.phase, slice[w].m.seq)

EndsRun(w) ==
  /\ slice[w].at \in {"failed", "shrink", "finished"} /\ UNCHANGED queue
  /\ \E state \in {"failed", "finished"} : \E phase, seq :
       Stores(Len(runs), state, phase, seq)

Dies(w) ==
  /\ UNCHANGED runs /\ faults' # 0
  /\ UNCHANGED queue \/ Gets(slice[w].msg)

LEMMA EndingKeeps ==
  ASSUME RollupInv, Steady, [RollupNext]_allVars, ~Restart,
         NEW w \in Workers, Acts(w), Ends(w), UNCHANGED <<watchdog, watermark>>,
         UNCHANGED lock \/ lock' \notin Workers,
         SendsOn(w) \/ EndsRun(w) \/ Dies(w)
  PROVE  ChainInv'
<1> DEFINE n == Len(runs)
           p == slice[w].m.phase
           k == slice[w].m.seq
<1>1. /\ n \in 1 .. n /\ Running /\ IsRunning(n) /\ slice[w].run = n
      /\ slice[w].msg.run = n /\ k \in Nat /\ Live(n)
  BY ActsFacts, RunFacts
<1>2. \A v \in Workers : ~Acts(v)' /\ slice'[v].at = "idle"
  BY OthersRest DEF Ends, Acts
<1>3. ASSUME SendsOn(w)
      PROVE  /\ Len(runs') = n /\ Running' /\ IsRunning(n)'
             /\ Latest'.phase = p /\ Latest'.seq = k + 1 /\ Latest'.fresh
             /\ \A r \in 1 .. n : IsRunning(r)' => r = n
             /\ DOMAIN queue' = DOMAIN queue
                  \cup {[run |-> n, phase |-> p, seq |-> k + 1]}
             /\ slice[w].at \in {"advance", "shrink"}
  BY <1>1, <1>3, StoresFacts DEF SendsOn, Resends, Gets
<1>4. ASSUME EndsRun(w)
      PROVE  /\ Len(runs') = n /\ ~Running' /\ queue' = queue
             /\ \A r \in 1 .. n : ~IsRunning(r)'
             /\ slice[w].at \in {"failed", "shrink", "finished"}
  <2>0. PICK state \in {"failed", "finished"} :
          \E phase, seq : Stores(n, state, phase, seq)
    BY <1>4 DEF EndsRun
  <2>1. PICK phase, seq : Stores(n, state, phase, seq)
    BY <2>0
  <2>2. state # "running"
    OBVIOUS
  <2>3. /\ Len(runs') = n /\ ~Running' /\ ~IsRunning(n)'
        /\ \A r \in 1 .. n : IsRunning(r)' => r = n
    BY <1>1, <2>1, <2>2, StoresFacts
  <2> QED BY <1>4, <2>3 DEF EndsRun
<1>5. ASSUME Dies(w)
      PROVE  /\ runs' = runs /\ Len(runs') = n /\ Running' /\ IsRunning(n)'
             /\ Latest' = Latest /\ faults' # 0
             /\ \A r \in 1 .. n : IsRunning(r)' => r = n
             /\ DOMAIN queue' \subseteq DOMAIN queue \cup {slice[w].msg}
  <2>1. runs' = runs /\ faults' # 0
    BY <1>5 DEF Dies
  <2>2. DOMAIN queue' \subseteq DOMAIN queue \cup {slice[w].msg}
    BY <1>5 DEF Dies, Gets
  <2> QED BY <1>1, <2>1, <2>2, RunFacts DEF Running, IsRunning, Latest
<1> HIDE DEF n, p, k
<1>6. Chain'
  <2>1. Len(runs') = n /\ \A r \in 1 .. n : IsRunning(r)' => r = n
    BY <1>3, <1>4, <1>5
  <2>2. OneSlice' /\ SliceOfLatest' /\ FinishedIsOver' /\ OnlyTheLatestRuns'
    BY <1>2, <2>1 DEF OneSlice, SliceOfLatest, FinishedIsOver, OnlyTheLatestRuns
  <2>3. WatchdogIsAlone'
    BY <2>1 DEF RollupInv, Chain, WatchdogIsAlone, n
  <2> QED BY <2>2, <2>3 DEF Chain
<1>7. Ahead'
  <2> SUFFICES ASSUME watermark' = 0, Running' PROVE Ahead'
    BY DEF Ahead
  <2>1. \A x : Fits(x) => Fits(x)'
    BY FitsKept
  <2>2. /\ Fits(Latest.phase)
        /\ \A e \in DOMAIN queue : e.run = n => Fits(e.phase)
        /\ Fits(slice[w].msg.phase) /\ Fits(p)
        /\ watchdog # AtRest => Fits(watchdog.m.phase)
    BY <1>1 DEF RollupInv, Ahead, n, p
  <2>3. Len(runs') = n /\ (Latest' = Latest \/ Latest'.phase = p)
    BY <1>3, <1>4, <1>5
  <2>4. Fits(Latest.phase)'
    BY <2>1, <2>2, <2>3 DEF Fits
  <2>5. ASSUME NEW e \in DOMAIN queue', e.run = n PROVE Fits(e.phase)'
    <3>1. e \in DOMAIN queue \/ e.phase = p \/ e = slice[w].msg
      BY <1>3, <1>4, <1>5, <2>5
    <3>2. Fits(e.phase)
      BY <2>2, <2>5, <3>1
    <3> QED BY <2>1, <3>2
  <2>6. watchdog' # AtRest => Fits(watchdog.m.phase)'
    BY <2>1, <2>2 DEF Fits
  <2> QED BY <1>2, <2>3, <2>4, <2>5, <2>6 DEF Ahead, Fits
<1>8. NoDelay'
  <2> SUFFICES ASSUME delays' = 0 PROVE NoDelay'
    BY DEF NoDelay
  <2>1. /\ delays = 0 /\ QueueIsPunctual /\ SliceIsPunctual
        /\ watermark # 0 /\ Running => Latest.phase = "finish"
    BY BoundsGrow DEF RollupInv, NoDelay
  <2>2. watchdog' = AtRest /\ Latest.fresh
    BY <2>1, WatchdogRests
  <2>3. /\ k = Latest.seq /\ slice[w].msg.seq = Latest.seq
        /\ slice[w].msg.phase = Latest.phase
    BY <2>1 DEF SliceIsPunctual, k
  <2>4. SliceIsPunctual' /\ WatchdogIsPunctual'
    BY <1>2, <2>2 DEF SliceIsPunctual, WatchdogIsPunctual
  <2>5. CASE SendsOn(w)
    <3>1. \A e \in DOMAIN queue : e.run = n => e.seq <= k /\ e.seq \in Nat
      BY <1>1, <2>1, <2>3
         DEF QueueIsPunctual, n, RollupInv, RollupTypes, QueueTypes, Messages
    <3>2. ASSUME NEW e \in DOMAIN queue', e.run = n
          PROVE  e.seq <= k + 1 /\ (e.seq = k + 1 => e.phase = p)
      BY <1>1, <1>3, <2>5, <3>1, <3>2
    <3>3. QueueIsPunctual' /\ StaleIsDead'
      BY <1>3, <2>5, <3>2 DEF QueueIsPunctual, StaleIsDead
    <3>4. watermark = 0
      BY <1>3, <2>5, SlicesEndAfterWatermark
    <3> QED BY <2>4, <3>3, <3>4 DEF NoDelay
  <2>6. CASE EndsRun(w)
    BY <1>4, <2>4, <2>6 DEF NoDelay, QueueIsPunctual, StaleIsDead
  <2>7. CASE Dies(w)
    <3>0. StaleIsDead'
      BY <1>5, <2>2, <2>7 DEF StaleIsDead
    <3>3. \A e \in DOMAIN queue : e.run = n =>
            e.seq <= Latest.seq /\ (e.seq = Latest.seq => e.phase = Latest.phase)
      BY <1>1, <2>1 DEF QueueIsPunctual, n
    <3>4. ASSUME NEW e \in DOMAIN queue', e.run = n
          PROVE  /\ e.seq <= Latest.seq
                 /\ e.seq = Latest.seq => e.phase = Latest.phase
      BY <1>1, <1>5, <2>3, <2>7, <3>3, <3>4
    <3>5. QueueIsPunctual'
      BY <1>5, <2>7, <3>4 DEF QueueIsPunctual
    <3>1. QueueIsPunctual' /\ StaleIsDead'
      BY <3>0, <3>5
    <3>2. watermark' # 0 /\ Running' => Latest'.phase = "finish"
      BY <1>1, <1>5, <2>1, <2>7
    <3> QED BY <2>4, <3>1, <3>2 DEF NoDelay
  <2> QED BY <2>5, <2>6, <2>7
<1>9. NoFault'
  <2> SUFFICES ASSUME faults' = 0, commands' = 0 PROVE NoFault'
    BY DEF NoFault
  <2>1. /\ n <= 1 /\ slice[w].at \notin {"shrink", "failed"}
        /\ watermark # 0 /\ Running => \E v \in Workers : slice[v].at = "finished"
    BY BoundsGrow DEF RollupInv, NoFault, n
  <2>2. \A v \in Workers : slice'[v].at \notin {"shrink", "failed"}
    BY <1>2
  <2>3. CASE SendsOn(w)
    <3>1. watermark = 0
      <4>1. slice[w].at = "advance"
        BY <1>3, <2>1, <2>3
      <4> QED BY <4>1, SlicesEndAfterWatermark
    <3>2. \A r \in 1 .. n : IsRunning(r)'
      <4>1. \A r \in 1 .. n : r = n
        BY <2>1, RunFacts DEF n
      <4> QED BY <1>3, <2>3, <4>1 DEF n
    <3> QED BY <1>3, <2>1, <2>2, <2>3, <3>1, <3>2 DEF NoFault
  <2>4. CASE EndsRun(w)
    <3>1. slice[w].at = "finished"
      BY <1>4, <2>1, <2>4
    <3>2. watermark' # 0
      BY <3>1 DEF RollupInv, Chain, FinishedIsOver
    <3> QED BY <1>4, <2>1, <2>2, <2>4, <3>2 DEF NoFault
  <2>5. CASE Dies(w)
    BY <1>5, <2>5
  <2> QED BY <2>3, <2>4, <2>5
<1> QED BY <1>6, <1>7, <1>8, <1>9 DEF ChainInv

LEMMA SliceKeeps ==
  ASSUME RollupInv, Steady, [RollupNext]_allVars, NEW w \in Workers,
         Advance(w) \/ Close(w) \/ Shrink(w) \/ Breaks(w) \/ Killed(w)
  PROVE  ChainInv'
<1>0. ChainTypes
  BY DEF RollupInv, RollupTypes, ChainTypes
<1>1. Acts(w)
  BY <1>0, AdvanceSteps, CloseSteps, ShrinkSteps, BreaksSteps, KilledSteps
<1>2. slice[w].run = Len(runs) /\ Running
  BY <1>1, ActsFacts
<1>3. /\ watermark' = watermark /\ watchdog' = watchdog
      /\ Breaks(w) => queue' = queue /\ runs' = runs
      /\ Close(w) => queue' = queue
  BY DEF Advance, Close, Shrink, Breaks, Killed, rollupVars, beatVars, runVars
<1>4. ~Restart
  BY <1>2, <1>3 DEF Restart, MayCommand, Steady
<1>5. Advance(w) \/ Close(w) \/ Shrink(w) => lock' = lock
  BY DEF Advance, Close, Shrink
<1>6. ASSUME Advance(w) PROVE ChainInv'
  <2>1. Ends(w) /\ SendsOn(w)
    BY <1>0, <1>2, <1>6, AdvanceSteps DEF SendsOn
  <2> QED BY <1>1, <1>3, <1>4, <1>5, <1>6, <2>1, EndingKeeps
<1>7. ASSUME Close(w) PROVE ChainInv'
  <2>1. /\ Ends(w) /\ slice[w].at \in {"failed", "finished"}
        /\ Stores(Len(runs), slice[w].at, slice[w].m.phase, slice[w].m.seq)
    BY <1>0, <1>2, <1>7, CloseSteps
  <2>2. EndsRun(w)
    BY <1>3, <1>7, <2>1 DEF EndsRun
  <2> QED BY <1>1, <1>3, <1>4, <1>5, <1>7, <2>1, <2>2, EndingKeeps
<1>8. ASSUME Shrink(w) PROVE ChainInv'
  <2>1. Ends(w) /\ (SendsOn(w) \/ EndsRun(w))
    BY <1>0, <1>2, <1>8, ShrinkSteps DEF SendsOn, EndsRun
  <2> QED BY <1>1, <1>3, <1>4, <1>5, <1>8, <2>1, EndingKeeps
<1>9. ASSUME Breaks(w) \/ Killed(w) PROVE faults' \in Nat /\ faults' # 0
  <2>1. faults' = faults + 1
    BY <1>9 DEF Breaks, Killed, Fault
  <2> QED BY <2>1 DEF RollupInv, RollupTypes, BoundTypes
<1>10. ASSUME Killed(w) PROVE ChainInv'
  <2>1. Ends(w) /\ Dies(w)
    BY <1>0, <1>9, <1>10, KilledSteps DEF Dies
  <2>2. UNCHANGED lock \/ lock' \notin Workers
    BY <1>10, Erc20BalanceType DEF Killed
  <2> QED BY <1>1, <1>3, <1>4, <2>1, <2>2, EndingKeeps
<1>11. ASSUME Breaks(w) PROVE ChainInv'
  <2>1. /\ slice[w].at \in Phases /\ lock' = "free"
        /\ \/ Goes(w, "failed", slice[w].m.phase)
           \/ slice[w].at # "finish" /\ Goes(w, "shrink", slice[w].m.phase)
           \/ slice[w].at = "finish" /\ Ends(w)
    BY <1>0, <1>11, BreaksSteps
  <2>2. PICK phase : phase = slice[w].m.phase
    OBVIOUS
  <2>3. watermark' = 0 => Fits(phase)'
    <3>1. watermark = 0 => Fits(phase)
      BY <1>1, <1>2, <2>2 DEF RollupInv, Ahead
    <3> QED BY <1>3, <1>4, <3>1, FitsKept
  <2>4. CASE Goes(w, "failed", phase)
    <3>1. "failed" \notin Phases
      BY DEF Phases
    <3> QED BY <1>3, <1>4, <1>9, <1>11, <2>1, <2>2, <2>3, <2>4, <3>1, GoingKeeps
  <2>5. CASE slice[w].at # "finish" /\ Goes(w, "shrink", phase)
    BY <1>3, <1>4, <1>9, <1>11, <2>1, <2>2, <2>3, <2>5, GoingKeeps
  <2>6. CASE Ends(w)
    <3>1. Dies(w)
      BY <1>3, <1>9, <1>11 DEF Dies
    <3>2. lock' \notin Workers
      BY <2>1, Erc20BalanceType
    <3> QED BY <1>1, <1>3, <1>4, <2>6, <3>1, <3>2, EndingKeeps
  <2> QED BY <2>1, <2>2, <2>4, <2>5, <2>6
<1> QED BY <1>6, <1>7, <1>8, <1>10, <1>11

(* A message comes a second time: that is a delay.                         *)
LEMMA RedeliverKeeps ==
  ASSUME RollupInv, Steady, [RollupNext]_allVars, NEW w \in Workers,
         Redeliver(w)
  PROVE  ChainInv'
<1>1. /\ runs' = runs /\ slice' = slice /\ watchdog' = watchdog /\ lock' = lock
      /\ watermark' = watermark /\ Acts(w) /\ progressVars' = progressVars
      /\ delays' = delays + 1 /\ faults' = faults /\ commands' = commands
  BY DEF Redeliver, Delay, rollupVars, beatVars, Acts
<1>2. DOMAIN queue' = DOMAIN queue \cup {slice[w].msg}
  <2>1. Gets(slice[w].msg)
    BY SendingGets DEF Redeliver, RollupInv, RollupTypes
  <2> QED BY <2>1 DEF Gets
<1>3. /\ Running' <=> Running
      /\ Latest' = Latest
      /\ \A v \in Workers : Acts(v)' <=> Acts(v)
      /\ \A r : IsRunning(r)' <=> IsRunning(r)
      /\ \A x : Fits(x)' <=> Fits(x)
  BY <1>1 DEF Running, Latest, Acts, IsRunning, Fits, progressVars
<1>4. Chain'
  <2>1. OneSlice' /\ SliceOfLatest' /\ OnlyTheLatestRuns'
    BY <1>1, <1>3
       DEF RollupInv, Chain, OneSlice, SliceOfLatest, OnlyTheLatestRuns
  <2>2. WatchdogIsAlone' /\ FinishedIsOver'
    BY <1>1 DEF RollupInv, Chain, WatchdogIsAlone, FinishedIsOver
  <2> QED BY <2>1, <2>2 DEF Chain
<1>5. Ahead'
  <2> SUFFICES ASSUME watermark' = 0, Running' PROVE Ahead'
    BY DEF Ahead
  <2>1. /\ Fits(Latest.phase)
        /\ \A e \in DOMAIN queue : e.run = Len(runs) => Fits(e.phase)
        /\ \A v \in Workers :
             Acts(v) => Fits(slice[v].msg.phase) /\ Fits(slice[v].m.phase)
        /\ watchdog # AtRest => Fits(watchdog.m.phase)
    BY <1>1, <1>3 DEF RollupInv, Ahead
  <2>2. \A e \in DOMAIN queue' : e.run = Len(runs') => Fits(e.phase)'
    BY <1>1, <1>2, <1>3, <2>1
  <2>3. \A v \in Workers :
          Acts(v)' => Fits(slice[v].msg.phase)' /\ Fits(slice[v].m.phase)'
    BY <1>1, <1>3, <2>1 DEF Fits
  <2>4. Fits(Latest.phase)' /\ (watchdog' # AtRest => Fits(watchdog.m.phase)')
    BY <1>1, <1>3, <2>1 DEF Fits
  <2> QED BY <2>2, <2>3, <2>4 DEF Ahead, Fits
<1>6. NoDelay'
  BY <1>1 DEF NoDelay, RollupInv, RollupTypes, BoundTypes
<1>7. NoFault'
  BY <1>1, <1>3 DEF RollupInv, NoFault
<1> QED BY <1>4, <1>5, <1>6, <1>7 DEF ChainInv

LEMMA SeeStalledKeeps ==
  ASSUME RollupInv, SeeStalled
  PROVE  ChainInv'
<1>1. /\ runs' = runs /\ slice' = slice /\ queue' = queue /\ lock' = lock
      /\ watermark' = watermark /\ watermark = 0 /\ Running /\ lock = "free"
      /\ ~Latest.fresh /\ progressVars' = progressVars
      /\ watchdog'.run = Len(runs) /\ watchdog'.m = Latest
      /\ delays' = delays /\ faults' = faults /\ commands' = commands
  BY DEF SeeStalled, rollupVars, runVars, boundVars
<1>2. /\ Running' <=> Running
      /\ Latest' = Latest
      /\ \A v \in Workers : Acts(v)' <=> Acts(v)
      /\ \A r : IsRunning(r)' <=> IsRunning(r)
      /\ \A r : Live(r)' <=> Live(r)
      /\ \A x : Fits(x)' <=> Fits(x)
  BY <1>1 DEF Running, Latest, Acts, IsRunning, Live, BagToSet, Fits,
              progressVars
<1>3. Chain'
  <2>1. OneSlice' /\ SliceOfLatest' /\ OnlyTheLatestRuns'
    BY <1>1, <1>2
       DEF RollupInv, Chain, OneSlice, SliceOfLatest, OnlyTheLatestRuns
  <2>2. WatchdogIsAlone' /\ FinishedIsOver'
    BY <1>1, Erc20BalanceType
       DEF RollupInv, Chain, WatchdogIsAlone, FinishedIsOver
  <2> QED BY <2>1, <2>2 DEF Chain
<1>4. Ahead'
  <2>1. /\ Fits(Latest.phase)
        /\ \A e \in DOMAIN queue : e.run = Len(runs) => Fits(e.phase)
        /\ \A v \in Workers :
             Acts(v) => Fits(slice[v].msg.phase) /\ Fits(slice[v].m.phase)
    BY <1>1 DEF RollupInv, Ahead
  <2>2. \A e \in DOMAIN queue' : e.run = Len(runs') => Fits(e.phase)'
    BY <1>1, <1>2, <2>1
  <2>3. \A v \in Workers :
          Acts(v)' => Fits(slice[v].msg.phase)' /\ Fits(slice[v].m.phase)'
    BY <1>1, <1>2, <2>1 DEF Fits
  <2>4. Fits(Latest.phase)' /\ Fits(watchdog.m.phase)'
    BY <1>1, <1>2, <2>1 DEF Fits
  <2> QED BY <2>2, <2>3, <2>4 DEF Ahead, Fits
<1>5. NoDelay'
  <2> SUFFICES ASSUME delays = 0 PROVE NoDelay'
    BY <1>1 DEF NoDelay
  <2>1. QueueIsPunctual /\ SliceIsPunctual /\ StaleIsDead
    BY DEF RollupInv, NoDelay
  <2>2. QueueIsPunctual' /\ SliceIsPunctual'
    BY <1>1, <1>2, <2>1 DEF QueueIsPunctual, SliceIsPunctual
  <2>3. StaleIsDead' /\ WatchdogIsPunctual'
    BY <1>1, <1>2, <2>1 DEF StaleIsDead, WatchdogIsPunctual
  <2> QED BY <1>1, <2>2, <2>3 DEF NoDelay
<1>6. NoFault'
  BY <1>1, <1>2 DEF RollupInv, NoFault
<1> QED BY <1>3, <1>4, <1>5, <1>6 DEF ChainInv

(* The watchdog sends the manifest it has read on its way.                 *)
LEMMA ResumeKeeps ==
  ASSUME RollupInv, Steady, [RollupNext]_allVars, Resume
  PROVE  ChainInv'
<1>1. /\ watchdog # AtRest /\ watchdog' = AtRest
      /\ \/ Resends(watchdog.run, watchdog.m.phase, watchdog.m.seq)
         \/ UNCHANGED <<runs, queue>>
  BY ResumeSteps DEF RollupInv, RollupTypes, ChainTypes
<1>2. /\ slice' = slice /\ lock' = lock /\ watermark' = watermark
      /\ progressVars' = progressVars
      /\ delays' = delays /\ faults' = faults /\ commands' = commands
  BY DEF Resume, rollupVars, boundVars
<1>3. /\ Running /\ watchdog.run = Len(runs) /\ watermark = 0
      /\ Len(runs) \in 1 .. Len(runs) /\ IsRunning(Len(runs))
      /\ watchdog.m.seq \in Nat
  BY <1>1, WatchdogFacts, RunFacts DEF Manifest, Copies
<1>4. CASE UNCHANGED <<runs, queue>>
  <2>1. ~Restart
    <3>1. CASE Restart
      <4>1. Len(runs') = Len(runs) + 1
        BY <3>1, StartSteps DEF RollupInv, RollupTypes, ChainTypes, Starts
      <4> QED BY <1>4, <4>1, RunFacts
    <3> QED BY <3>1
  <2> QED BY <1>1, <1>2, <1>4, <2>1, QuietKeeps
<1>5. CASE Resends(watchdog.run, watchdog.m.phase, watchdog.m.seq)
  <2> PICK n, p, k : n = Len(runs) /\ p = watchdog.m.phase /\ k = watchdog.m.seq
    OBVIOUS
  <2>1. /\ Len(runs') = n /\ Running' /\ runs' # <<>>
        /\ runs'[n].state = "running"
        /\ Latest'.phase = p /\ Latest'.seq = k + 1 /\ Latest'.fresh
        /\ \A r \in 1 .. n : IsRunning(r)' => r = n
    BY <1>3, <1>5, StoresFacts DEF Resends, Stores
  <2>2. DOMAIN queue' = DOMAIN queue \cup {[run |-> n, phase |-> p, seq |-> k + 1]}
    BY <1>3, <1>5 DEF Resends, Gets
  <2>3. /\ \A v \in Workers : Acts(v)' <=> Acts(v)
        /\ \A x : Fits(x)' <=> Fits(x)
    BY <1>2 DEF Acts, Fits, progressVars
  <2>4. Chain'
    <3>1. OneSlice' /\ OnlyTheLatestRuns' /\ WatchdogIsAlone'
      BY <1>1, <1>2, <2>1, <2>3
         DEF RollupInv, Chain, OneSlice, OnlyTheLatestRuns, WatchdogIsAlone
    <3>2. SliceOfLatest' /\ FinishedIsOver'
      BY <1>2, <2>1, <2>3
         DEF RollupInv, Chain, SliceOfLatest, FinishedIsOver, IsRunning
    <3> QED BY <3>1, <3>2 DEF Chain
  <2>5. Ahead'
    <3>1. /\ \A e \in DOMAIN queue : e.run = n => Fits(e.phase)
          /\ \A v \in Workers :
               Acts(v) => Fits(slice[v].msg.phase) /\ Fits(slice[v].m.phase)
          /\ Fits(p)
      BY <1>1, <1>3 DEF RollupInv, Ahead
    <3>2. \A e \in DOMAIN queue' : e.run = n => Fits(e.phase)'
      BY <2>2, <2>3, <3>1
    <3>3. \A v \in Workers :
            Acts(v)' => Fits(slice[v].msg.phase)' /\ Fits(slice[v].m.phase)'
      BY <1>2, <2>3, <3>1 DEF Fits
    <3>4. Fits(Latest.phase)'
      BY <2>1, <2>3, <3>1 DEF Fits
    <3> QED BY <1>1, <2>1, <3>2, <3>3, <3>4 DEF Ahead, Fits
  <2>6. NoDelay'
    <3> SUFFICES ASSUME delays = 0 PROVE NoDelay'
      BY <1>2 DEF NoDelay
    <3>1. QueueIsPunctual /\ StaleIsDead /\ WatchdogIsPunctual
      BY DEF RollupInv, NoDelay
    <3>2. watchdog.m = Latest /\ ~Latest.fresh
      BY <1>1, <3>1 DEF WatchdogIsPunctual
    <3>3. \A v \in Workers : ~Acts(v)
      BY <1>3, <3>1, <3>2, ActsFacts DEF StaleIsDead
    <3>4. \A e \in DOMAIN queue : e.run = n => e.seq <= k /\ e.seq \in Nat
      BY <1>3, <3>1, <3>2
         DEF QueueIsPunctual, RollupInv, RollupTypes, QueueTypes, Messages
    <3>5. ASSUME NEW e \in DOMAIN queue', e.run = n
          PROVE  e.seq <= k + 1 /\ (e.seq = k + 1 => e.phase = p)
      BY <1>3, <2>2, <3>4, <3>5
    <3>6. QueueIsPunctual' /\ SliceIsPunctual'
      BY <2>1, <2>3, <3>3, <3>5 DEF QueueIsPunctual, SliceIsPunctual
    <3>7. StaleIsDead' /\ WatchdogIsPunctual'
      BY <1>1, <2>1 DEF StaleIsDead, WatchdogIsPunctual
    <3> QED BY <1>2, <1>3, <3>6, <3>7 DEF NoDelay
  <2>7. NoFault'
    <3> SUFFICES ASSUME faults = 0, commands = 0 PROVE NoFault'
      BY <1>2 DEF NoFault
    <3>1. n <= 1 /\ \A v \in Workers : slice[v].at \notin {"shrink", "failed"}
      BY DEF RollupInv, NoFault
    <3>2. \A r \in 1 .. n : r = n
      BY <3>1, RunFacts
    <3>3. \A r \in 1 .. n : IsRunning(r)'
      BY <2>1, <3>2 DEF IsRunning
    <3> QED BY <1>2, <1>3, <2>1, <3>1, <3>3 DEF NoFault
  <2> QED BY <2>4, <2>5, <2>6, <2>7 DEF ChainInv
<1> QED BY <1>1, <1>4, <1>5

(* A run is started when nothing of another is at work.                    *)
LEMMA NewRunKeeps ==
  ASSUME RollupInv, Steady, [RollupNext]_allVars,
         StartBackfill \/ BackfillCommand \/ Restart
  PROVE  ChainInv'
<1>1. /\ ~Running /\ slice' = slice /\ watchdog' = watchdog /\ lock' = lock
      /\ watermark' = 0 /\ delays' = delays /\ faults' = faults
      /\ StartBackfill => watermark = 0 /\ commands' = commands
      /\ ~StartBackfill => commands' = commands + 1
      /\ Restart \/ progressVars' = progressVars
  BY DEF StartBackfill, BackfillCommand, Restart, MayStart, MayCommand, Steady,
         rollupVars, beatVars, boundVars
<1>2. /\ \A w \in Workers : ~Acts(w)
      /\ watchdog = AtRest
      /\ \A r \in 1 .. Len(runs) : ~IsRunning(r)
  BY <1>1, OverFacts
<1>3. \A w \in Workers : ~Acts(w)' /\ slice'[w].at = "idle"
  BY <1>1, <1>2 DEF Acts, AtRest
<1> PICK n : n = Len(runs) + 1
  OBVIOUS
<1>4. PICK p : Starts(p) /\ Fits(p)'
  <2>1. PICK p : p = StartPhase
    OBVIOUS
  <2>2. CASE StartBackfill
    <3>1. Starts(p) /\ Fits(p) /\ (Restart \/ progressVars' = progressVars)
      BY <1>1, <2>1, <2>2, StartSteps, StartPhaseFits
         DEF RollupInv, RollupTypes, ChainTypes
    <3>2. progressVars' = progressVars
      BY <2>2 DEF StartBackfill
    <3>3. Fits(p)'
      BY <3>1, <3>2 DEF Fits, progressVars
    <3> QED BY <3>1, <3>3
  <2>3. CASE BackfillCommand \/ Restart
    <3>1. Starts("chunks")
      BY <2>3, StartSteps DEF RollupInv, RollupTypes, ChainTypes
    <3>2. Fits("chunks")'
      BY DEF Fits
    <3> QED BY <3>1, <3>2
  <2> QED BY <2>2, <2>3
<1>5. /\ Len(runs') = n /\ n \in Nat \ {0} /\ Running'
      /\ Latest'.phase = p /\ Latest'.seq = 1 /\ Latest'.fresh
      /\ runs'[n].state = "running"
      /\ DOMAIN queue' = DOMAIN queue \cup {[run |-> n, phase |-> p, seq |-> 1]}
      /\ \A q \in 1 .. Len(runs) : runs'[q] = runs[q]
  <2>1. /\ runs' \in Seq(Manifest) /\ Len(runs') = n
        /\ \A q \in 1 .. Len(runs) : runs'[q] = runs[q]
        /\ runs'[n].state = "running" /\ runs'[n].phase = p
        /\ runs'[n].seq = 1 /\ runs'[n].fresh
        /\ DOMAIN queue' = DOMAIN queue \cup {[run |-> n, phase |-> p, seq |-> 1]}
    BY <1>4 DEF Starts, Gets
  <2>2. n \in Nat \ {0} /\ runs' # <<>>
    BY <2>1, RunFacts
  <2> QED BY <2>1, <2>2 DEF Latest, Running
<1>6. \A e \in DOMAIN queue' : e.run = n => e.phase = p /\ e.seq = 1
  <2>1. \A e \in DOMAIN queue : e.run \in 1 .. Len(runs)
    BY DEF RollupInv, RollupTypes, QueueTypes, Messages
  <2>2. \A e \in DOMAIN queue : e.run # n
    BY <2>1, RunFacts
  <2> QED BY <1>5, <2>2
<1>7. \A r \in 1 .. n : IsRunning(r)' <=> r = n
  <2>1. \A r \in 1 .. n : r \in 1 .. Len(runs) \/ r = n
    BY RunFacts
  <2>2. ASSUME NEW r \in 1 .. Len(runs) PROVE ~IsRunning(r)' /\ r # n
    BY <1>2, <1>5, <2>2, RunFacts DEF IsRunning
  <2>3. IsRunning(n)' <=> runs'[n].state = "running"
    BY DEF IsRunning
  <2> QED BY <1>5, <2>1, <2>2, <2>3
<1>8. Chain'
  <2>1. OneSlice' /\ SliceOfLatest' /\ FinishedIsOver' /\ WatchdogIsAlone'
    BY <1>1, <1>2, <1>3
       DEF OneSlice, SliceOfLatest, FinishedIsOver, WatchdogIsAlone
  <2>2. OnlyTheLatestRuns'
    BY <1>5, <1>7 DEF OnlyTheLatestRuns
  <2> QED BY <2>1, <2>2 DEF Chain
<1>9. Ahead'
  <2>1. ASSUME NEW e \in DOMAIN queue', e.run = n PROVE Fits(e.phase)'
    <3>1. e.phase = p
      BY <1>6, <2>1
    <3> QED BY <1>4, <3>1
  <2>2. Fits(Latest.phase)'
    BY <1>4, <1>5 DEF Fits
  <2> QED BY <1>1, <1>2, <1>3, <1>5, <2>1, <2>2 DEF Ahead, Fits
<1>10. NoDelay'
  <2>1. QueueIsPunctual'
    BY <1>5, <1>6 DEF QueueIsPunctual
  <2>2. SliceIsPunctual' /\ StaleIsDead' /\ WatchdogIsPunctual'
    BY <1>1, <1>2, <1>3, <1>5
       DEF SliceIsPunctual, StaleIsDead, WatchdogIsPunctual
  <2> QED BY <1>1, <2>1, <2>2 DEF NoDelay
<1>11. NoFault'
  <2> SUFFICES ASSUME faults' = 0, commands' = 0 PROVE NoFault'
    BY DEF NoFault
  <2>1. /\ StartBackfill /\ watermark = 0 /\ faults = 0 /\ commands = 0
    BY <1>1 DEF RollupInv, RollupTypes, BoundTypes
  <2>2. \A r \in 1 .. Len(runs) : IsRunning(r)
    BY <2>1 DEF RollupInv, NoFault
  <2>3. Len(runs) = 0
    BY <1>2, <2>2, RunFacts
  <2>4. n = 1
    BY <2>3
  <2>5. \A r \in 1 .. n : IsRunning(r)'
    BY <1>7, <2>4
  <2> QED BY <1>1, <1>3, <1>5, <2>4, <2>5 DEF NoFault
<1> QED BY <1>8, <1>9, <1>10, <1>11 DEF ChainInv

(* A heartbeat is missed, by a run that is dead or that is delayed.        *)
LEMMA GraceKeeps ==
  ASSUME RollupInv, NEW r, GracePasses(r)
  PROVE  ChainInv'
<1>1. /\ queue' = queue /\ slice' = slice /\ watchdog' = watchdog
      /\ lock' = lock /\ watermark' = watermark /\ runs[r].fresh
      /\ progressVars' = progressVars
      /\ faults' = faults /\ commands' = commands
      /\ \/ delays' = delays /\ ~Live(r)
         \/ delays' = delays + 1
  BY DEF GracePasses, Delay, rollupVars, beatVars, boundVars
<1>2. /\ r = Len(runs) /\ Len(runs') = r /\ runs # <<>> /\ runs' # <<>>
      /\ Running /\ Latest.fresh
      /\ Latest'.state = Latest.state /\ Latest'.phase = Latest.phase
      /\ Latest'.seq = Latest.seq
      /\ \A q \in 1 .. r : IsRunning(q)' <=> IsRunning(q)
      /\ r \in 1 .. r
  <2>1. /\ r \in 1 .. Len(runs) /\ IsRunning(r) /\ Len(runs') = Len(runs)
        /\ runs'[r].state = runs[r].state /\ runs'[r].phase = runs[r].phase
        /\ runs'[r].seq = runs[r].seq
        /\ \A q \in 1 .. Len(runs) : q # r => runs'[q] = runs[q]
        /\ runs' \in Seq(Manifest)
    BY GraceSteps DEF RollupInv, RollupTypes
  <2>2. r = Len(runs) /\ runs # <<>> /\ runs' # <<>>
    BY <2>1, RunFacts
  <2> QED BY <1>1, <2>1, <2>2 DEF Running, Latest, IsRunning
<1>3. /\ \A v \in Workers : Acts(v)' <=> Acts(v)
      /\ \A x : Fits(x)' <=> Fits(x)
      /\ \A q : Live(q)' <=> Live(q)
      /\ Running'
  BY <1>1, <1>2 DEF Acts, Fits, Live, BagToSet, progressVars, Running
<1>4. Chain'
  <2>1. OneSlice' /\ SliceOfLatest' /\ OnlyTheLatestRuns'
    <3>1. IsRunning(r)'
      BY <1>2, RunFacts
    <3>2. SliceOfLatest'
      BY <1>1, <1>2, <1>3, <3>1
         DEF RollupInv, Chain, SliceOfLatest, IsRunning
    <3> QED BY <1>1, <1>2, <1>3, <3>2
            DEF RollupInv, Chain, OneSlice, OnlyTheLatestRuns
  <2>2. WatchdogIsAlone' /\ FinishedIsOver'
    BY <1>1, <1>2 DEF RollupInv, Chain, WatchdogIsAlone, FinishedIsOver
  <2> QED BY <2>1, <2>2 DEF Chain
<1>5. Ahead'
  <2> SUFFICES ASSUME watermark' = 0 PROVE Ahead'
    BY DEF Ahead
  <2>1. /\ Fits(Latest.phase)
        /\ \A e \in DOMAIN queue : e.run = Len(runs) => Fits(e.phase)
        /\ \A v \in Workers :
             Acts(v) => Fits(slice[v].msg.phase) /\ Fits(slice[v].m.phase)
        /\ watchdog # AtRest => Fits(watchdog.m.phase)
    BY <1>1, <1>2 DEF RollupInv, Ahead
  <2>2. \A e \in DOMAIN queue' : e.run = Len(runs') => Fits(e.phase)'
    BY <1>1, <1>2, <1>3, <2>1
  <2>3. \A v \in Workers :
          Acts(v)' => Fits(slice[v].msg.phase)' /\ Fits(slice[v].m.phase)'
    BY <1>1, <1>3, <2>1 DEF Fits
  <2>4. Fits(Latest.phase)' /\ (watchdog' # AtRest => Fits(watchdog.m.phase)')
    BY <1>1, <1>2, <1>3, <2>1 DEF Fits
  <2> QED BY <2>2, <2>3, <2>4 DEF Ahead, Fits
<1>6. NoDelay'
  <2> SUFFICES ASSUME delays' = 0 PROVE NoDelay'
    BY DEF NoDelay
  <2>1. delays = 0 /\ ~Live(r)
    BY <1>1 DEF RollupInv, RollupTypes, BoundTypes
  <2>2. /\ QueueIsPunctual /\ SliceIsPunctual /\ WatchdogIsPunctual
        /\ watermark # 0 => Latest.phase = "finish"
    BY <1>2, <2>1 DEF RollupInv, NoDelay
  <2>3. watchdog = AtRest
    BY <1>2, <2>2 DEF WatchdogIsPunctual
  <2>4. QueueIsPunctual' /\ SliceIsPunctual'
    BY <1>1, <1>2, <1>3, <2>2 DEF QueueIsPunctual, SliceIsPunctual
  <2>5. StaleIsDead' /\ WatchdogIsPunctual'
    BY <1>1, <1>2, <1>3, <2>1, <2>3 DEF StaleIsDead, WatchdogIsPunctual
  <2> QED BY <1>1, <1>2, <2>2, <2>4, <2>5 DEF NoDelay
<1>7. NoFault'
  BY <1>1, <1>2, <1>3 DEF RollupInv, NoFault
<1> QED BY <1>4, <1>5, <1>6, <1>7 DEF ChainInv

(* Steps of others than the chain.                                         *)
LEMMA OthersKeep ==
  ASSUME RollupInv, Steady, [RollupNext]_allVars,
         \/ \E w \in Workers : ResolveRun(w) \/ DetectWhales(w)
         \/ LoseMessage \/ LockExpires
         \/ StartNightly \/ SeedMissing \/ ApplyDelta \/ NightlyFails
         \/ WatchdogFails \/ HeadMoves \/ SafeCommits \/ Settle
         \/ UNCHANGED allVars
  PROVE  ChainInv'
<1>1. runs' = runs /\ slice' = slice /\ watchdog' \in {watchdog, AtRest}
  BY DEF ResolveRun, DetectWhales, LoseMessage, LockExpires, StartNightly,
         SeedMissing, ApplyDelta, NightlyFails, WatchdogFails, HeadMoves,
         SafeCommits, Settle, allVars, runVars, beatVars
<1>2. UNCHANGED queue \/ Loses
  <2>1. CASE LoseMessage
    <3>1. PICK e \in DOMAIN queue : queue' = queue (-) SetToBag({e})
      BY <2>1 DEF LoseMessage, BagToSet
    <3>2. QueueTypes
      BY DEF RollupInv, RollupTypes
    <3> QED BY <3>1, <3>2, TakingLoses
  <2>2. CASE ~LoseMessage
    BY <2>2
       DEF ResolveRun, DetectWhales, LockExpires, StartNightly, SeedMissing,
           ApplyDelta, NightlyFails, WatchdogFails, HeadMoves, SafeCommits,
           Settle, allVars, runVars
  <2> QED BY <2>1, <2>2
<1>3. UNCHANGED lock \/ lock' \in {"free", "dead", "nightly"}
  BY DEF ResolveRun, DetectWhales, LoseMessage, LockExpires, StartNightly,
         SeedMissing, ApplyDelta, NightlyFails, WatchdogFails, HeadMoves,
         SafeCommits, Settle, allVars
<1>4. UNCHANGED lock \/ lock' \notin Workers
  BY <1>3, Erc20BalanceType
<1>5. ~Restart
  <2>1. CASE Restart
    <3>1. Len(runs') = Len(runs) + 1
      BY <2>1, StartSteps DEF RollupInv, RollupTypes, ChainTypes, Starts
    <3> QED BY <1>1, <3>1, RunFacts
  <2> QED BY <2>1
<1>6. watermark' = watermark \/ (watermark # 0 /\ watermark' # 0)
  <2>1. CASE ApplyDelta
    <3>1. nightly # AtRest /\ watermark' = nightly.head
      BY <2>1 DEF ApplyDelta, AtRest
    <3> QED BY <3>1, NightlyFinds
  <2>2. CASE ~ApplyDelta
    BY <2>2
       DEF ResolveRun, DetectWhales, LoseMessage, LockExpires, StartNightly,
           SeedMissing, NightlyFails, WatchdogFails, HeadMoves, SafeCommits,
           Settle, allVars, rollupVars
  <2> QED BY <2>1, <2>2
<1> QED BY <1>1, <1>2, <1>4, <1>5, <1>6, QuietKeeps

LEMMA ChainInvKept ==
  ASSUME RollupInv, Steady, [RollupNext]_allVars
  PROVE  ChainInv'
<1>1. ASSUME NEW w \in Workers, Work(w) PROVE ChainInv'
  <2>1. CASE \/ SeedChunk(w) \/ WalkRange(w) \/ EndChunks(w) \/ EndWalk(w)
             \/ FinishRun(w) \/ RowsAreGone(w)
    BY <2>1, WorkKeeps
  <2>2. CASE Advance(w) \/ Close(w) \/ Shrink(w)
    BY <2>2, SliceKeeps
  <2>3. CASE ResolveRun(w) \/ DetectWhales(w)
    BY <2>3, OthersKeep
  <2> QED BY <1>1, <2>1, <2>2, <2>3 DEF Work
<1>2. ASSUME NEW w \in Workers, Receive(w) \/ Redeliver(w) PROVE ChainInv'
  BY <1>2, ReceiveKeeps, RedeliverKeeps
<1>3. ASSUME NEW w \in Workers, Breaks(w) \/ Killed(w) PROVE ChainInv'
  BY <1>3, SliceKeeps
<1>4. CASE \/ LoseMessage \/ LockExpires
           \/ StartNightly \/ SeedMissing \/ ApplyDelta \/ NightlyFails
           \/ WatchdogFails \/ HeadMoves \/ SafeCommits \/ Settle
           \/ UNCHANGED allVars
  BY <1>4, OthersKeep
<1>5. CASE SeeStalled
  BY <1>5, SeeStalledKeeps
<1>6. CASE Resume
  BY <1>6, ResumeKeeps
<1>7. CASE StartBackfill \/ BackfillCommand \/ Restart
  BY <1>7, NewRunKeeps
<1>8. ASSUME NEW r \in 1 .. MaxRuns, GracePasses(r) PROVE ChainInv'
  BY <1>8, GraceKeeps
<1> QED
  BY <1>1, <1>2, <1>3, <1>4, <1>5, <1>6, <1>7, <1>8 DEF RollupNext

-----------------------------------------------------------------------------
(***************************************************************************)
(* The rollup: its invariant and the theorem.                              *)
(***************************************************************************)
LEMMA RollupInvInit == RollupInit => RollupInv
<1> SUFFICES ASSUME RollupInit PROVE RollupInv
  OBVIOUS
<1>1. RollupTypes
  BY RollupInitTypes
<1>2. /\ watermark = 0 /\ progress = NoProgress /\ boundary = NoBoundary
      /\ walked = 0 /\ pair = NoPairs /\ nightly = AtRest /\ watchdog = AtRest
      /\ runs = <<>> /\ slice = [w \in Workers |-> AtRest]
      /\ faults = 0 /\ delays = 0 /\ commands = 0
  BY DEF RollupInit
<1>3. /\ \A w \in Workers : ~Acts(w) /\ slice[w].at = "idle"
      /\ ~Running /\ Len(runs) = 0 /\ 1 .. Len(runs) = {}
  BY <1>2 DEF Acts, AtRest, Running
<1>4. RightRows
  BY <1>2 DEF RightRows, RowsOfNothing, RowsOfBackfill, RowsOfRollup,
              NightlyIsRight, NoPairs
<1>5. Chain
  BY <1>2, <1>3 DEF Chain, OneSlice, SliceOfLatest, OnlyTheLatestRuns,
                    WatchdogIsAlone, FinishedIsOver
<1>6. Ahead
  BY <1>3 DEF Ahead
<1>7. NoDelay
  BY <1>2, <1>3 DEF NoDelay, QueueIsPunctual, SliceIsPunctual, StaleIsDead,
                    WatchdogIsPunctual
<1>8. NoFault
  BY <1>2, <1>3 DEF NoFault
<1> QED BY <1>1, <1>2, <1>4, <1>5, <1>6, <1>7, <1>8 DEF RollupInv

LEMMA RollupInvKept ==
  ASSUME RollupInv, Steady, [RollupNext]_allVars
  PROVE  RollupInv'
<1>1. RollupTypes' /\ RightRows' /\ ChainInv'
  BY RollupTypesKept, RightRowsKept, ChainInvKept DEF RollupInv
<1>2. delays' = 0 \/ (faults' = 0 /\ commands' = 0)
  BY SettingKept DEF RollupInv, RollupTypes
<1> QED BY <1>1, <1>2 DEF RollupInv, ChainInv

(* What the invariant says of the rows is what a reader of the table       *)
(* relies on: each Safe up to the marker is there.                         *)
LEMMA RollupInvIsExact ==
  ASSUME RollupInv
  PROVE  RollupIsExact
<1> SUFFICES ASSUME watermark # 0
             PROVE  /\ \A s \in safes : s <= marker \/ s \in DOMAIN pair =>
                         Value(s) = Balance(s, watermark)
                    /\ holders =
                         {s \in safes : s <= marker /\ Balance(s, watermark) > 0}
  BY DEF RollupIsExact
<1>1. /\ \A s \in DOMAIN pair \cup 1 .. marker : Value(s) = Balance(s, watermark)
      /\ holders = {s \in 1 .. marker : Balance(s, watermark) > 0}
  BY DEF RollupInv, RightRows, RowsOfRollup
<1>2. WorldTypes /\ marker \in 0 .. settled /\ settled \in Nat
  BY Erc20BalanceType DEF RollupInv, RollupTypes, PairTypes, WorldTypes
<1>3. {s \in safes : 0 < s /\ s <= marker} = 0 + 1 .. marker
  BY <1>2, SafesBetween
<1>4. \A s \in safes : s > 0
  BY SafesAreNumbers DEF RollupInv, RollupTypes, WorldTypes
<1>5. \A s : s \in 1 .. marker <=> s \in safes /\ s <= marker
  <2>1. \A s : s \in safes /\ 0 < s /\ s <= marker <=> s \in 0 + 1 .. marker
    BY <1>3, Zenon
  <2>2. 0 + 1 .. marker = 1 .. marker
    OBVIOUS
  <2>3. \A s \in safes : 0 < s
    BY <1>4, SafesAreNumbers DEF RollupInv, RollupTypes, WorldTypes
  <2> QED BY <2>1, <2>2, <2>3
<1> QED BY <1>1, <1>5

(* Once the table is handed over, each balance up to the marker is that of *)
(* the watermark, and the read model counts the holders of that block:     *)
(* after any steps that fail, workers that are killed and commands to      *)
(* start over, as long as no live work is late, or with any delays when    *)
(* nothing else goes wrong.                                                *)
THEOREM RollupIsAlwaysExact ==
  ASSUME Steady
  PROVE  RollupSpec => []RollupIsExact
<1>1. RollupInit => RollupInv
  BY RollupInvInit
<1>2. RollupInv /\ [RollupNext]_allVars => RollupInv'
  BY RollupInvKept
<1>3. RollupInv => RollupIsExact
  BY RollupInvIsExact
<1> QED BY <1>1, <1>2, <1>3, PTL DEF RollupSpec
=============================================================================
