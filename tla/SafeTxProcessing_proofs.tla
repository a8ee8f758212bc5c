---------------------- MODULE SafeTxProcessing_proofs ----------------------
(***************************************************************************)
(* The history of a Safe is the replay of its calls, for any calls: the    *)
(* inductive invariant behind HistoryIsReplay and SettledIsReplay, and the *)
(* refinement of SafeLedger.                                               *)
(*                                                                         *)
(* What a recursive function computes is proved by least counterexample:   *)
(* a set of naturals for which a statement fails would have a least one.   *)
(***************************************************************************)
EXTENDS SafeTxProcessing, FiniteSetTheorems, SequenceTheorems,
        WellFoundedInduction, TLAPS

-----------------------------------------------------------------------------
(* An object in the cache was read from SafeLastStatus or stored in it.    *)
TypeInv ==
  TypeOK /\ (tx.cache # NoStatus \/ StoredRows # {} => tx.last # NoStatus)

UpTo(rows, n) == rows \cap 1 .. n

(* seen holds the statuses of rows, each what the rows so far make, and a  *)
(* row without a status is one that changes nothing.                       *)
Hist(seen, rows) ==
  \A r \in Row :
    IF seen[r] # NoStatus
    THEN /\ r \in rows
         /\ seen[r] \in StatusRows
         /\ seen[r].row = r
         /\ Config(seen[r]) = Replay(UpTo(rows, r))
    ELSE r \in rows => Replay(UpTo(rows, r)) = Replay(UpTo(rows, r - 1))

(* l, if there, is the newest status of seen.                              *)
Newest(seen, l) ==
  l # NoStatus => /\ l.row \in Row
                  /\ seen[l.row] = l
                  /\ \A q \in Row : q > l.row => seen[q] = NoStatus

Before(rows, others) == \A r \in rows, q \in others : r < q

Committed == Hist(statuses, Processed) /\ Newest(statuses, last)

(* Rows of a block are stored and deleted together.                        *)
WholeBlocks ==
  \A r \in Present, q \in Row : Timestamp[q] = Timestamp[r] => q \in Present

(* Processed rows of a block come before pending ones of it.               *)
BlocksInOrder ==
  \A r \in Pending, q \in Processed : Timestamp[r] = Timestamp[q] => q < r

(* Nothing pending is older than what is processed once the check is done; *)
(* while it is being repaired, nothing that is kept.                       *)
Repaired ==
  /\ run.pc \in {"fetch", "process"} => Before(Processed, Pending)
  /\ run.pc = "fix" =>
       /\ run.fixFrom \in Row
       /\ Before({q \in Processed : Timestamp[q] < Timestamp[run.fixFrom]}, Pending)

Seen == [r \in Row |-> SeenStatus(r)]
Done == run.batch \ run.todo
Kept == run.batch \ run.gone

(* The batch is the start of the queue, but for what was deleted since,    *)
(* and that was at its end.                                                *)
BatchOK ==
  /\ run.pc # "process" => run.batch = {}
  /\ run.pc = "process" =>
       /\ run.batch # {}
       /\ Before(Done, run.todo)
       /\ Kept \subseteq Pending /\ Before(Kept, Pending \ run.batch)
       /\ \A r \in Kept, g \in run.gone : Timestamp[r] < Timestamp[g]

(* The transaction extends the history by the rows it has processed, as    *)
(* long as some of its batch is still there.                               *)
InFlight ==
  run.pc = "process" =>
    /\ tx.last # NoStatus =>
         \/ tx.last.row \in run.batch \cup run.gone
         \/ Newest(statuses, tx.last)
    /\ Kept # {} => /\ Hist(Seen, Processed \cup Done)
                    /\ Newest(Seen, SeenLast)
                    /\ tx.cache # NoStatus => tx.cache = tx.last

IInv == /\ TypeInv /\ Committed /\ WholeBlocks /\ BlocksInOrder
        /\ Repaired /\ BatchOK /\ InFlight

-----------------------------------------------------------------------------
(* A non-empty set of naturals has a least element.                        *)
LEMMA Least ==
  ASSUME NEW T, T \subseteq Nat, T # {}
  PROVE  \E x \in T : \A y \in T : x <= y
<1>1. PICK x \in T : \A y \in T : ~ (<<y, x>> \in OpToRel(<, Nat))
  BY WFMin, NatLessThanWellFounded, Zenon
<1>2. \A y \in T : ~ (y < x)
  BY <1>1 DEF OpToRel
<1> QED
  BY <1>2

(* Induction over an interval: what holds of its start and passes from a   *)
(* number to the next holds of all of it.                                  *)
LEMMA Induct ==
  ASSUME NEW S, NEW a \in Nat, NEW b \in Nat, a \in S,
         \A n \in a + 1 .. b : n - 1 \in S => n \in S
  PROVE  \A n \in a .. b : n \in S
<1> DEFINE T == {n \in a .. b : n \notin S}
<1> SUFFICES ASSUME T # {} PROVE FALSE
  OBVIOUS
<1>0. T \subseteq Nat
  OBVIOUS
<1>1. PICK x \in T : \A y \in T : x <= y
  <2> HIDE DEF T
  <2> QED BY <1>0, Least, Zenon
<1>2. x \in a + 1 .. b /\ x - 1 \in a .. b
  BY <1>1
<1> QED
  BY <1>1, <1>2

(* The greatest element, of a set that is bounded.                         *)
LEMMA Greatest ==
  ASSUME NEW T, NEW b \in Nat, T \subseteq 0 .. b, T # {}
  PROVE  \E x \in T : \A y \in T : y <= x
<1> DEFINE U == {n \in Nat : \A y \in T : y <= n}
<1>1. b \in U /\ U \subseteq Nat
  OBVIOUS
<1>2. PICK x \in U : \A y \in U : x <= y
  <2> HIDE DEF U
  <2> QED BY <1>1, Least, Zenon
<1>3. CASE x \in T
  BY <1>2, <1>3
<1>4. CASE x \notin T
  <2>1. x # 0
    <3>1. PICK y \in T : y \in 0 .. b
      OBVIOUS
    <3> QED
      BY <1>2, <1>4, <3>1
  <2>2. \A y \in T : y <= x - 1
    BY <1>2, <1>4
  <2>3. x - 1 \in U
    BY <2>1, <2>2
  <2> QED
    BY <1>2, <2>3
<1> QED
  BY <1>3, <1>4

-----------------------------------------------------------------------------
(* What a call does to a status.                                           *)
LEMMA RowFacts ==
  /\ NumRows \in Nat \ {0}
  /\ \A r \in Row :
       /\ Call[r].fn \in FunctionNames
       /\ Call[r].threshold \in Nat /\ Call[r].nonce \in Nat
       /\ Call[r].owners \in Seq(Owners)
       /\ Call[r].owner \in Owners /\ Call[r].newOwner \in Owners
       /\ Timestamp[r] \in Nat
  /\ \A r, q \in Row : Timestamp[r] < Timestamp[q] => r < q
<1>1. \A r \in Row : Call[r].owner \in Owners /\ Call[r].newOwner \in Owners
                     /\ Range(Call[r].owners) \subseteq Owners
  BY DEF Owners
<1>2. \A r \in Row : Call[r].owners \in Seq(Owners)
  BY <1>1, RowType, SeqMonotonic
<1>3. \A r, q \in Row : Timestamp[r] < Timestamp[q] => r < q
  BY RowType, QueueFollowsTime DEF Row
<1> QED
  BY <1>1, <1>2, <1>3, RowType

LEMMA RemovedOwners ==
  ASSUME NEW s \in Seq(Owners), NEW o
  PROVE  RemoveFirst(s, o) \in Seq(Owners)
<1>1. CASE \E i \in 1 .. Len(s) : s[i] = o
  <2> DEFINE I == {i \in 1 .. Len(s) : s[i] = o}
             k == SelectInSeq(s, LAMBDA v : v = o)
  <2>1. I # {} /\ I \subseteq Nat
    BY <1>1
  <2>2. k \in 1 .. Len(s)
    <3>1. \E x \in I : \A y \in I : x <= y
      BY <2>1, Least
    <3>2. k = CHOOSE x \in I : \A y \in I : x <= y
      BY <2>1 DEF SelectInSeq, Min
    <3>3. k \in I
      BY <3>1, <3>2
    <3> QED
      BY <3>3
  <2>3. /\ SubSeq(s, 1, k - 1) \in Seq(Owners)
        /\ SubSeq(s, k + 1, Len(s)) \in Seq(Owners)
    <3> HIDE DEF k
    <3>1. \A i \in 1 .. Len(s) : s[i] \in Owners
      OBVIOUS
    <3>2. /\ k - 1 \in Int /\ k + 1 \in Int /\ Len(s) \in Int /\ 1 \in Int
          /\ \A i \in 1 .. k - 1 : s[i] \in Owners
          /\ \A i \in k + 1 .. Len(s) : s[i] \in Owners
      BY <2>2, <3>1
    <3> QED
      BY <3>2, SubSeqProperties
  <2>4. RemoveFirst(s, o) = SubSeq(s, 1, k - 1) \o SubSeq(s, k + 1, Len(s))
    BY <1>1 DEF RemoveFirst, RemoveAt
  <2> HIDE DEF k
  <2> QED
    BY <2>3, <2>4, ConcatProperties
<1>2. CASE ~ \E i \in 1 .. Len(s) : s[i] = o
  BY <1>2 DEF RemoveFirst
<1> QED
  BY <1>1, <1>2

LEMMA ModifiedType ==
  ASSUME NEW r \in Row
  PROVE  /\ \A s : Call[r].fn = "setup" => Modified(Call[r], s) \in Configs
         /\ \A s \in Configs : Modified(Call[r], s) \in Configs
<1> DEFINE c == Call[r]
<1>1. c.fn = "setup" => \A s : Modified(c, s) \in Configs
  BY RowFacts DEF Modified, Configs
<1>2. \A s \in Configs : Modified(c, s) \in Configs
  <2> SUFFICES ASSUME NEW s \in Configs PROVE Modified(c, s) \in Configs
    OBVIOUS
  <2>1. ThresholdOr(c, s) \in Nat
    BY RowFacts DEF ThresholdOr, Configs
  <2>2. CASE c.fn = "setup"
    BY <1>1, <2>2
  <2>3. CASE c.fn = "addOwner"
    <3>1. <<c.owner>> \o s.owners \in Seq(Owners)
      BY RowFacts, ConcatProperties DEF Configs
    <3> QED
      BY <2>1, <2>3, <3>1 DEF Modified, Configs
  <2>4. CASE c.fn = "removeOwner"
    <3>1. RemoveFirst(s.owners, c.owner) \in Seq(Owners)
      BY RemovedOwners DEF Configs
    <3> QED
      BY <2>1, <2>4, <3>1 DEF Modified, Configs
  <2>5. CASE c.fn = "swapOwner"
    <3>1. ReplaceAll(s.owners, c.owner, c.newOwner) \in Seq(Owners)
      BY RowFacts DEF ReplaceAll, Configs
    <3> QED
      BY <2>5, <3>1 DEF Modified, Configs
  <2>6. CASE c.fn \in {"changeThreshold", "execTransaction", "approveHash"}
    BY <2>6, RowFacts DEF Modified, Configs
  <2> QED
    BY <2>2, <2>3, <2>4, <2>5, <2>6, RowFacts DEF FunctionNames
<1> QED
  BY <1>1, <1>2

LEMMA ApplyType ==
  ASSUME NEW r \in Row, NEW s \in Configs \cup {NoStatus}
  PROVE  Apply(Call[r], s) \in Configs \cup {NoStatus}
<1>1. CASE Call[r].fn = "setup"
  BY <1>1, ModifiedType DEF Apply
<1>2. CASE Call[r].fn # "setup"
  BY <1>2, ModifiedType, NoStatusIsNone DEF Apply
<1> QED
  BY <1>1, <1>2

(* The row of a status plays no part in what a call makes of it.           *)
LEMMA ModifiedConfig ==
  ASSUME NEW r \in Row, NEW s \in StatusRows
  PROVE  /\ Config(s) \in Configs
         /\ s = At(s.row, Config(s))
         /\ OwnerCannotBeRemoved(Call[r], s)
              <=> OwnerCannotBeRemoved(Call[r], Config(s))
         /\ At(r, Modified(Call[r], s)) = At(r, Modified(Call[r], Config(s)))
<1> DEFINE c == Call[r]
<1>1. Config(s) = [owners |-> s.owners, threshold |-> s.threshold, nonce |-> s.nonce]
  BY NoStatusIsNone DEF Config
<1>2. s.owners = Config(s).owners /\ s.threshold = Config(s).threshold
      /\ s.nonce = Config(s).nonce
  BY <1>1
<1>3. ThresholdOr(c, s) = ThresholdOr(c, Config(s))
  BY <1>2 DEF ThresholdOr
<1>4. Config(s) \in Configs /\ s = At(s.row, Config(s))
  BY <1>1 DEF Configs, StatusRows, At
<1>5. At(r, Modified(c, s)) = At(r, Modified(c, Config(s)))
  <2> DEFINE k == Config(s)
  <2>1. k \in Configs /\ s \in StatusRows /\ s.owners = k.owners
        /\ s.threshold = k.threshold /\ s.nonce = k.nonce
        /\ ThresholdOr(c, s) = ThresholdOr(c, k)
    BY <1>2, <1>3, <1>4
  <2> HIDE DEF k
  <2>2. c.fn \in FunctionNames
    BY RowFacts
  <2> QED
    BY <2>1, <2>2 DEF At, Modified, FunctionNames, Configs, StatusRows
<1> QED
  BY <1>2, <1>4, <1>5 DEF OwnerCannotBeRemoved

LEMMA AtConfig ==
  ASSUME NEW r \in Row, NEW k \in Configs
  PROVE  /\ At(r, k) \in StatusRows /\ At(r, k) # NoStatus
         /\ At(r, k).row = r /\ Config(At(r, k)) = k
<1>1. At(r, k) \in StatusRows
  BY DEF At, Configs, StatusRows
<1>2. At(r, k) # NoStatus
  BY <1>1, NoStatusIsNone
<1> QED
  BY <1>1, <1>2 DEF At, Config, Configs

LEMMA ConfigType ==
  ASSUME NEW s \in StatusRows \cup {NoStatus}
  PROVE  /\ Config(s) \in Configs \cup {NoStatus}
         /\ Config(s) = NoStatus <=> s = NoStatus
BY NoStatusIsNone, ModifiedConfig DEF Config, Configs, StatusRows

-----------------------------------------------------------------------------
(* The replay of the rows up to one is what that row makes of the replay   *)
(* of those before it.                                                     *)
After(g, rows) ==
  g = [n \in 0 .. NumRows |->
         IF n = 0 THEN NoStatus
         ELSE IF n \in rows THEN Apply(Call[n], g[n - 1]) ELSE g[n - 1]]

LEMMA AfterExists ==
  ASSUME NEW rows
  PROVE  \E g : After(g, rows)
<1> DEFINE Is(g, k) ==
             g = [n \in 0 .. k |->
                    IF n = 0 THEN NoStatus
                    ELSE IF n \in rows THEN Apply(Call[n], g[n - 1])
                                       ELSE g[n - 1]]
           S == {k \in Nat : \E g : Is(g, k)}
<1>1. 0 \in S
  <2>1. Is([n \in 0 .. 0 |-> NoStatus], 0)
    OBVIOUS
  <2> QED
    BY <2>1
<1>2. ASSUME NEW k \in 0 + 1 .. NumRows, k - 1 \in S
      PROVE  k \in S
  <2>1. PICK h : Is(h, k - 1)
    BY <1>2
  <2>2. k \in Nat \ {0} /\ k - 1 \in Nat
    BY RowFacts
  <2> DEFINE v == IF k \in rows THEN Apply(Call[k], h[k - 1]) ELSE h[k - 1]
             g == [n \in 0 .. k |-> IF n = k THEN v ELSE h[n]]
  <2>3. \A n \in 0 .. k - 1 :
          h[n] = IF n = 0 THEN NoStatus
                 ELSE IF n \in rows THEN Apply(Call[n], h[n - 1]) ELSE h[n - 1]
    BY <2>1, <2>2
  <2>4. \A n \in 0 .. k :
          g[n] = IF n = 0 THEN NoStatus
                 ELSE IF n \in rows THEN Apply(Call[n], g[n - 1]) ELSE g[n - 1]
    <3> SUFFICES ASSUME NEW n \in 0 .. k
                 PROVE  g[n] = IF n = 0 THEN NoStatus
                               ELSE IF n \in rows THEN Apply(Call[n], g[n - 1])
                                                  ELSE g[n - 1]
      OBVIOUS
    <3>1. CASE n = k
      <4>1. g[n] = v /\ g[n - 1] = h[n - 1]
        BY <3>1, <2>2
      <4> QED
        BY <3>1, <4>1, <2>2
    <3>2. CASE n # k
      <4>1. g[n] = h[n] /\ n \in 0 .. k - 1
        BY <3>2, <2>2
      <4>2. n # 0 => g[n - 1] = h[n - 1]
        BY <3>2, <2>2
      <4> HIDE DEF g
      <4> QED
        BY <4>1, <4>2, <2>3
    <3> QED
      BY <3>1, <3>2
  <2>5. g = [n \in 0 .. k |-> g[n]]
    OBVIOUS
  <2>6. Is(g, k)
    <3> HIDE DEF g
    <3> QED
      BY <2>4, <2>5
  <2> QED
    BY <2>6, <2>2
<1>3. \A k \in 0 .. NumRows : k \in S
  <2>1. \A k \in 0 + 1 .. NumRows : k - 1 \in S => k \in S
    BY <1>2
  <2> HIDE DEF S
  <2> QED
    BY <1>1, <2>1, Induct, RowFacts, Zenon
<1>4. NumRows \in S
  <2> HIDE DEF S
  <2> QED
    BY <1>3, RowFacts
<1> QED
  BY <1>4 DEF After

LEMMA ReplayIsAfter ==
  ASSUME NEW rows
  PROVE  \E g : After(g, rows) /\ Replay(rows) = g[NumRows]
<1> DEFINE after == CHOOSE g : After(g, rows)
<1>1. After(after, rows)
  BY AfterExists
<1>2. Replay(rows) = after[NumRows]
  BY DEF Replay, After
<1> QED
  BY <1>1, <1>2

LEMMA ReplayUpTo ==
  ASSUME NEW rows, NEW g, After(g, rows), NEW m \in 0 .. NumRows
  PROVE  Replay(UpTo(rows, m)) = g[m]
<1>1. PICK h : After(h, UpTo(rows, m)) /\ Replay(UpTo(rows, m)) = h[NumRows]
  BY ReplayIsAfter
<1> DEFINE Least2(n) == IF n <= m THEN n ELSE m
           S == {n \in Nat : h[n] = g[Least2(n)]}
<1>2. 0 \in S
  BY <1>1, RowFacts DEF After
<1>3. ASSUME NEW n \in 0 + 1 .. NumRows, n - 1 \in S
      PROVE  n \in S
  <2>1. /\ n \in 0 .. NumRows /\ n # 0 /\ n - 1 \in 0 .. NumRows /\ n \in Nat
        /\ m \in 0 .. NumRows
    BY RowFacts
  <2>2. h[n] = IF n \in UpTo(rows, m) THEN Apply(Call[n], h[n - 1]) ELSE h[n - 1]
    BY <1>1, <2>1 DEF After
  <2>3. g[n] = IF n \in rows THEN Apply(Call[n], g[n - 1]) ELSE g[n - 1]
    BY <2>1 DEF After
  <2>4. CASE n <= m
    <3>1. n \in UpTo(rows, m) <=> n \in rows
      BY <2>4, <2>1 DEF UpTo
    <3>2. h[n - 1] = g[n - 1]
      BY <1>3, <2>4, <2>1
    <3> QED
      BY <2>1, <2>2, <2>3, <2>4, <3>1, <3>2
  <2>5. CASE ~ (n <= m)
    <3>1. n \notin UpTo(rows, m)
      BY <2>5, <2>1 DEF UpTo
    <3>2. h[n - 1] = g[m]
      <4>1. CASE n - 1 = m
        BY <4>1, <1>3, <2>1
      <4>2. CASE n - 1 # m
        BY <4>2, <1>3, <2>1, <2>5
      <4> QED
        BY <4>1, <4>2
    <3> QED
      BY <2>1, <2>2, <2>5, <3>1, <3>2
  <2> QED
    BY <2>4, <2>5
<1>4. \A n \in 0 .. NumRows : n \in S
  <2>1. \A n \in 0 + 1 .. NumRows : n - 1 \in S => n \in S
    BY <1>3
  <2> HIDE DEF S
  <2> QED
    BY <1>2, <2>1, Induct, RowFacts, Zenon
<1>5. NumRows \in S
  BY <1>4, RowFacts
<1> QED
  BY <1>1, <1>5, RowFacts

LEMMA ReplayStep ==
  ASSUME NEW rows
  PROVE  /\ Replay(UpTo(rows, 0)) = NoStatus
         /\ \A r \in Row :
              Replay(UpTo(rows, r)) =
                IF r \in rows THEN Apply(Call[r], Replay(UpTo(rows, r - 1)))
                              ELSE Replay(UpTo(rows, r - 1))
<1>1. PICK g : After(g, rows)
  BY AfterExists
<1>2. \A m \in 0 .. NumRows : Replay(UpTo(rows, m)) = g[m]
  BY <1>1, ReplayUpTo
<1>3. g[0] = NoStatus
  BY <1>1, RowFacts DEF After
<1>4. ASSUME NEW r \in Row
      PROVE  g[r] = IF r \in rows THEN Apply(Call[r], g[r - 1]) ELSE g[r - 1]
  <2>1. r \in 0 .. NumRows /\ r # 0
    BY RowFacts DEF Row
  <2> QED
    BY <1>1, <2>1 DEF After
<1>5. \A r \in Row : r \in 0 .. NumRows /\ r - 1 \in 0 .. NumRows
  BY RowFacts DEF Row
<1>6. 0 \in 0 .. NumRows
  BY RowFacts
<1> QED
  BY <1>2, <1>3, <1>4, <1>5, <1>6

LEMMA UpToAll ==
  ASSUME NEW rows \in SUBSET Row
  PROVE  UpTo(rows, NumRows) = rows
BY DEF UpTo, Row

LEMMA ReplayType ==
  ASSUME NEW rows, NEW m \in 0 .. NumRows
  PROVE  Replay(UpTo(rows, m)) \in Configs \cup {NoStatus}
<1> DEFINE S == {n \in Nat : Replay(UpTo(rows, n)) \in Configs \cup {NoStatus}}
<1>1. 0 \in S
  BY ReplayStep
<1>2. \A n \in 0 + 1 .. NumRows : n - 1 \in S => n \in S
  <2>0. 0 + 1 .. NumRows = Row
    BY DEF Row
  <2> SUFFICES ASSUME NEW n \in Row, n - 1 \in S
               PROVE  n \in S
    BY <2>0
  <2>1. Replay(UpTo(rows, n - 1)) \in Configs \cup {NoStatus}
    OBVIOUS
  <2>2. Replay(UpTo(rows, n)) \in Configs \cup {NoStatus}
    BY <2>1, ReplayStep, ApplyType
  <2> QED
    BY <2>2 DEF Row
<1>3. \A n \in 0 .. NumRows : n \in S
  <2> HIDE DEF S
  <2> QED
    BY <1>1, <1>2, Induct, RowFacts, Zenon
<1> QED
  BY <1>3

(* Rows that change nothing may follow.                                    *)
LEMMA ReplayIdle ==
  ASSUME NEW rows, NEW a \in 0 .. NumRows, NEW b \in a .. NumRows,
         \A r \in a + 1 .. b :
           Replay(UpTo(rows, r)) = Replay(UpTo(rows, r - 1))
  PROVE  Replay(UpTo(rows, b)) = Replay(UpTo(rows, a))
<1> DEFINE S == {n \in Nat : Replay(UpTo(rows, n)) = Replay(UpTo(rows, a))}
<1>1. a \in S /\ a \in Nat /\ b \in Nat
  BY RowFacts
<1>2. \A n \in a + 1 .. b : n - 1 \in S => n \in S
  <2> SUFFICES ASSUME NEW n \in a + 1 .. b, n - 1 \in S
               PROVE  n \in S
    OBVIOUS
  <2>1. Replay(UpTo(rows, n - 1)) = Replay(UpTo(rows, a))
    OBVIOUS
  <2>2. Replay(UpTo(rows, n)) = Replay(UpTo(rows, n - 1)) /\ n \in Nat
    BY <1>1
  <2> QED
    BY <2>1, <2>2
<1>3. \A n \in a .. b : n \in S
  <2> HIDE DEF S
  <2> QED
    BY <1>1, <1>2, Induct, Zenon
<1> QED
  BY <1>1, <1>3

(* The nonce of a Safe is that of a transaction it has executed, plus one. *)
LEMMA NonceWitness ==
  ASSUME NEW rows, NEW m \in 0 .. NumRows, Replay(UpTo(rows, m)) # NoStatus
  PROVE  \/ Replay(UpTo(rows, m)).nonce = 0
         \/ \E e \in Row : /\ e <= m /\ Call[e].fn = "execTransaction"
                           /\ Replay(UpTo(rows, m)).nonce = Call[e].nonce + 1
<1> DEFINE R(n) == Replay(UpTo(rows, n))
           P(n) == \/ R(n) = NoStatus
                   \/ R(n).nonce = 0
                   \/ \E e \in Row : /\ e <= n /\ Call[e].fn = "execTransaction"
                                     /\ R(n).nonce = Call[e].nonce + 1
           S == {n \in Nat : P(n)}
<1>1. 0 \in S
  BY ReplayStep
<1>2. \A n \in 0 + 1 .. NumRows : n - 1 \in S => n \in S
  <2>0. 0 + 1 .. NumRows = Row
    BY DEF Row
  <2> SUFFICES ASSUME NEW n \in Row, n - 1 \in S
               PROVE  n \in S
    BY <2>0
  <2>1. P(n - 1) /\ n \in Nat /\ n - 1 \in 0 .. NumRows
    BY RowFacts DEF Row
  <2>2. R(n - 1) \in Configs \cup {NoStatus}
    BY <2>1, ReplayType
  <2>3. R(n) = IF n \in rows THEN Apply(Call[n], R(n - 1)) ELSE R(n - 1)
    BY ReplayStep
  <2> HIDE DEF R
  <2>4. CASE R(n) = R(n - 1)
    BY <2>1, <2>4 DEF Row
  <2>5. CASE Call[n].fn = "setup" /\ R(n) = Modified(Call[n], R(n - 1))
    BY <2>1, <2>5 DEF Modified
  <2>6. CASE /\ Call[n].fn # "setup" /\ R(n - 1) # NoStatus
             /\ R(n) = Modified(Call[n], R(n - 1))
    <3>1. CASE Call[n].fn = "execTransaction"
      BY <2>1, <2>2, <2>6, <3>1 DEF Modified, Configs
    <3>2. CASE Call[n].fn # "execTransaction"
      <4>1. R(n).nonce = R(n - 1).nonce
        BY <2>2, <2>6, <3>2, RowFacts DEF Modified, Configs, FunctionNames
      <4> QED
        BY <2>1, <2>6, <4>1 DEF Row
    <3> QED
      BY <3>1, <3>2
  <2> QED
    BY <2>3, <2>4, <2>5, <2>6 DEF Apply
<1>3. \A n \in 0 .. NumRows : n \in S
  <2> HIDE DEF S
  <2> QED
    BY <1>1, <1>2, Induct, RowFacts, Zenon
<1> QED
  BY <1>3

(* From its setup on a Safe has a status, and its nonce never goes back.   *)
LEMMA NonceGrows ==
  ASSUME NoncesGrow, NEW rows, NEW a \in Row, NEW b \in a .. NumRows,
         Replay(UpTo(rows, a)) # NoStatus
  PROVE  /\ Replay(UpTo(rows, b)) # NoStatus
         /\ Replay(UpTo(rows, a)).nonce <= Replay(UpTo(rows, b)).nonce
<1> DEFINE R(n) == Replay(UpTo(rows, n))
           P(n) == R(n) # NoStatus /\ R(a).nonce <= R(n).nonce
           S == {n \in Nat : P(n)}
<1>0. a \in Nat /\ b \in Nat /\ a \in 0 .. NumRows /\ a >= 1
  BY RowFacts DEF Row
<1>1. a \in S
  <2>1. R(a) \in Configs
    BY <1>0, ReplayType
  <2>2. R(a).nonce \in Nat
    BY <2>1 DEF Configs
  <2> QED
    BY <1>0, <2>2
<1>2. \A n \in a + 1 .. b : n - 1 \in S => n \in S
  <2> SUFFICES ASSUME NEW n \in a + 1 .. b, n - 1 \in S
               PROVE  n \in S
    OBVIOUS
  <2>1. /\ P(n - 1) /\ n \in Nat /\ n \in Row /\ n # 1
        /\ n - 1 \in 0 .. NumRows /\ n \in 0 .. NumRows
    BY <1>0, RowFacts DEF Row
  <2>2. R(a) \in Configs /\ R(n - 1) \in Configs /\ R(n) \in Configs \cup {NoStatus}
    BY <1>0, <2>1, ReplayType
  <2>3. R(n) = IF n \in rows THEN Apply(Call[n], R(n - 1)) ELSE R(n - 1)
    BY <2>1, ReplayStep
  <2>4. \/ R(n - 1).nonce = 0
        \/ \E e \in Row : /\ e <= n - 1 /\ Call[e].fn = "execTransaction"
                          /\ R(n - 1).nonce = Call[e].nonce + 1
    BY <2>1, NonceWitness
  <2>5. Call[n].fn # "setup"
    BY <2>1 DEF NoncesGrow
  <2> HIDE DEF R
  <2>6. CASE R(n) = R(n - 1)
    BY <2>1, <2>6
  <2>7. CASE R(n) = Modified(Call[n], R(n - 1))
    <3>1. CASE Call[n].fn = "execTransaction"
      <4>1. R(n).nonce = Call[n].nonce + 1
        BY <2>2, <2>7, <3>1 DEF Modified, Configs
      <4>2. R(n - 1).nonce <= Call[n].nonce + 1
        BY <2>1, <2>4, <3>1, RowFacts DEF NoncesGrow, Row
      <4>3. R(n) # NoStatus
        BY <2>1, <2>2, <2>7, ModifiedType, NoStatusIsNone
      <4>4. R(a).nonce \in Nat /\ R(n - 1).nonce \in Nat /\ Call[n].nonce \in Nat
        BY <2>1, <2>2, RowFacts DEF Configs
      <4> QED
        BY <2>1, <4>1, <4>2, <4>3, <4>4
    <3>2. CASE Call[n].fn # "execTransaction"
      <4>1. R(n).nonce = R(n - 1).nonce
        BY <2>1, <2>2, <2>5, <2>7, <3>2, RowFacts DEF Modified, Configs, FunctionNames
      <4>2. R(n) # NoStatus
        BY <2>1, <2>2, <2>7, ModifiedType, NoStatusIsNone
      <4> QED
        BY <2>1, <4>1, <4>2
    <3> QED
      BY <3>1, <3>2
  <2> QED
    BY <2>3, <2>5, <2>6, <2>7 DEF Apply
<1>3. \A n \in a .. b : n \in S
  <2> HIDE DEF S
  <2> QED
    BY <1>0, <1>1, <1>2, Induct, Zenon
<1> QED
  BY <1>0, <1>3

-----------------------------------------------------------------------------
(* Facts about histories.                                                  *)
LEMMA HistPast ==
  ASSUME NEW seen, NEW rows, Hist(seen, rows), NEW r \in Row, seen[r] # NoStatus
  PROVE  /\ r \in rows /\ seen[r] \in StatusRows /\ seen[r].row = r
         /\ Config(seen[r]) = Replay(UpTo(rows, r))
         /\ seen[r].nonce = Replay(UpTo(rows, r)).nonce
         /\ Replay(UpTo(rows, r)) \in Configs
<1>1. /\ r \in rows /\ seen[r] \in StatusRows /\ seen[r].row = r
      /\ Config(seen[r]) = Replay(UpTo(rows, r))
  BY DEF Hist
<1>2. Config(seen[r]) \in Configs /\ seen[r].nonce = Config(seen[r]).nonce
  BY <1>1, NoStatusIsNone DEF Config, StatusRows, Configs
<1> QED
  BY <1>1, <1>2

(* The rows after the last one with a status change nothing.               *)
LEMMA HistRest ==
  ASSUME NEW seen, NEW rows \in SUBSET Row, Hist(seen, rows),
         NEW a \in 0 .. NumRows,
         \A q \in Row : q > a => seen[q] = NoStatus
  PROVE  Replay(rows) = Replay(UpTo(rows, a))
<1>1. \A r \in a + 1 .. NumRows :
        Replay(UpTo(rows, r)) = Replay(UpTo(rows, r - 1))
  <2> SUFFICES ASSUME NEW r \in a + 1 .. NumRows
               PROVE  Replay(UpTo(rows, r)) = Replay(UpTo(rows, r - 1))
    OBVIOUS
  <2>1. r \in Row /\ r > a
    BY RowFacts DEF Row
  <2>2. seen[r] = NoStatus
    BY <2>1
  <2> QED
    BY <2>1, <2>2, ReplayStep DEF Hist
<1>2. NumRows \in a .. NumRows
  BY RowFacts
<1>3. Replay(UpTo(rows, NumRows)) = Replay(UpTo(rows, a))
  BY <1>1, <1>2, ReplayIdle
<1> QED
  BY <1>3, UpToAll

LatestIn(seen, r) ==
  /\ r \in Row /\ seen[r] # NoStatus
  /\ \A q \in Row : q > r => seen[q] = NoStatus

(* sorted_by_mined finds the newest status, as nonces grow.                *)
LEMMA LatestIsNewest ==
  ASSUME NoncesGrow, NEW seen, NEW rows \in SUBSET Row, Hist(seen, rows)
  PROVE  \/ /\ Latest(seen) = NoStatus /\ Replay(rows) = NoStatus
            /\ \A r \in Row : seen[r] = NoStatus
         \/ \E r \in Row : LatestIn(seen, r) /\ Latest(seen) = seen[r]
<1> DEFINE T == {r \in Row : seen[r] # NoStatus}
<1>1. CASE T = {}
  <2>1. Replay(rows) = Replay(UpTo(rows, 0))
    <3>1. 0 \in 0 .. NumRows /\ \A q \in Row : q > 0 => seen[q] = NoStatus
      BY <1>1, RowFacts
    <3> QED
      BY <3>1, HistRest
  <2> QED
    BY <1>1, <2>1, ReplayStep DEF Latest
<1>2. CASE T # {}
  <2>1. T \subseteq 0 .. NumRows /\ NumRows \in Nat
    BY RowFacts DEF Row
  <2>2. PICK r \in T : \A q \in T : q <= r
    <3> HIDE DEF T
    <3> QED
      BY <1>2, <2>1, Greatest, Zenon
  <2>3. \A q \in T : /\ seen[q].nonce <= seen[r].nonce
                     /\ seen[q].nonce \in Nat
    <3> SUFFICES ASSUME NEW q \in T
                 PROVE  seen[q].nonce <= seen[r].nonce /\ seen[q].nonce \in Nat
      OBVIOUS
    <3>1. /\ q \in Row /\ r \in q .. NumRows
      BY <2>2, RowFacts DEF Row
    <3>2. /\ seen[q].nonce = Replay(UpTo(rows, q)).nonce
          /\ seen[r].nonce = Replay(UpTo(rows, r)).nonce
          /\ Replay(UpTo(rows, q)) \in Configs
      BY <2>2, HistPast
    <3>3. Replay(UpTo(rows, q)) # NoStatus
      BY <3>2, NoStatusIsNone
    <3>4. Replay(UpTo(rows, q)).nonce <= Replay(UpTo(rows, r)).nonce
      BY <3>1, <3>3, NonceGrows
    <3> QED
      BY <3>2, <3>4 DEF Configs
  <2> DEFINE Tops(p) == \A q \in T : \/ seen[q].nonce < seen[p].nonce
                                     \/ seen[q].nonce = seen[p].nonce /\ q <= p
  <2>4. Tops(r)
    BY <2>2, <2>3
  <2>5. ASSUME NEW p \in T, Tops(p) PROVE p = r
    <3>1. r \in Int /\ p \in Int /\ p <= r
      BY <2>1, <2>2
    <3>2. seen[p].nonce <= seen[r].nonce /\ seen[p].nonce \in Nat /\ seen[r].nonce \in Nat
      BY <2>2, <2>3
    <3>3. \/ seen[r].nonce < seen[p].nonce
          \/ seen[r].nonce = seen[p].nonce /\ r <= p
      BY <2>2, <2>5
    <3> QED
      BY <3>1, <3>2, <3>3
  <2>6. Latest(seen) = seen[CHOOSE p \in T : Tops(p)]
    BY <1>2 DEF Latest
  <2>7. (CHOOSE p \in T : Tops(p)) = r
    <3> HIDE DEF T, Tops
    <3> QED
      BY <2>2, <2>4, <2>5
  <2>8. LatestIn(seen, r)
    <3>1. ASSUME NEW q \in Row, q > r PROVE seen[q] = NoStatus
      <4>1. ~ (q <= r)
        BY <2>1, <2>2, <3>1 DEF Row
      <4> QED
        BY <2>2, <4>1
    <3> QED
      BY <2>2, <3>1 DEF LatestIn
  <2> QED
    BY <2>6, <2>7, <2>8 DEF LatestIn
<1> QED
  BY <1>1, <1>2

Shown(seen, l) == IF l # NoStatus THEN l ELSE Latest(seen)

(* The status on show is the replay of the rows.                           *)
LEMMA ShownIsReplay ==
  ASSUME NoncesGrow, NEW seen, NEW rows \in SUBSET Row, Hist(seen, rows),
         NEW l, Newest(seen, l)
  PROVE  /\ Shown(seen, l) \in StatusRows \cup {NoStatus}
         /\ Config(Shown(seen, l)) = Replay(rows)
         /\ Newest(seen, Shown(seen, l))
         /\ Shown(seen, l) # NoStatus => LatestIn(seen, Shown(seen, l).row)
         /\ Replay(rows) \in Configs \cup {NoStatus}
<1>1. CASE \E r \in Row : LatestIn(seen, r) /\ Shown(seen, l) = seen[r]
  <2>1. PICK r \in Row : LatestIn(seen, r) /\ Shown(seen, l) = seen[r]
    BY <1>1
  <2>2. r \in 0 .. NumRows
    BY RowFacts DEF Row
  <2>3. /\ seen[r] \in StatusRows /\ seen[r].row = r
        /\ Config(seen[r]) = Replay(UpTo(rows, r))
        /\ Replay(UpTo(rows, r)) \in Configs
    BY <2>1, HistPast DEF LatestIn
  <2>4. Replay(rows) = Replay(UpTo(rows, r))
    BY <2>1, <2>2, HistRest DEF LatestIn
  <2> QED
    BY <2>1, <2>3, <2>4 DEF Newest, LatestIn
<1>2. CASE l # NoStatus
  <2>1. LatestIn(seen, l.row) /\ Shown(seen, l) = seen[l.row] /\ l.row \in Row
    BY <1>2 DEF Newest, LatestIn, Shown
  <2> QED
    BY <1>1, <2>1
<1>3. CASE l = NoStatus
  <2>1. Shown(seen, l) = Latest(seen)
    BY <1>3 DEF Shown
  <2>2. CASE Latest(seen) = NoStatus /\ Replay(rows) = NoStatus
    BY <2>1, <2>2 DEF Config, Newest
  <2> QED
    BY <1>1, <2>1, <2>2, LatestIsNewest
<1> QED
  BY <1>2, <1>3

(* One more row, later than the others.                                    *)
LEMMA ReplayExtend ==
  ASSUME NEW rows \in SUBSET Row, NEW r \in Row, Before(rows, {r})
  PROVE  /\ Replay(rows \cup {r}) = Apply(Call[r], Replay(rows))
         /\ UpTo(rows \cup {r}, r) = rows \cup {r}
         /\ UpTo(rows \cup {r}, r - 1) = rows
         /\ \A q \in Row : q < r => UpTo(rows \cup {r}, q) = UpTo(rows, q)
<1>1. r \notin rows /\ \A q \in rows : q < r /\ q \in Int
  BY DEF Before, Row
<1>0. /\ \A q \in rows : q \in 1 .. r /\ q \in 1 .. r - 1
      /\ r \in 1 .. r /\ r \notin 1 .. r - 1
  BY <1>1 DEF Row
<1>2. UpTo(rows \cup {r}, r) = rows \cup {r}
  BY <1>0 DEF UpTo
<1>3. UpTo(rows \cup {r}, r - 1) = rows
  BY <1>0 DEF UpTo
<1>4. \A q \in Row : q < r => UpTo(rows \cup {r}, q) = UpTo(rows, q)
  BY <1>1 DEF UpTo, Row
<1> QED
  BY <1>2, <1>3, <1>4, ReplayStep

LEMMA HistExtend ==
  ASSUME NEW seen, NEW rows \in SUBSET Row, Hist(seen, rows),
         NEW r \in Row, Before(rows, {r}), NEW next,
         \A q \in Row : q # r => next[q] = seen[q],
         IF next[r] = NoStatus THEN Replay(rows \cup {r}) = Replay(rows)
         ELSE /\ next[r] \in StatusRows /\ next[r].row = r
              /\ Config(next[r]) = Replay(rows \cup {r})
  PROVE  /\ Hist(next, rows \cup {r})
         /\ \A q \in Row : q >= r => seen[q] = NoStatus
<1> DEFINE more == rows \cup {r}
<1>0. \A q \in Row : q < r => UpTo(more, q) = UpTo(rows, q)
  BY ReplayExtend
<1>1. \A q \in Row : q >= r => q \notin rows
  BY DEF Before, Row
<1>2. \A q \in Row : q >= r => seen[q] = NoStatus
  BY <1>1 DEF Hist
<1>3. ASSUME NEW q \in Row
      PROVE  IF next[q] # NoStatus
             THEN /\ q \in more /\ next[q] \in StatusRows /\ next[q].row = q
                  /\ Config(next[q]) = Replay(UpTo(more, q))
             ELSE q \in more => Replay(UpTo(more, q)) = Replay(UpTo(more, q - 1))
  <2>1. CASE q = r
    BY <2>1, ReplayExtend
  <2>2. CASE q < r
    <3>1. next[q] = seen[q]
      BY <2>2 DEF Row
    <3>2. UpTo(more, q) = UpTo(rows, q)
      BY <1>0, <2>2
    <3>3. UpTo(more, q - 1) = UpTo(rows, q - 1)
      BY <2>2 DEF UpTo, Row
    <3>4. q \in more <=> q \in rows
      BY <2>2 DEF Row
    <3> QED
      BY <3>1, <3>2, <3>3, <3>4 DEF Hist
  <2>3. CASE q > r
    <3>1. next[q] = seen[q] /\ q \notin more
      BY <1>1, <2>3 DEF Row
    <3> QED
      BY <1>2, <2>3, <3>1 DEF Row
  <2> QED
    BY <2>1, <2>2, <2>3 DEF Row
<1> QED
  BY <1>2, <1>3 DEF Hist

(* A cut of the history: the rows of an initial segment.                   *)
LEMMA HistCut ==
  ASSUME NEW seen, NEW rows \in SUBSET Row, Hist(seen, rows),
         NEW fewer \in SUBSET rows, Before(fewer, rows \ fewer), NEW next,
         \A q \in Row : next[q] = seen[q] \/ next[q] = NoStatus,
         \A q \in Row : q \in fewer => next[q] = seen[q],
         \A q \in Row : q \in rows \ fewer => next[q] = NoStatus
  PROVE  Hist(next, fewer)
<1>1. ASSUME NEW q \in Row
      PROVE  IF next[q] # NoStatus
             THEN /\ q \in fewer /\ next[q] \in StatusRows /\ next[q].row = q
                  /\ Config(next[q]) = Replay(UpTo(fewer, q))
             ELSE q \in fewer => Replay(UpTo(fewer, q)) = Replay(UpTo(fewer, q - 1))
  <2>1. CASE q \in fewer
    <3>1. UpTo(fewer, q) = UpTo(rows, q) /\ UpTo(fewer, q - 1) = UpTo(rows, q - 1)
      BY <2>1 DEF UpTo, Before, Row
    <3> QED
      BY <2>1, <3>1 DEF Hist
  <2>2. CASE q \notin fewer
    <3>1. next[q] = NoStatus
      <4>1. CASE q \in rows
        BY <2>2, <4>1
      <4>2. CASE q \notin rows
        BY <4>2 DEF Hist
      <4> QED
        BY <4>1, <4>2
    <3> QED
      BY <2>2, <3>1
  <2> QED
    BY <2>1, <2>2
<1> QED
  BY <1>1 DEF Hist

-----------------------------------------------------------------------------
(* Types, whatever the setting.                                            *)
LEMMA Queue ==
  ASSUME TypeOK
  PROVE  /\ Pending \in SUBSET Row /\ Processed \in SUBSET Row
         /\ Present \in SUBSET Row /\ Pending \cap Processed = {}
         /\ Present = {r \in Row : decoded[r] # "absent"}
BY DEF TypeOK, Pending, Processed, Present

LEMMA OldestPending ==
  ASSUME TypeOK, Pending # {}
  PROVE  FirstPending \in Pending /\ \A q \in Pending : FirstPending <= q
<1>1. Pending \subseteq Nat
  BY Queue DEF Row
<1>2. \E r \in Pending : \A q \in Pending : r <= q
  BY <1>1, Least, Zenon
<1> QED
  BY <1>2 DEF FirstPending

(* There is a latest status in the order of sorted_by_mined.               *)
LEMMA LatestExists ==
  ASSUME NEW rows \in SUBSET Row, rows # {}, NEW seen,
         \A q \in rows : seen[q].nonce \in Nat
  PROVE  \E r \in rows : \A q \in rows :
           \/ seen[q].nonce < seen[r].nonce
           \/ seen[q].nonce = seen[r].nonce /\ q <= r
<1> DEFINE Leq(q, r) == \/ seen[q].nonce < seen[r].nonce
                        \/ seen[q].nonce = seen[r].nonce /\ q <= r
           P(n) == \/ UpTo(rows, n) = {}
                   \/ \E r \in UpTo(rows, n) : \A q \in UpTo(rows, n) : Leq(q, r)
           S == {n \in Nat : P(n)}
<1>1. 0 \in S
  BY DEF UpTo
<1>2. \A n \in 0 + 1 .. NumRows : n - 1 \in S => n \in S
  <2> SUFFICES ASSUME NEW n \in 0 + 1 .. NumRows, n - 1 \in S
               PROVE  P(n)
    BY RowFacts
  <2>1. P(n - 1) /\ n \in Nat /\ n \in 1 .. n /\ n \notin 1 .. n - 1
    BY RowFacts
  <2>2. CASE n \notin rows
    <3>1. UpTo(rows, n) = UpTo(rows, n - 1)
      BY <2>1, <2>2 DEF UpTo
    <3> QED
      BY <2>1, <3>1
  <2>3. CASE n \in rows
    <3>1. /\ UpTo(rows, n) = UpTo(rows, n - 1) \cup {n}
          /\ \A q \in UpTo(rows, n - 1) : q \in rows /\ q <= n
      BY <2>1, <2>3 DEF UpTo
    <3>2. CASE UpTo(rows, n - 1) = {}
      <4>1. UpTo(rows, n) = {n} /\ Leq(n, n)
        BY <2>1, <3>1, <3>2
      <4> QED
        BY <4>1
    <3>3. CASE UpTo(rows, n - 1) # {}
      <4>1. PICK r \in UpTo(rows, n - 1) : \A q \in UpTo(rows, n - 1) : Leq(q, r)
        BY <2>1, <3>3
      <4>2. /\ seen[r].nonce \in Nat /\ seen[n].nonce \in Nat /\ r <= n
            /\ \A q \in UpTo(rows, n - 1) : seen[q].nonce \in Nat /\ q <= n
        BY <2>3, <3>1
      <4>3. CASE seen[n].nonce < seen[r].nonce
        <5>1. \A q \in UpTo(rows, n) : Leq(q, r)
          BY <3>1, <4>1, <4>3
        <5>2. r \in UpTo(rows, n)
          BY <3>1
        <5> QED
          BY <5>1, <5>2
      <4>4. CASE ~ (seen[n].nonce < seen[r].nonce)
        <5>1. \A q \in UpTo(rows, n - 1) : Leq(q, n)
          BY <4>1, <4>2, <4>4
        <5>2. Leq(n, n) /\ n \in UpTo(rows, n)
          BY <2>1, <3>1
        <5>3. \A q \in UpTo(rows, n) : Leq(q, n)
          BY <3>1, <5>1, <5>2
        <5> QED
          BY <5>2, <5>3
      <4> QED
        BY <4>3, <4>4
    <3> QED
      BY <3>2, <3>3
  <2> QED
    BY <2>2, <2>3
<1>3. \A n \in 0 .. NumRows : n \in S
  <2> HIDE DEF S
  <2> QED
    BY <1>1, <1>2, Induct, RowFacts, Zenon
<1>4. P(NumRows)
  BY <1>3, RowFacts
<1> QED
  BY <1>4, UpToAll

LEMMA LatestType ==
  ASSUME NEW seen \in [Row -> StatusRows \cup {NoStatus}]
  PROVE  Latest(seen) \in StatusRows \cup {NoStatus}
<1> DEFINE rows == {r \in Row : seen[r] # NoStatus}
           Top(r) == \A q \in rows : \/ seen[q].nonce < seen[r].nonce
                                     \/ seen[q].nonce = seen[r].nonce /\ q <= r
<1>1. CASE rows = {}
  BY <1>1 DEF Latest
<1>2. CASE rows # {}
  <2>1. \E r \in rows : Top(r)
    <3>1. rows \in SUBSET Row /\ \A q \in rows : seen[q].nonce \in Nat
      BY DEF StatusRows
    <3> HIDE DEF rows
    <3> QED
      BY <1>2, <3>1, LatestExists
  <2>2. Latest(seen) = seen[CHOOSE r \in rows : Top(r)]
    BY <1>2 DEF Latest
  <2>3. (CHOOSE r \in rows : Top(r)) \in rows
    <3> HIDE DEF rows, Top
    <3> QED
      BY <2>1
  <2> HIDE DEF Top
  <2> QED
    BY <2>2, <2>3
<1> QED
  BY <1>1, <1>2

LEMMA ReadType ==
  ASSUME TypeInv
  PROVE  /\ SeenLast \in StatusRows \cup {NoStatus}
         /\ Seen \in [Row -> StatusRows \cup {NoStatus}]
         /\ GetOrGenerate \in StatusRows \cup {NoStatus}
         /\ LastOnceRead \in StatusRows \cup {NoStatus}
         /\ LastSafeStatus \in StatusRows \cup {NoStatus}
         /\ GetOrGenerate = Shown(Seen, SeenLast)
         /\ LastSafeStatus # NoStatus => GetOrGenerate # NoStatus
         /\ tx.last = NoStatus => Seen = statuses /\ SeenLast = last
<1>1. /\ tx.cache \in StatusRows \cup {NoStatus}
      /\ tx.last \in StatusRows \cup {NoStatus}
      /\ tx.new \in [Row -> StatusRows \cup {NoStatus}]
      /\ statuses \in [Row -> StatusRows \cup {NoStatus}]
      /\ last \in StatusRows \cup {NoStatus}
  BY DEF TypeInv, TypeOK
<1>2. SeenLast \in StatusRows \cup {NoStatus}
  BY <1>1 DEF SeenLast
<1>3. Seen \in [Row -> StatusRows \cup {NoStatus}]
  BY <1>1 DEF Seen, SeenStatus
<1>4. GetOrGenerate = Shown(Seen, SeenLast)
  BY DEF GetOrGenerate, Shown, Seen
<1>5. GetOrGenerate \in StatusRows \cup {NoStatus}
  BY <1>2, <1>3, <1>4, LatestType DEF Shown
<1>6. LastOnceRead \in StatusRows \cup {NoStatus}
  BY <1>1, <1>5 DEF LastOnceRead
<1>7. LastSafeStatus \in StatusRows \cup {NoStatus}
  BY <1>1, <1>5 DEF LastSafeStatus
<1>8. LastSafeStatus # NoStatus => GetOrGenerate # NoStatus
  BY DEF LastSafeStatus, GetOrGenerate, SeenLast, TypeInv
<1>9. tx.last = NoStatus => Seen = statuses /\ SeenLast = last
  <2> SUFFICES ASSUME tx.last = NoStatus PROVE Seen = statuses /\ SeenLast = last
    OBVIOUS
  <2>1. StoredRows = {}
    BY DEF TypeInv
  <2>2. \A r \in Row : tx.new[r] = NoStatus
    BY <2>1 DEF StoredRows
  <2>3. Seen = [r \in Row |-> statuses[r]]
    BY <2>2 DEF Seen, SeenStatus
  <2> QED
    BY <1>1, <2>3 DEF SeenLast
<1> QED
  BY <1>2, <1>3, <1>4, <1>5, <1>6, <1>7, <1>8, <1>9

NextRow == CHOOSE q \in run.todo : \A p \in run.todo : q <= p

LEMMA NextRowIsLeast ==
  ASSUME TypeOK, run.todo # {}
  PROVE  NextRow \in run.todo /\ NextRow \in Row /\ \A p \in run.todo : NextRow <= p
<1>1. run.todo \subseteq Row /\ run.todo \subseteq Nat
  BY DEF TypeOK, Row
<1>2. \E q \in run.todo : \A p \in run.todo : q <= p
  BY <1>1, Least, Zenon
<1> QED
  BY <1>1, <1>2 DEF NextRow

(* The status a call makes of that before it.                              *)
LEMMA NewStatus ==
  ASSUME NEW r \in Row, NEW s \in StatusRows \cup {NoStatus},
         Call[r].fn = "setup" \/ s # NoStatus
  PROVE  /\ At(r, Modified(Call[r], s)) \in StatusRows
         /\ At(r, Modified(Call[r], s)) # NoStatus
         /\ At(r, Modified(Call[r], s)).row = r
         /\ Config(At(r, Modified(Call[r], s))) =
              IF Call[r].fn = "setup" THEN Modified(Call[r], s)
                                      ELSE Modified(Call[r], Config(s))
<1>1. CASE Call[r].fn = "setup"
  BY <1>1, ModifiedType, AtConfig
<1>2. CASE Call[r].fn # "setup"
  <2>1. s \in StatusRows
    BY <1>2
  <2>2. Config(s) \in Configs
        /\ At(r, Modified(Call[r], s)) = At(r, Modified(Call[r], Config(s)))
    BY <2>1, ModifiedConfig
  <2> QED
    BY <1>2, <2>2, ModifiedType, AtConfig
<1> QED
  BY <1>1, <1>2

(* What a step does to the transaction.                                    *)
LEMMA ProcessRowCases ==
  ASSUME ProcessRow
  PROVE  LET r == NextRow
             c == Call[r]
             s == LastSafeStatus
         IN /\ run.pc = "process" /\ run.todo # {}
            /\ UNCHANGED <<decoded, statuses, last, upsets>>
            /\ run' = [run EXCEPT !.todo = @ \ {r}]
            /\ \/ /\ \/ c.fn = "setup"
                     \/ /\ s # NoStatus /\ c.fn # "approveHash"
                        /\ ~ OwnerCannotBeRemoved(c, s)
                  /\ StoreNewSafeStatus(r, At(r, Modified(c, s)))
               \/ c.fn # "setup" /\ s = NoStatus /\ tx' = tx
               \/ /\ c.fn = "approveHash" /\ s # NoStatus
                  /\ tx' = [tx EXCEPT !.last = LastOnceRead]
               \/ s # NoStatus /\ OwnerCannotBeRemoved(c, s) /\ LeaveHalfModified(r, s)
BY DEF ProcessRow, NextRow

(* What is stored is the object, with the fields the call leaves alone as  *)
(* they were read.                                                         *)
LEMMA StoredObject ==
  ASSUME TypeInv, NEW r \in Row, NEW s \in StatusRows,
         \/ Call[r].fn = "setup"
         \/ Call[r].fn # "approveHash" /\ GetOrGenerate # NoStatus,
         StoreNewSafeStatus(r, s)
  PROVE  /\ tx'.cache = s /\ tx'.new = [tx.new EXCEPT ![r] = s]
         /\ tx'.last \in StatusRows /\ tx'.last # NoStatus /\ tx'.last.row = s.row
         /\ tx' = [cache |-> tx'.cache, last |-> tx'.last, new |-> tx'.new]
         /\ LET db == GetOrGenerate IN
            Call[r].fn # "setup" =>
              /\ "owners" \notin FieldsOf[Call[r].fn] => tx'.last.owners = db.owners
              /\ "threshold" \notin FieldsOf[Call[r].fn] =>
                   tx'.last.threshold = db.threshold
              /\ "nonce" \notin FieldsOf[Call[r].fn] => tx'.last.nonce = db.nonce
         /\ "owners" \in FieldsOf[Call[r].fn] => tx'.last.owners = s.owners
         /\ "threshold" \in FieldsOf[Call[r].fn] => tx'.last.threshold = s.threshold
         /\ "nonce" \in FieldsOf[Call[r].fn] => tx'.last.nonce = s.nonce
<1> DEFINE fields == FieldsOf[Call[r].fn]
           db == IF Call[r].fn = "setup" THEN s ELSE GetOrGenerate
<1>1. tx' = [cache |-> s, new |-> [tx.new EXCEPT ![r] = s],
             last |-> [f \in {"owners", "threshold", "nonce", "row"} |->
                         IF f \in fields THEN s[f] ELSE db[f]]]
  BY DEF StoreNewSafeStatus
<1>2. db \in StatusRows
  BY ReadType
<1>3. Call[r].fn # "setup" => db = GetOrGenerate
  OBVIOUS
<1>4. "row" \in fields
  <2>1. \/ fields = {"owners", "threshold", "nonce", "row"}
        \/ fields = {"owners", "threshold", "row"}
        \/ fields = {"owners", "row"}
        \/ fields = {"threshold", "row"}
        \/ fields = {"nonce", "row"}
    BY RowFacts DEF FieldsOf, FunctionNames
  <2> QED
    BY <2>1
<1> HIDE DEF fields, db
<1>5. tx'.last = [owners |-> IF "owners" \in fields THEN s.owners ELSE db.owners,
                  threshold |-> IF "threshold" \in fields THEN s.threshold
                                                          ELSE db.threshold,
                  nonce |-> IF "nonce" \in fields THEN s.nonce ELSE db.nonce,
                  row |-> s.row]
  BY <1>1, <1>4
<1>6. tx'.last \in StatusRows
  BY <1>2, <1>5 DEF StatusRows
<1> QED
  BY <1>1, <1>3, <1>5, <1>6, NoStatusIsNone DEF fields

LEMMA ProcessRowType ==
  ASSUME TypeInv, ProcessRow
  PROVE  TypeInv'
<1> DEFINE r == NextRow
           c == Call[r]
           s == LastSafeStatus
<1>1. /\ run.pc = "process" /\ run.todo # {}
      /\ UNCHANGED <<decoded, statuses, last, upsets>>
      /\ run' = [run EXCEPT !.todo = @ \ {r}]
  BY ProcessRowCases
<1>2. r \in run.todo /\ r \in Row
  BY <1>1, NextRowIsLeast DEF TypeInv
<1>3. /\ tx \in [cache : StatusRows \cup {NoStatus}, last : StatusRows \cup {NoStatus},
                new : [Row -> StatusRows \cup {NoStatus}]]
      /\ StoredRows \subseteq run.batch \ run.todo
      /\ run.todo \subseteq run.batch
      /\ tx.cache # NoStatus \/ StoredRows # {} => tx.last # NoStatus
  BY DEF TypeInv, TypeOK
<1>4. /\ s \in StatusRows \cup {NoStatus} /\ LastOnceRead \in StatusRows \cup {NoStatus}
      /\ s # NoStatus => GetOrGenerate # NoStatus
  BY ReadType
<1>5. ASSUME tx' \in [cache : StatusRows \cup {NoStatus},
                      last : StatusRows \cup {NoStatus},
                      new : [Row -> StatusRows \cup {NoStatus}]],
             \A q \in Row : tx'.new[q] = tx.new[q] \/ q = r,
             tx'.cache # NoStatus \/ StoredRows' # {} => tx'.last # NoStatus
      PROVE  TypeInv'
  <2>1. StoredRows' \subseteq StoredRows \cup {r}
    BY <1>5 DEF StoredRows
  <2>2. /\ run' \in [pc : {"idle", "check", "fix", "fetch", "process"},
                     batch : SUBSET Row, todo : SUBSET Row, checked : BOOLEAN,
                     fixFrom : Row \cup {NoRow}, gone : SUBSET Row]
        /\ run'.batch = run.batch /\ run'.todo = run.todo \ {r}
        /\ run'.pc = "process"
    BY <1>1 DEF TypeInv, TypeOK
  <2>3. StoredRows' \subseteq run'.batch \ run'.todo /\ run'.todo \subseteq run'.batch
    BY <1>2, <1>3, <2>1, <2>2
  <2> QED
    BY <1>1, <1>5, <2>2, <2>3 DEF TypeInv, TypeOK
<1>6. CASE /\ \/ c.fn = "setup"
              \/ s # NoStatus /\ c.fn # "approveHash" /\ ~ OwnerCannotBeRemoved(c, s)
           /\ StoreNewSafeStatus(r, At(r, Modified(c, s)))
  <2> DEFINE v == At(r, Modified(c, s))
  <2>1. v \in StatusRows
    BY <1>2, <1>4, <1>6, NewStatus
  <2>2. \/ c.fn = "setup"
        \/ c.fn # "approveHash" /\ GetOrGenerate # NoStatus
    BY <1>4, <1>6
  <2> HIDE DEF v
  <2>3. /\ tx'.cache = v /\ tx'.new = [tx.new EXCEPT ![r] = v]
        /\ tx'.last \in StatusRows /\ tx'.last # NoStatus
        /\ tx' = [cache |-> tx'.cache, last |-> tx'.last, new |-> tx'.new]
    BY <1>2, <1>6, <2>1, <2>2, StoredObject DEF v
  <2>4. tx'.new \in [Row -> StatusRows \cup {NoStatus}]
    BY <1>3, <2>1, <2>3
  <2>5. tx' \in [cache : StatusRows \cup {NoStatus}, last : StatusRows \cup {NoStatus},
                 new : [Row -> StatusRows \cup {NoStatus}]]
    BY <2>1, <2>3, <2>4
  <2>6. \A q \in Row : tx'.new[q] = tx.new[q] \/ q = r
    BY <1>3, <2>3
  <2> QED
    BY <1>5, <2>3, <2>5, <2>6
<1>7. CASE c.fn # "setup" /\ s = NoStatus /\ tx' = tx
  <2>1. StoredRows' = StoredRows
    BY <1>7 DEF StoredRows
  <2> QED
    BY <1>3, <1>5, <1>7, <2>1
<1>8. ASSUME s # NoStatus, NEW new \in StatusRows \cup {NoStatus},
             tx' = [tx EXCEPT !.last = LastOnceRead, !.cache = new],
             tx.cache = NoStatus => new = NoStatus
      PROVE  TypeInv'
  <2>1. StoredRows' = StoredRows
    BY <1>3, <1>8 DEF StoredRows
  <2>2. tx.last # NoStatus => LastOnceRead # NoStatus
    BY <1>4 DEF LastOnceRead, SeenLast
  <2>3. tx' \in [cache : StatusRows \cup {NoStatus}, last : StatusRows \cup {NoStatus},
                 new : [Row -> StatusRows \cup {NoStatus}]]
        /\ tx'.new = tx.new /\ tx'.last = LastOnceRead /\ tx'.cache = new
    BY <1>3, <1>4, <1>8
  <2> QED
    BY <1>3, <1>5, <1>8, <2>1, <2>2, <2>3
<1>9. CASE c.fn = "approveHash" /\ s # NoStatus /\ tx' = [tx EXCEPT !.last = LastOnceRead]
  <2>1. tx' = [tx EXCEPT !.last = LastOnceRead, !.cache = tx.cache]
    BY <1>3, <1>9
  <2> QED
    BY <1>3, <1>8, <1>9, <2>1
<1>10. CASE s # NoStatus /\ OwnerCannotBeRemoved(c, s) /\ LeaveHalfModified(r, s)
  <2> DEFINE new == IF tx.cache = NoStatus \/ c.fn = "swapOwner" THEN tx.cache
                    ELSE [tx.cache EXCEPT !.threshold = ThresholdOr(c, s)]
  <2>1. tx' = [tx EXCEPT !.last = LastOnceRead, !.cache = new]
    BY <1>3, <1>10 DEF LeaveHalfModified
  <2>2. s \in StatusRows
    BY <1>4, <1>10
  <2>3. ThresholdOr(c, s) \in Nat
    BY <1>2, <2>2, RowFacts DEF ThresholdOr, StatusRows
  <2>4. new \in StatusRows \cup {NoStatus} /\ (tx.cache = NoStatus => new = NoStatus)
    BY <1>3, <2>3 DEF StatusRows
  <2> HIDE DEF new
  <2> QED
    BY <1>8, <1>10, <2>1, <2>4
<1> QED
  BY <1>6, <1>7, <1>9, <1>10, ProcessRowCases

LEMMA CommitType ==
  ASSUME TypeInv, CommitBatch
  PROVE  TypeInv'
<1>1. /\ tx' = NoTx /\ upsets' = upsets /\ run.pc = "process"
      /\ \/ /\ decoded' = [r \in Row |->
                             IF r \in run.batch \ run.gone THEN "processed"
                                                           ELSE decoded[r]]
            /\ statuses' = Seen /\ last' = SeenLast
            /\ run' = [run EXCEPT !.pc = "fetch", !.batch = {}, !.gone = {}]
            /\ run.todo = {}
         \/ run' = IdleRun /\ UNCHANGED <<decoded, statuses, last>>
  BY DEF CommitBatch, Seen
<1>2. StoredRows' = {}
  BY <1>1 DEF StoredRows, NoTx
<1>3. /\ tx' \in [cache : StatusRows \cup {NoStatus}, last : StatusRows \cup {NoStatus},
                  new : [Row -> StatusRows \cup {NoStatus}]]
      /\ tx'.cache = NoStatus
  BY <1>1 DEF NoTx
<1>4. CASE /\ decoded' = [r \in Row |->
                            IF r \in run.batch \ run.gone THEN "processed"
                                                          ELSE decoded[r]]
           /\ statuses' = Seen /\ last' = SeenLast
           /\ run' = [run EXCEPT !.pc = "fetch", !.batch = {}, !.gone = {}]
           /\ run.todo = {}
  <2>1. statuses' \in [Row -> StatusRows \cup {NoStatus}]
        /\ last' \in StatusRows \cup {NoStatus}
    BY <1>4, ReadType
  <2>2. decoded' \in [Row -> {"absent", "pending", "processed"}]
    BY <1>4 DEF TypeInv, TypeOK
  <2>3. /\ run' \in [pc : {"idle", "check", "fix", "fetch", "process"},
                     batch : SUBSET Row, todo : SUBSET Row, checked : BOOLEAN,
                     fixFrom : Row \cup {NoRow}, gone : SUBSET Row]
        /\ run'.todo = {}
    BY <1>4 DEF TypeInv, TypeOK
  <2> QED
    BY <1>1, <1>2, <1>3, <2>1, <2>2, <2>3 DEF TypeInv, TypeOK
<1>5. CASE run' = IdleRun /\ UNCHANGED <<decoded, statuses, last>>
  BY <1>1, <1>2, <1>3, <1>5 DEF TypeInv, TypeOK, IdleRun, NoRow
<1> QED
  BY <1>1, <1>4, <1>5

LEMMA InitType ==
  ASSUME Init
  PROVE  TypeInv
BY ProcessingType DEF Init, TypeInv, TypeOK, IdleRun, NoTx, NoRow, StoredRows

LEMMA TypeStep ==
  ASSUME TypeInv, [Next]_vars
  PROVE  TypeInv'
<1> DEFINE RunType == [pc : {"idle", "check", "fix", "fetch", "process"},
                       batch : SUBSET Row, todo : SUBSET Row, checked : BOOLEAN,
                       fixFrom : Row \cup {NoRow}, gone : SUBSET Row]
<1>1. CASE UNCHANGED vars
  BY <1>1 DEF TypeInv, TypeOK, StoredRows, vars
<1>2. CASE \E rows \in SUBSET Row : StoreRows(rows)
  BY <1>2 DEF TypeInv, TypeOK, StoreRows, StoredRows
<1>3. ASSUME NEW r \in Row, DeleteRows(Timestamp[r])
      PROVE  TypeInv'
  <2> DEFINE deleted == {q \in Present : Timestamp[q] >= Timestamp[r]}
  <2>1. /\ upsets < MaxUpsets /\ upsets' = upsets + 1 /\ tx' = tx
        /\ decoded' = [q \in Row |-> IF q \in deleted THEN "absent" ELSE decoded[q]]
        /\ statuses' = [q \in Row |-> IF q \in deleted THEN NoStatus ELSE statuses[q]]
        /\ last' = IF last # NoStatus /\ last.row \in deleted THEN NoStatus ELSE last
        /\ run' = IF run.batch # {} THEN [run EXCEPT !.gone = @ \cup deleted] ELSE run
    BY <1>3 DEF DeleteRows
  <2>2. deleted \subseteq Row
    BY Queue DEF TypeInv
  <2> HIDE DEF deleted
  <2>3. run' \in RunType /\ run'.pc = run.pc /\ run'.batch = run.batch
        /\ run'.todo = run.todo
    BY <2>1, <2>2 DEF TypeInv, TypeOK
  <2>4. /\ decoded' \in [Row -> {"absent", "pending", "processed"}]
        /\ statuses' \in [Row -> StatusRows \cup {NoStatus}]
        /\ last' \in StatusRows \cup {NoStatus}
        /\ upsets' \in 0 .. MaxUpsets
    BY <2>1, ProcessingType DEF TypeInv, TypeOK
  <2> QED
    BY <2>1, <2>3, <2>4 DEF TypeInv, TypeOK, StoredRows
<1>4. CASE Reprocess
  BY <1>4, ProcessingType DEF Reprocess, TypeInv, TypeOK, StoredRows
<1>5. CASE StartRun
  <2>1. \E pc \in {"check", "fetch"} :
          run' = [pc |-> pc, batch |-> {}, todo |-> {}, checked |-> FALSE,
                  fixFrom |-> NoRow, gone |-> {}]
    BY <1>5 DEF StartRun, IdleRun
  <2>2. UNCHANGED <<decoded, statuses, last, tx, upsets>> /\ tx = NoTx
    BY <1>5 DEF StartRun, TypeInv, TypeOK
  <2> QED
    BY <2>1, <2>2 DEF TypeInv, TypeOK, NoTx, StoredRows
<1>6. ASSUME CheckOutOfOrder
      PROVE  TypeInv'
  <2>1. UNCHANGED <<decoded, statuses, last, tx, upsets>> /\ tx = NoTx
    BY <1>6 DEF CheckOutOfOrder, TypeInv, TypeOK
  <2>2. OutOfOrder => FirstPending \in Row
    BY OldestPending, Queue DEF TypeInv, OutOfOrder
  <2>3. run' \in RunType /\ run'.batch = run.batch /\ run'.todo = run.todo
    BY <1>6, <2>2 DEF CheckOutOfOrder, AfterCheck, TypeInv, TypeOK
  <2> QED
    BY <2>1, <2>3 DEF TypeInv, TypeOK, NoTx, StoredRows
<1>7. ASSUME FixOutOfOrder
      PROVE  TypeInv'
  <2>1. /\ UNCHANGED <<tx, upsets>> /\ tx = NoTx /\ last' = NoStatus
        /\ decoded' \in [Row -> {"absent", "pending", "processed"}]
        /\ statuses' \in [Row -> StatusRows \cup {NoStatus}]
    BY <1>7 DEF FixOutOfOrder, TypeInv, TypeOK
  <2>2. run' \in RunType /\ run'.batch = run.batch /\ run'.todo = run.todo
    BY <1>7 DEF FixOutOfOrder, AfterCheck, TypeInv, TypeOK
  <2> QED
    BY <2>1, <2>2 DEF TypeInv, TypeOK, NoTx, StoredRows
<1>8. ASSUME FetchBatch
      PROVE  TypeInv'
  <2>1. UNCHANGED <<decoded, statuses, last, tx, upsets>> /\ tx = NoTx
    BY <1>8 DEF FetchBatch, TypeInv, TypeOK
  <2>2. \/ run' = IdleRun
        \/ \E batch \in SUBSET Row, pc \in {"check", "process"} :
             run' = [run EXCEPT !.batch = batch, !.todo = batch, !.gone = {}, !.pc = pc]
    <3> DEFINE batch == {r \in Pending : Cardinality({q \in Pending : q < r}) < BatchSize}
    <3>1. batch \in SUBSET Row
      BY Queue DEF TypeInv
    <3>2. run' = IF batch = {} THEN IdleRun
                 ELSE [run EXCEPT !.batch = batch, !.todo = batch, !.gone = {},
                         !.pc = IF Together /\ ~run.checked THEN "check" ELSE "process"]
      BY <1>8 DEF FetchBatch
    <3> HIDE DEF batch
    <3>3. CASE Together /\ ~run.checked
      BY <3>1, <3>2, <3>3
    <3>4. CASE ~ (Together /\ ~run.checked)
      BY <3>1, <3>2, <3>4
    <3> QED
      BY <3>3, <3>4
  <2>3. run' \in RunType /\ run'.todo \subseteq run'.batch
    <3>1. CASE run' = IdleRun
      BY <3>1 DEF IdleRun, NoRow
    <3>2. ASSUME NEW batch \in SUBSET Row, NEW pc \in {"check", "process"},
                 run' = [run EXCEPT !.batch = batch, !.todo = batch, !.gone = {},
                                    !.pc = pc]
          PROVE  run' \in RunType /\ run'.todo \subseteq run'.batch
      BY <3>2 DEF TypeInv, TypeOK
    <3> QED
      BY <2>2, <3>1, <3>2
  <2> QED
    BY <2>1, <2>3 DEF TypeInv, TypeOK, NoTx, StoredRows
<1>9. CASE RunFails
  BY <1>9, ProcessingType DEF RunFails, TypeInv, TypeOK, IdleRun, NoTx, NoRow, StoredRows
<1> QED
  BY <1>1, <1>2, <1>3, <1>4, <1>5, <1>6, <1>7, <1>8, <1>9, ProcessRowType, CommitType
     DEF Next, ProcessingStep

(* The tables, the run and its transaction hold what is declared, in any   *)
(* setting; in particular no field is read from a status that is missing.  *)
THEOREM TypeCorrect == Spec => []TypeOK
<1>1. Init => TypeInv
  BY InitType
<1>2. TypeInv /\ [Next]_vars => TypeInv'
  BY TypeStep
<1>3. TypeInv => TypeOK
  BY DEF TypeInv
<1> QED
  BY <1>1, <1>2, <1>3, PTL DEF Spec

-----------------------------------------------------------------------------
(* The invariant holds at first, and every step keeps it.                  *)
LEMMA HistNone == Hist([r \in Row |-> NoStatus], {})
BY DEF Hist

LEMMA InitInvariant ==
  ASSUME Init
  PROVE  IInv
<1> USE DEF Init
<1>1. Pending = {} /\ Processed = {} /\ Present = {}
  BY DEF Pending, Processed, Present
<1>2. TypeInv
  BY InitType
<1>3. Committed
  BY <1>1, HistNone DEF Committed, Newest
<1>4. WholeBlocks /\ BlocksInOrder
  BY <1>1 DEF WholeBlocks, BlocksInOrder
<1>5. Repaired /\ BatchOK /\ InFlight
  BY DEF Repaired, BatchOK, InFlight, IdleRun
<1> QED
  BY <1>2, <1>3, <1>4, <1>5 DEF IInv

LEMMA StoreRowsInvariant ==
  ASSUME IInv, TypeInv', Setting, NEW rows \in SUBSET Row, StoreRows(rows)
  PROVE  IInv'
<1> USE DEF IInv, TypeInv
<1>1. /\ Pending' = Pending \cup rows /\ Processed' = Processed
      /\ Present' = Present \cup rows
  <2>1. /\ decoded' = [r \in Row |-> IF r \in rows THEN "pending" ELSE decoded[r]]
        /\ rows \cap Present = {}
    BY DEF StoreRows
  <2> QED
    BY <2>1, Queue DEF Pending, Processed, Present
<1>2. /\ statuses' = statuses /\ last' = last /\ run' = run /\ tx' = tx
      /\ upsets' = upsets /\ rows \cap Present = {}
      /\ run.pc # "idle" => Before(Present, rows)
      /\ \A r \in rows, q \in Row :
           Timestamp[q] = Timestamp[r] => q \in rows \cup Present
  BY DEF StoreRows, Setting, InOrder, Before
<1>4. Committed'
  BY <1>1, <1>2 DEF Committed
<1>5. WholeBlocks'
  BY <1>1, <1>2, RowFacts DEF WholeBlocks
<1>6. BlocksInOrder'
  <2> SUFFICES ASSUME NEW r \in rows, NEW q \in Processed,
                      Timestamp[r] = Timestamp[q]
               PROVE  FALSE
    BY <1>1 DEF BlocksInOrder
  <2>1. r \in Present
    BY Queue DEF WholeBlocks, Present
  <2> QED
    BY <1>2, <2>1
<1>7. Repaired'
  BY <1>1, <1>2 DEF Repaired, Before, Present
<1>8. BatchOK'
  <2>1. Kept' = Kept /\ Done' = Done
    BY <1>2 DEF Kept, Done
  <2> SUFFICES ASSUME run.pc = "process"
               PROVE  Kept \subseteq Pending \cup rows
                      /\ Before(Kept, (Pending \cup rows) \ run.batch)
    BY <1>1, <1>2, <2>1 DEF BatchOK
  <2>2. Before(Present, rows) /\ Kept \subseteq Pending
    BY <1>2 DEF BatchOK
  <2>3. Before(Kept, Pending \ run.batch)
    BY DEF BatchOK
  <2> QED
    BY <2>2, <2>3 DEF Before, Present
<1>9. InFlight'
  <2>1. Kept' = Kept /\ Done' = Done /\ Seen' = Seen /\ SeenLast' = SeenLast
    BY <1>2 DEF Kept, Done, Seen, SeenStatus, SeenLast
  <2> QED
    BY <1>1, <1>2, <2>1 DEF InFlight
<1> QED
  BY <1>4, <1>5, <1>6, <1>7, <1>8, <1>9

LEMMA DeleteRowsInvariant ==
  ASSUME IInv, TypeInv', NEW t \in Nat, DeleteRows(t)
  PROVE  IInv'
<1> USE DEF IInv, TypeInv
<1> DEFINE deleted == {r \in Present : Timestamp[r] >= t}
<1>1. /\ upsets < MaxUpsets /\ upsets' = upsets + 1
      /\ decoded' = [r \in Row |-> IF r \in deleted THEN "absent" ELSE decoded[r]]
      /\ statuses' = [r \in Row |-> IF r \in deleted THEN NoStatus ELSE statuses[r]]
      /\ last' = IF last # NoStatus /\ last.row \in deleted THEN NoStatus ELSE last
      /\ run' = IF run.batch # {} THEN [run EXCEPT !.gone = @ \cup deleted] ELSE run
      /\ tx' = tx
  BY DEF DeleteRows
<1>2. \A r \in Row : Timestamp[r] \in Nat
  BY RowFacts
<1>3. deleted \subseteq Row
  BY Queue
<1>4. /\ Pending' = Pending \ deleted /\ Processed' = Processed \ deleted
      /\ Present' = Present \ deleted
  BY <1>1, Queue DEF Pending, Processed, Present
<1>5. /\ \A r \in deleted, q \in Present \ deleted :
           Timestamp[q] < Timestamp[r] /\ q < r
      /\ \A r \in deleted : Timestamp[r] >= t
      /\ \A q \in Present \ deleted : Timestamp[q] < t
  <2>1. \A r \in deleted : r \in Row /\ Timestamp[r] >= t
    BY <1>3
  <2>2. \A q \in Present \ deleted : q \in Row /\ Timestamp[q] < t
    BY <1>2, Queue
  <2>3. \A r \in deleted, q \in Present \ deleted : Timestamp[q] < Timestamp[r]
    BY <1>2, <2>1, <2>2
  <2> QED
    BY <2>1, <2>2, <2>3, RowFacts
<1> HIDE DEF deleted
<1>6. /\ run'.pc = run.pc /\ run'.batch = run.batch /\ run'.todo = run.todo
      /\ run'.fixFrom = run.fixFrom
      /\ run'.gone = IF run.batch # {} THEN run.gone \cup deleted ELSE run.gone
  <2>1. run \in [pc : {"idle", "check", "fix", "fetch", "process"},
                 batch : SUBSET Row, todo : SUBSET Row, checked : BOOLEAN,
                 fixFrom : Row \cup {NoRow}, gone : SUBSET Row]
    BY DEF TypeOK
  <2> QED
    BY <1>1, <1>3, <2>1
<1>8. Hist(statuses', Processed')
  <2>1. /\ Processed \ deleted \in SUBSET Processed /\ Processed \in SUBSET Row
        /\ \A q \in Row : statuses'[q] = statuses[q] \/ statuses'[q] = NoStatus
        /\ \A q \in Row : q \in Processed \ deleted => statuses'[q] = statuses[q]
        /\ \A q \in Row : q \in Processed \ (Processed \ deleted)
                            => statuses'[q] = NoStatus
    BY <1>1, Queue
  <2>2. Before(Processed \ deleted, Processed \ (Processed \ deleted))
    BY <1>5 DEF Before, Present
  <2>3. Hist(statuses, Processed)
    BY DEF Committed
  <2> QED
    BY <1>4, <2>1, <2>2, <2>3, HistCut
<1>9. ASSUME NEW l, Newest(statuses, l), l # NoStatus => l.row \notin deleted
      PROVE  Newest(statuses', l)
  BY <1>1, <1>9 DEF Newest
<1>10. Committed'
  <2>1. Newest(statuses', last')
    <3>1. CASE last' = NoStatus
      BY <3>1 DEF Newest
    <3>2. CASE last' # NoStatus
      BY <1>1, <1>9, <3>2 DEF Committed
    <3> QED
      BY <3>1, <3>2
  <2> QED
    BY <1>8, <2>1 DEF Committed
<1>11. WholeBlocks'
  <2> SUFFICES ASSUME NEW r \in Present \ deleted, NEW q \in Row,
                      Timestamp[q] = Timestamp[r]
               PROVE  q \in Present \ deleted
    BY <1>4 DEF WholeBlocks
  <2>1. q \in Present
    BY DEF WholeBlocks
  <2>2. Timestamp[r] < t /\ Timestamp[r] \in Nat
    BY <1>2, <1>5, Queue
  <2> QED
    BY <1>5, <2>1, <2>2
<1>12. BlocksInOrder'
  BY <1>4 DEF BlocksInOrder
<1>13. Repaired'
  BY <1>4, <1>6 DEF Repaired, Before
<1>14. run.pc = "process" => /\ run.batch # {} /\ Kept' = Kept \ deleted
                             /\ Done' = Done /\ run'.gone = run.gone \cup deleted
  BY <1>6 DEF BatchOK, Kept, Done
<1>15. BatchOK'
  <2> SUFFICES ASSUME run.pc = "process" PROVE BatchOK'
    BY <1>6 DEF BatchOK
  <2>1. /\ Before(Done, run.todo) /\ Kept \subseteq Pending
        /\ Before(Kept, Pending \ run.batch)
        /\ \A r \in Kept, g \in run.gone : Timestamp[r] < Timestamp[g]
    BY DEF BatchOK
  <2>2. \A r \in Kept \ deleted, g \in run.gone \cup deleted :
          Timestamp[r] < Timestamp[g]
    BY <1>5, <2>1 DEF Present
  <2> QED
    BY <1>4, <1>6, <1>14, <2>1, <2>2 DEF BatchOK, Before
<1>16. InFlight'
  <2> SUFFICES ASSUME run.pc = "process" PROVE InFlight'
    BY <1>6 DEF InFlight
  <2>1. tx.last # NoStatus =>
          \/ tx.last.row \in run.batch \cup (run.gone \cup deleted)
          \/ Newest(statuses', tx.last)
    BY <1>9 DEF InFlight
  <2>2. ASSUME Kept \ deleted # {}
        PROVE  /\ Hist(Seen', Processed' \cup Done) /\ Newest(Seen', SeenLast')
               /\ tx.cache # NoStatus => tx.cache = tx.last
    <3>1. PICK k \in Kept \ deleted : k \in Pending /\ Timestamp[k] < t /\ k \in Row
      BY <1>5, <2>2, Queue DEF BatchOK, Present
    <3>2. \A q \in Processed : q < k
      BY <3>1 DEF Repaired, Before
    <3>3. \A q \in Processed : q \notin deleted
      <4> SUFFICES ASSUME NEW q \in Processed, q \in deleted PROVE FALSE
        OBVIOUS
      <4>1. k < q /\ q < k
        BY <1>5, <3>1, <3>2 DEF Present
      <4> QED
        BY <1>3, <3>1, <4>1 DEF Row
    <3>4. Processed' = Processed
      BY <1>4, <3>3
    <3>5. statuses' = statuses
      <4>1. \A q \in Row : q \in deleted => statuses[q] = NoStatus
        BY <3>3 DEF Committed, Hist
      <4>2. statuses = [q \in Row |-> statuses[q]]
        BY DEF TypeOK
      <4> QED
        BY <1>1, <4>1, <4>2
    <3>6. last' = last
      <4>1. last # NoStatus => last.row \in Processed
        BY DEF Committed, Newest, Hist
      <4> QED
        BY <1>1, <3>3, <4>1
    <3>7. Seen' = Seen /\ SeenLast' = SeenLast
      BY <1>1, <3>5, <3>6 DEF Seen, SeenStatus, SeenLast
    <3> QED
      BY <2>2, <3>4, <3>7 DEF InFlight
  <2> QED
    BY <1>1, <1>6, <1>14, <2>1, <2>2 DEF InFlight
<1> QED
  BY <1>10, <1>11, <1>12, <1>13, <1>15, <1>16

LEMMA ReprocessInvariant ==
  ASSUME IInv, TypeInv', Setting, Reprocess
  PROVE  IInv'
<1> USE DEF IInv, TypeInv
<1>1. /\ run.pc = "idle" /\ run' = run /\ tx' = tx /\ last' = NoStatus
      /\ decoded' = [r \in Row |-> IF r \in Present THEN "pending" ELSE "absent"]
      /\ statuses' = [r \in Row |-> NoStatus]
      /\ upsets < MaxUpsets /\ upsets' = upsets + 1
  BY DEF Reprocess, Setting, InOrder
<1>2. Pending' = Present /\ Processed' = {} /\ Present' = Present
  BY <1>1, Queue DEF Pending, Processed, Present
<1>4. Committed'
  BY <1>1, <1>2, HistNone DEF Committed, Newest
<1>5. WholeBlocks' /\ BlocksInOrder'
  BY <1>2 DEF WholeBlocks, BlocksInOrder
<1>6. Repaired' /\ BatchOK' /\ InFlight'
  BY <1>1 DEF Repaired, BatchOK, InFlight
<1> QED
  BY <1>4, <1>5, <1>6

(* Steps that leave the tables alone.                                      *)
LEMMA TablesKept ==
  ASSUME IInv, UNCHANGED <<decoded, statuses, last>>
  PROVE  /\ Pending' = Pending /\ Processed' = Processed /\ Present' = Present
         /\ Committed' /\ WholeBlocks' /\ BlocksInOrder'
<1>1. Pending' = Pending /\ Processed' = Processed /\ Present' = Present
  BY DEF Pending, Processed, Present
<1> QED
  BY <1>1 DEF IInv, Committed, WholeBlocks, BlocksInOrder

LEMMA StartRunInvariant ==
  ASSUME IInv, TypeInv', Setting, StartRun
  PROVE  IInv'
<1> USE DEF IInv, TypeInv
<1>1. /\ UNCHANGED <<decoded, statuses, last, tx, upsets>> /\ run.pc = "idle"
      /\ run' = [IdleRun EXCEPT !.pc = "check"]
  BY DEF StartRun, Setting, InOrder
<1>0. run' = [pc |-> "check", batch |-> {}, todo |-> {}, checked |-> FALSE,
              fixFrom |-> NoRow, gone |-> {}]
  BY <1>1 DEF IdleRun
<1>3. Repaired' /\ BatchOK' /\ InFlight'
  BY <1>0 DEF Repaired, BatchOK, InFlight, IdleRun
<1> QED
  BY <1>1, <1>3, TablesKept

LEMMA CheckInvariant ==
  ASSUME IInv, TypeInv', Setting, CheckOutOfOrder
  PROVE  IInv'
<1> USE DEF IInv, TypeInv
<1>1. /\ UNCHANGED <<decoded, statuses, last, tx, upsets>> /\ run.pc = "check"
      /\ tx = NoTx
  BY DEF CheckOutOfOrder, TypeOK
<1>2. CASE OutOfOrder
  <2>1. run' = [run EXCEPT !.pc = "fix", !.fixFrom = FirstPending]
    BY <1>2 DEF CheckOutOfOrder
  <2>2. FirstPending \in Row /\ FirstPending \in Pending
        /\ \A q \in Pending : FirstPending <= q
    BY <1>2, OldestPending, Queue DEF OutOfOrder
  <2>4. run'.pc = "fix" /\ run'.fixFrom = FirstPending /\ run'.batch = run.batch
    BY <2>1 DEF TypeOK
  <2>5. Before({q \in Processed : Timestamp[q] < Timestamp[FirstPending]}, Pending)
    <3> SUFFICES ASSUME NEW q \in Processed, NEW r \in Pending,
                        Timestamp[q] < Timestamp[FirstPending]
                 PROVE  q < r
      BY DEF Before
    <3>1. q < FirstPending /\ FirstPending <= r
      BY <2>2, RowFacts, Queue
    <3> QED
      BY <2>2, <3>1, Queue DEF Row
  <2>6. Repaired' /\ BatchOK' /\ InFlight'
    BY <1>1, <2>2, <2>4, <2>5, TablesKept DEF Repaired, BatchOK, InFlight
  <2> QED
    BY <1>1, <2>6, TablesKept
<1>3. CASE ~OutOfOrder
  <2>1. run' = [run EXCEPT !.pc = "fetch", !.checked = TRUE]
    BY <1>3 DEF CheckOutOfOrder, AfterCheck, Setting, InOrder
  <2>3. run'.pc = "fetch" /\ run'.batch = run.batch
    BY <2>1 DEF TypeOK
  <2>4. Before(Processed, Pending)
    <3> SUFFICES ASSUME NEW q \in Processed, NEW r \in Pending
                 PROVE  q < r
      BY DEF Before
    <3>1. q \in Row /\ r \in Row /\ Timestamp[q] \in Nat /\ Timestamp[r] \in Nat
      BY Queue, RowFacts
    <3>2. ~ (Timestamp[r] < Timestamp[q])
      BY <1>3 DEF OutOfOrder
    <3>3. CASE Timestamp[q] = Timestamp[r]
      BY <3>3 DEF BlocksInOrder
    <3>4. CASE Timestamp[q] < Timestamp[r]
      BY <3>1, <3>4, RowFacts
    <3> QED
      BY <3>1, <3>2, <3>3, <3>4
  <2>5. run.batch = {}
    BY <1>1 DEF BatchOK
  <2>6. Repaired' /\ BatchOK' /\ InFlight'
    BY <1>1, <2>3, <2>4, <2>5, TablesKept DEF Repaired, BatchOK, InFlight
  <2> QED
    BY <1>1, <2>6, TablesKept
<1> QED
  BY <1>2, <1>3

LEMMA FixInvariant ==
  ASSUME IInv, TypeInv', Setting, FixOutOfOrder
  PROVE  IInv'
<1> USE DEF IInv, TypeInv
<1> DEFINE t == Timestamp[run.fixFrom]
           back == {r \in Present : Timestamp[r] >= t}
<1>1. /\ run.pc = "fix" /\ UNCHANGED <<tx, upsets>> /\ last' = NoStatus
      /\ decoded' = [r \in Row |-> IF r \in Present /\ Timestamp[r] >= t
                                  THEN "pending" ELSE decoded[r]]
      /\ statuses' = [r \in Row |-> IF Timestamp[r] >= t THEN NoStatus
                                                        ELSE statuses[r]]
      /\ run' = [run EXCEPT !.pc = "fetch", !.checked = TRUE, !.fixFrom = NoRow]
      /\ tx = NoTx
  BY DEF FixOutOfOrder, AfterCheck, Setting, InOrder, TypeOK
<1>2. t \in Nat /\ \A r \in Row : Timestamp[r] \in Nat
  BY <1>1, RowFacts DEF Repaired
<1> HIDE DEF t
<1>3. /\ Processed' = Processed \ back /\ Pending' = Pending \cup back
      /\ Present' = Present
  BY <1>1, Queue DEF Pending, Processed, Present
<1>4. Before({q \in Processed : Timestamp[q] < t}, Pending)
  BY <1>1 DEF Repaired, t
<1>5. \A q \in Present \ back, r \in back : Timestamp[q] < Timestamp[r] /\ q < r
  <2>1. \A q \in Present \ back, r \in back : Timestamp[q] < Timestamp[r]
    BY <1>2, Queue
  <2> QED
    BY <2>1, RowFacts, Queue
<1>6. Processed \ back = {q \in Processed : Timestamp[q] < t}
  BY <1>2, Queue DEF Present
<1>8. run'.pc = "fetch" /\ run'.batch = run.batch
  BY <1>1 DEF TypeOK
<1>9. Hist(statuses', Processed')
  <2>1. Before(Processed \ back, Processed \ (Processed \ back))
    BY <1>5 DEF Before, Present
  <2>2. /\ Processed \ back \in SUBSET Processed /\ Processed \in SUBSET Row
        /\ \A q \in Row : statuses'[q] = statuses[q] \/ statuses'[q] = NoStatus
        /\ \A q \in Row : q \in Processed \ back => statuses'[q] = statuses[q]
        /\ \A q \in Row : q \in Processed \ (Processed \ back)
                            => statuses'[q] = NoStatus
    BY <1>1, <1>2, <1>6, Queue
  <2>3. Hist(statuses, Processed)
    BY DEF Committed
  <2> QED
    BY <1>3, <2>1, <2>2, <2>3, HistCut
<1>10. Committed'
  BY <1>1, <1>9 DEF Committed, Newest
<1>11. WholeBlocks'
  BY <1>3 DEF WholeBlocks
<1>12. BlocksInOrder'
  <2> SUFFICES ASSUME NEW r \in Pending \cup back, NEW q \in Processed \ back,
                      Timestamp[r] = Timestamp[q]
               PROVE  q < r
    BY <1>3 DEF BlocksInOrder
  <2>1. CASE r \in Pending
    BY <2>1 DEF BlocksInOrder
  <2>2. CASE r \in back
    BY <1>5, <2>2 DEF Present
  <2> QED
    BY <2>1, <2>2
<1>13. Before(Processed \ back, Pending \cup back)
  BY <1>4, <1>5, <1>6 DEF Before, Present
<1>14. run.batch = {}
  BY <1>1 DEF BatchOK
<1>15. Repaired' /\ BatchOK' /\ InFlight'
  BY <1>3, <1>8, <1>13, <1>14 DEF Repaired, BatchOK, InFlight
<1> QED
  BY <1>10, <1>11, <1>12, <1>15

LEMMA FetchInvariant ==
  ASSUME IInv, TypeInv', Setting, FetchBatch
  PROVE  IInv'
<1> USE DEF IInv, TypeInv
<1> DEFINE older(r) == {q \in Pending : q < r}
           batch == {r \in Pending : Cardinality(older(r)) < BatchSize}
<1>1. /\ run.pc = "fetch" /\ UNCHANGED <<decoded, statuses, last, tx, upsets>>
      /\ run' = IF batch = {} THEN IdleRun
                ELSE [run EXCEPT !.batch = batch, !.todo = batch, !.gone = {},
                                 !.pc = "process"]
      /\ tx = NoTx
  BY DEF FetchBatch, Setting, InOrder, TypeOK
<1>2. Before(batch, Pending \ batch)
  <2> SUFFICES ASSUME NEW r \in batch, NEW q \in Pending \ batch, ~ (r < q)
               PROVE  FALSE
    BY DEF Before
  <2>1. r \in Row /\ q \in Row
    BY Queue
  <2>2. q < r
    BY <2>1 DEF Row
  <2>3. IsFiniteSet(older(r))
    <3>1. older(r) \subseteq 1 .. NumRows
      BY Queue DEF Row
    <3>2. IsFiniteSet(1 .. NumRows)
      BY FS_Interval, RowFacts
    <3> QED
      BY <3>1, <3>2, FS_Subset
  <2>4. older(q) \subseteq older(r)
    <3>1. \A p \in Pending : p \in Int
      BY Queue DEF Row
    <3>2. q \in Int /\ r \in Int
      BY <2>1 DEF Row
    <3>3. \A p \in Pending : p < q => p < r
      BY <2>2, <3>1, <3>2
    <3> QED
      BY <3>3
  <2>5. /\ Cardinality(older(q)) <= Cardinality(older(r))
        /\ IsFiniteSet(older(q))
    <3> HIDE DEF older
    <3> QED
      BY <2>3, <2>4, FS_Subset
  <2>6. Cardinality(older(q)) \in Nat /\ Cardinality(older(r)) \in Nat
    BY <2>3, <2>5, FS_CardinalityType
  <2>7. Cardinality(older(r)) < BatchSize /\ ~ (Cardinality(older(q)) < BatchSize)
    OBVIOUS
  <2> HIDE DEF older
  <2> QED
    BY <2>5, <2>6, <2>7, ProcessingType
<1>3. batch \subseteq Pending /\ batch \subseteq Row
  BY Queue
<1> HIDE DEF batch
<1>4. CASE batch = {}
  <2>1. run' = IdleRun
    BY <1>1, <1>4
  <2>3. Repaired' /\ BatchOK' /\ InFlight'
    BY <2>1 DEF Repaired, BatchOK, InFlight, IdleRun
  <2> QED
    BY <1>1, <2>3, TablesKept
<1>5. CASE batch # {}
  <2>1. /\ run' = [run EXCEPT !.batch = batch, !.todo = batch, !.gone = {},
                             !.pc = "process"]
    BY <1>1, <1>5
  <2>2. run'.pc = "process" /\ run'.batch = batch /\ run'.todo = batch
        /\ run'.gone = {}
    BY <2>1 DEF TypeOK
  <2>5. Repaired'
    BY <1>1, <2>2, TablesKept DEF Repaired
  <2>6. Kept' = batch /\ Done' = {}
    BY <2>2 DEF Kept, Done
  <2>7. BatchOK'
    BY <1>1, <1>2, <1>3, <1>5, <2>2, <2>6, TablesKept DEF BatchOK, Before
  <2>8. Seen' = statuses /\ SeenLast' = last
    <3>1. Seen' = [r \in Row |-> statuses[r]] /\ SeenLast' = last
      BY <1>1 DEF Seen, SeenStatus, SeenLast, NoTx
    <3> QED
      BY <3>1 DEF TypeOK
  <2>9. InFlight'
    BY <1>1, <2>6, <2>8, TablesKept DEF InFlight, Committed, NoTx
  <2> QED
    BY <1>1, <2>5, <2>7, <2>9, TablesKept
<1> QED
  BY <1>4, <1>5

LEMMA RunFailsInvariant ==
  ASSUME IInv, TypeInv', RunFails
  PROVE  IInv'
<1> USE DEF IInv, TypeInv
<1>1. /\ UNCHANGED <<decoded, statuses, last>> /\ run' = IdleRun /\ tx' = NoTx
      /\ upsets < MaxUpsets /\ upsets' = upsets + 1
  BY DEF RunFails
<1>3. Repaired' /\ BatchOK' /\ InFlight'
  BY <1>1 DEF Repaired, BatchOK, InFlight, IdleRun
<1> QED
  BY <1>1, <1>3, TablesKept

(* A call leaves the fields alone that it does not store.                  *)
LEMMA UntouchedFields ==
  ASSUME NEW r \in Row, NEW s \in StatusRows,
         Call[r].fn \notin {"setup", "approveHash"}
  PROVE  LET v == At(r, Modified(Call[r], s))
             fields == FieldsOf[Call[r].fn]
         IN /\ "owners" \notin fields => v.owners = s.owners
            /\ "threshold" \notin fields => v.threshold = s.threshold
            /\ "nonce" \notin fields => v.nonce = s.nonce
<1>1. CASE Call[r].fn \in {"addOwner", "removeOwner"}
  <2>1. \E o, t : Modified(Call[r], s) = [s EXCEPT !.owners = o, !.threshold = t]
    <3>1. CASE Call[r].fn = "addOwner"
      BY <3>1, Zenon DEF Modified
    <3>2. CASE Call[r].fn = "removeOwner"
      BY <3>2, Zenon DEF Modified
    <3> QED
      BY <1>1, <3>1, <3>2
  <2>2. Modified(Call[r], s).nonce = s.nonce
    BY <2>1 DEF StatusRows
  <2>3. "owners" \in FieldsOf[Call[r].fn] /\ "threshold" \in FieldsOf[Call[r].fn]
    BY <1>1 DEF FieldsOf
  <2> QED
    BY <2>2, <2>3 DEF At
<1>3. CASE Call[r].fn = "swapOwner"
  BY <1>3 DEF At, Modified, FieldsOf, StatusRows
<1>4. CASE Call[r].fn = "changeThreshold"
  BY <1>4 DEF At, Modified, FieldsOf, StatusRows
<1>5. CASE Call[r].fn = "execTransaction"
  BY <1>5 DEF At, Modified, FieldsOf, StatusRows
<1> QED
  BY <1>1, <1>3, <1>4, <1>5, RowFacts DEF FunctionNames

LEMMA ProcessRowInvariant ==
  ASSUME IInv, TypeInv', Setting, ProcessRow
  PROVE  IInv'
<1> USE DEF IInv
<1> DEFINE r == NextRow
           c == Call[r]
           s == LastSafeStatus
           rows == Processed \cup Done
           base == Replay(rows)
<1>1. /\ run.pc = "process" /\ run.todo # {}
      /\ UNCHANGED <<decoded, statuses, last, upsets>>
      /\ run' = [run EXCEPT !.todo = @ \ {r}]
  BY ProcessRowCases
<1>2. r \in run.todo /\ r \in Row /\ \A p \in run.todo : r <= p
  BY <1>1, NextRowIsLeast DEF TypeInv
<1>3. /\ run'.pc = "process" /\ run'.batch = run.batch /\ run'.gone = run.gone
      /\ run'.todo = run.todo \ {r} /\ run.todo \subseteq run.batch
      /\ run.batch \subseteq Row
  BY <1>1 DEF TypeInv, TypeOK
<1>4. Done' = Done \cup {r} /\ Kept' = Kept /\ r \in run.batch
  BY <1>2, <1>3 DEF Done, Kept
<1>5. BatchOK'
  <2>1. Before(Done, run.todo)
    BY <1>1 DEF BatchOK
  <2>2. Before(Done \cup {r}, run.todo \ {r})
    BY <1>2, <1>3, <2>1 DEF Before, Row
  <2> QED
    BY <1>1, <1>3, <1>4, <2>2, TablesKept DEF BatchOK
<1>6. Repaired'
  BY <1>1, <1>3, TablesKept DEF Repaired
<1>7. NoncesGrow /\ EventsOnly
  BY DEF Setting
<1>8. ASSUME tx'.last # NoStatus,
             tx'.last # tx.last => \/ SeenLast = NoStatus /\ tx'.last = GetOrGenerate
                                   \/ tx'.last.row = r
      PROVE  tx'.last.row \in run.batch \cup run.gone \/ Newest(statuses, tx'.last)
  <2>1. CASE tx'.last = tx.last
    BY <1>1, <1>8, <2>1 DEF InFlight
  <2>2. CASE tx'.last.row = r
    BY <1>4, <2>2
  <2>3. CASE SeenLast = NoStatus /\ tx'.last = GetOrGenerate
    <3>1. tx.last = NoStatus
      BY <2>3 DEF SeenLast
    <3>2. GetOrGenerate = Shown(statuses, last)
      BY <3>1, ReadType
    <3>3. Newest(statuses, Shown(statuses, last))
      <4>1. Processed \in SUBSET Row
        BY Queue DEF TypeInv
      <4> QED
        BY <1>7, <4>1, ShownIsReplay DEF Committed
    <3> QED
      BY <2>3, <3>2, <3>3
  <2> QED
    BY <1>8, <2>1, <2>2, <2>3
(* Some of the batch is still there.                                       *)
<1>9. ASSUME Kept # {}
      PROVE  /\ rows \in SUBSET Row /\ Before(rows, {r})
             /\ Hist(Seen, rows) /\ Newest(Seen, SeenLast)
             /\ Newest(Seen, GetOrGenerate)
             /\ Config(GetOrGenerate) = base
             /\ base \in Configs \cup {NoStatus}
             /\ s = GetOrGenerate
             /\ tx.cache # NoStatus => tx.cache = tx.last
             /\ Replay(rows \cup {r}) = Apply(c, base)
             /\ Processed' \cup Done' = rows \cup {r}
  <2>1. rows \in SUBSET Row
    BY <1>3, Queue DEF Done, TypeInv
  <2>2. PICK k \in Kept : k \in Pending /\ k \in Row /\ k \in run.batch
    BY <1>1, <1>3, <1>9 DEF BatchOK, Kept
  <2>3. k <= r \/ r \in Kept
    <3>1. CASE r \in run.gone
      <4>1. Timestamp[k] < Timestamp[r]
        BY <1>1, <2>2, <3>1 DEF BatchOK
      <4>2. k < r
        BY <1>2, <2>2, <4>1, RowFacts
      <4> QED
        BY <1>2, <2>2, <4>2 DEF Row
    <3>2. CASE r \notin run.gone
      BY <1>4, <3>2 DEF Kept
    <3> QED
      BY <3>1, <3>2
  <2>4. \A q \in Processed : q < r
    <3> SUFFICES ASSUME NEW q \in Processed PROVE q < r
      OBVIOUS
    <3>1. q \in Row
      BY <2>1
    <3>2. CASE r \in Kept
      BY <1>1, <3>2 DEF Repaired, Before, BatchOK
    <3>3. CASE k <= r
      <4>1. q < k
        BY <1>1, <2>2 DEF Repaired, Before
      <4> QED
        BY <1>2, <2>2, <3>1, <3>3, <4>1 DEF Row
    <3> QED
      BY <2>3, <3>2, <3>3
  <2>5. Before(rows, {r})
    BY <1>1, <1>2, <2>4 DEF Before, BatchOK
  <2>6. Hist(Seen, rows) /\ Newest(Seen, SeenLast)
        /\ (tx.cache # NoStatus => tx.cache = tx.last)
    BY <1>1, <1>9 DEF InFlight
  <2>7. GetOrGenerate = Shown(Seen, SeenLast)
    BY ReadType
  <2>8. /\ Config(GetOrGenerate) = base /\ Newest(Seen, GetOrGenerate)
        /\ base \in Configs \cup {NoStatus}
    <3> HIDE DEF rows
    <3> QED
      BY <1>7, <2>1, <2>6, <2>7, ShownIsReplay
  <2>9. s = GetOrGenerate
    BY <2>6 DEF LastSafeStatus, GetOrGenerate, SeenLast
  <2>10. Replay(rows \cup {r}) = Apply(c, base)
    <3> HIDE DEF rows
    <3> QED
      BY <1>2, <2>1, <2>5, ReplayExtend
  <2>11. Processed' \cup Done' = rows \cup {r}
    BY <1>1, <1>4, TablesKept
  <2> QED
    BY <2>1, <2>5, <2>6, <2>8, <2>9, <2>10, <2>11
<1>10. ASSUME tx'.last # NoStatus =>
                tx'.last.row \in run.batch \cup run.gone \/ Newest(statuses, tx'.last),
              Kept # {} => /\ Hist(Seen', rows \cup {r}) /\ Newest(Seen', SeenLast')
                           /\ tx'.cache # NoStatus => tx'.cache = tx'.last
       PROVE  IInv'
  <2>1. Newest(statuses, tx'.last) => Newest(statuses', tx'.last)
    BY <1>1
  <2>2. InFlight'
    BY <1>1, <1>3, <1>4, <1>9, <1>10 DEF InFlight
  <2> QED
    BY <1>1, <1>5, <1>6, <2>2, TablesKept
<1> HIDE DEF rows, base
(* No status is written for r: what was seen is seen.                      *)
<1>11. ASSUME tx'.new = tx.new,
              tx'.last = tx.last \/ tx'.last = LastOnceRead,
              tx'.cache = tx.cache,
              Kept # {} => Apply(c, base) = base
       PROVE  IInv'
  <2>1. Seen' = Seen
    BY <1>1, <1>11 DEF Seen, SeenStatus
  <2>2. \/ tx'.last = tx.last
        \/ SeenLast = NoStatus /\ tx'.last = GetOrGenerate
    BY <1>11 DEF LastOnceRead
  <2>3. \/ SeenLast' = SeenLast
        \/ SeenLast = NoStatus /\ SeenLast' = GetOrGenerate
    BY <1>1, <2>2 DEF SeenLast
  <2>4. ASSUME Kept # {}
        PROVE  /\ Hist(Seen', rows \cup {r}) /\ Newest(Seen', SeenLast')
               /\ tx'.cache # NoStatus => tx'.cache = tx'.last
    <3>1. Newest(Seen, SeenLast')
      BY <1>9, <2>3, <2>4
    <3>2. Hist(Seen, rows \cup {r})
      <4>1. /\ rows \in SUBSET Row /\ Hist(Seen, rows) /\ Before(rows, {r})
            /\ Replay(rows \cup {r}) = Replay(rows)
        BY <1>9, <1>11, <2>4 DEF base
      <4>2. Seen[r] = NoStatus
        BY <1>2, <4>1 DEF Hist, Before, Row
      <4> QED
        BY <1>2, <4>1, <4>2, HistExtend
    <3>3. tx'.cache # NoStatus => tx'.cache = tx'.last
      BY <1>9, <1>11, <2>2, <2>4 DEF SeenLast
    <3> QED
      BY <2>1, <3>1, <3>2, <3>3
  <2> QED
    BY <1>8, <1>10, <2>2, <2>4
<1>12. CASE /\ \/ c.fn = "setup"
               \/ s # NoStatus /\ c.fn # "approveHash" /\ ~ OwnerCannotBeRemoved(c, s)
            /\ StoreNewSafeStatus(r, At(r, Modified(c, s)))
  <2> DEFINE v == At(r, Modified(c, s))
  <2>0. s \in StatusRows \cup {NoStatus} /\ (s # NoStatus => GetOrGenerate # NoStatus)
    BY ReadType
  <2>1. /\ v \in StatusRows /\ v # NoStatus /\ v.row = r
        /\ Config(v) = IF c.fn = "setup" THEN Modified(c, s) ELSE Modified(c, Config(s))
    BY <1>2, <1>12, <2>0, NewStatus
  <2>2. \/ c.fn = "setup"
        \/ c.fn # "approveHash" /\ GetOrGenerate # NoStatus
    BY <1>12, <2>0
  <2>3. c.fn # "setup" => /\ "owners" \notin FieldsOf[c.fn] => v.owners = s.owners
                          /\ "threshold" \notin FieldsOf[c.fn] =>
                               v.threshold = s.threshold
                          /\ "nonce" \notin FieldsOf[c.fn] => v.nonce = s.nonce
    BY <1>2, <1>12, <2>0, UntouchedFields
  <2>4. c.fn = "setup" => {"owners", "threshold", "nonce"} \subseteq FieldsOf[c.fn]
    BY DEF FieldsOf
  <2>5. Kept # {} => Config(v) = Apply(c, base)
    <3> SUFFICES ASSUME Kept # {} PROVE Config(v) = Apply(c, base)
      OBVIOUS
    <3>1. CASE c.fn = "setup"
      <4>1. Modified(c, s) = Modified(c, base)
        BY <3>1 DEF Modified
      <4> QED
        BY <2>1, <3>1, <4>1 DEF Apply
    <3>2. CASE c.fn # "setup"
      <4>1. s \in StatusRows /\ s # NoStatus /\ base = Config(s)
            /\ ~ OwnerCannotBeRemoved(c, s)
        BY <1>9, <1>12, <2>0, <3>2
      <4>2. base # NoStatus /\ ~ OwnerCannotBeRemoved(c, base)
        BY <1>2, <4>1, ConfigType, ModifiedConfig
      <4> QED
        BY <2>1, <3>2, <4>1, <4>2 DEF Apply
    <3> QED
      BY <3>1, <3>2
  <2> HIDE DEF v
  <2>6. /\ tx'.cache = v /\ tx'.new = [tx.new EXCEPT ![r] = v]
        /\ tx'.last \in StatusRows /\ tx'.last # NoStatus /\ tx'.last.row = r
        /\ c.fn # "setup" =>
             /\ "owners" \notin FieldsOf[c.fn] => tx'.last.owners = GetOrGenerate.owners
             /\ "threshold" \notin FieldsOf[c.fn] =>
                  tx'.last.threshold = GetOrGenerate.threshold
             /\ "nonce" \notin FieldsOf[c.fn] => tx'.last.nonce = GetOrGenerate.nonce
        /\ "owners" \in FieldsOf[c.fn] => tx'.last.owners = v.owners
        /\ "threshold" \in FieldsOf[c.fn] => tx'.last.threshold = v.threshold
        /\ "nonce" \in FieldsOf[c.fn] => tx'.last.nonce = v.nonce
    BY <1>2, <1>12, <2>1, <2>2, StoredObject DEF v
  <2>7. ASSUME Kept # {}
        PROVE  /\ Hist(Seen', rows \cup {r}) /\ Newest(Seen', SeenLast')
               /\ tx'.cache # NoStatus => tx'.cache = tx'.last
    <3>1. tx'.last = v
      <4>1. s = GetOrGenerate
        BY <1>9, <2>7
      <4>2. tx'.last.owners = v.owners
        BY <2>3, <2>4, <2>6, <4>1
      <4>3. tx'.last.threshold = v.threshold
        BY <2>3, <2>4, <2>6, <4>1
      <4>4. tx'.last.nonce = v.nonce
        BY <2>3, <2>4, <2>6, <4>1
      <4> QED
        BY <2>1, <2>6, <4>2, <4>3, <4>4 DEF StatusRows
    <3>2. tx.new \in [Row -> StatusRows \cup {NoStatus}]
      BY DEF TypeInv, TypeOK
    <3>3. /\ \A q \in Row : q # r => Seen'[q] = Seen[q]
          /\ Seen'[r] = v
      BY <1>1, <1>2, <2>1, <2>6, <3>2 DEF Seen, SeenStatus
    <3>4. /\ rows \in SUBSET Row /\ Hist(Seen, rows) /\ Before(rows, {r})
          /\ Config(v) = Replay(rows \cup {r})
      BY <1>9, <2>5, <2>7
    <3>5. /\ Hist(Seen', rows \cup {r})
          /\ \A q \in Row : q >= r => Seen[q] = NoStatus
      BY <1>2, <2>1, <3>3, <3>4, HistExtend
    <3>6. SeenLast' = v
      BY <2>6, <3>1 DEF SeenLast
    <3>7. Newest(Seen', v)
      BY <1>2, <2>1, <3>3, <3>5 DEF Newest, Row
    <3> QED
      BY <2>6, <3>1, <3>5, <3>6, <3>7
  <2> QED
    BY <1>8, <1>10, <2>6, <2>7
<1>13. CASE c.fn # "setup" /\ s = NoStatus /\ tx' = tx
  <2>1. Kept # {} => Apply(c, base) = base
    BY <1>9, <1>13 DEF Apply, Config
  <2> QED
    BY <1>11, <1>13, <2>1
<1>14. CASE c.fn = "approveHash" /\ s # NoStatus /\ tx' = [tx EXCEPT !.last = LastOnceRead]
  <2>1. Kept # {} => Apply(c, base) = base
    BY <1>14 DEF Apply, Modified, OwnerCannotBeRemoved
  <2>2. tx'.new = tx.new /\ tx'.cache = tx.cache /\ tx'.last = LastOnceRead
    BY <1>14 DEF TypeInv, TypeOK
  <2> QED
    BY <1>11, <2>1, <2>2
<1>15. CASE s # NoStatus /\ OwnerCannotBeRemoved(c, s) /\ LeaveHalfModified(r, s)
  <2>1. c.fn \in {"removeOwner", "swapOwner"}
    BY <1>15 DEF OwnerCannotBeRemoved
  <2>2. s \in StatusRows
    BY <1>15, ReadType
  <2>3. Kept # {} => Apply(c, base) = base
    <3> SUFFICES ASSUME Kept # {} PROVE Apply(c, base) = base
      OBVIOUS
    <3>1. base = Config(s) /\ base # NoStatus
      BY <1>9, <1>15, <2>2, ConfigType
    <3>2. OwnerCannotBeRemoved(c, base)
      BY <1>2, <1>15, <2>2, <3>1, ModifiedConfig
    <3> QED
      BY <2>1, <3>1, <3>2 DEF Apply
  <2>4. tx'.new = tx.new /\ tx'.last = LastOnceRead
        /\ tx'.cache = IF tx.cache = NoStatus \/ c.fn = "swapOwner" THEN tx.cache
                       ELSE [tx.cache EXCEPT !.threshold = ThresholdOr(c, s)]
    BY <1>15 DEF LeaveHalfModified, TypeInv, TypeOK
  <2>5. tx'.cache = tx.cache
    <3> SUFFICES ASSUME tx.cache # NoStatus, c.fn = "removeOwner"
                 PROVE  [tx.cache EXCEPT !.threshold = ThresholdOr(c, s)] = tx.cache
      BY <2>1, <2>4
    <3>1. s = tx.cache
      BY DEF LastSafeStatus
    <3>2. ThresholdOr(c, s) = s.threshold
      BY <1>2, <1>7 DEF ThresholdOr, EventsOnly
    <3>3. tx.cache \in StatusRows
      BY <2>2, <3>1
    <3> QED
      BY <3>1, <3>2, <3>3 DEF StatusRows
  <2> QED
    BY <1>11, <2>3, <2>4, <2>5
<1> QED
  BY <1>12, <1>13, <1>14, <1>15, ProcessRowCases

LEMMA CommitInvariant ==
  ASSUME IInv, TypeInv', CommitBatch
  PROVE  IInv'
<1> USE DEF IInv
<1>1. /\ run.pc = "process" /\ run.todo = {} /\ tx' = NoTx
      /\ IF Referenced \cap run.gone = {}
         THEN /\ decoded' = [r \in Row |-> IF r \in Kept THEN "processed" ELSE decoded[r]]
              /\ statuses' = Seen /\ last' = SeenLast
              /\ run' = [run EXCEPT !.pc = "fetch", !.batch = {}, !.gone = {}]
         ELSE run' = IdleRun /\ UNCHANGED <<decoded, statuses, last>>
  BY DEF CommitBatch, Seen, Kept
<1>2. CASE run' = IdleRun /\ UNCHANGED <<decoded, statuses, last>>
  <2>1. Repaired' /\ BatchOK' /\ InFlight'
    BY <1>1, <1>2 DEF Repaired, BatchOK, InFlight, IdleRun
  <2> QED
    BY <1>2, <2>1, TablesKept
<1>3. CASE Referenced \cap run.gone = {}
  <2>1. /\ decoded' = [r \in Row |-> IF r \in Kept THEN "processed" ELSE decoded[r]]
        /\ statuses' = Seen /\ last' = SeenLast
        /\ run' = [run EXCEPT !.pc = "fetch", !.batch = {}, !.gone = {}]
    BY <1>1, <1>3
  <2>0. run'.pc = "fetch" /\ run'.batch = {}
    BY <2>1 DEF TypeInv, TypeOK
  <2>2. Kept \subseteq Pending /\ Kept \subseteq run.batch /\ run.batch \subseteq Row
        /\ Done = run.batch
    BY <1>1 DEF BatchOK, Kept, Done, TypeInv, TypeOK
  <2>3. /\ Processed' = Processed \cup Kept /\ Pending' = Pending \ Kept
        /\ Present' = Present
    BY <2>1, <2>2, Queue DEF TypeInv, Pending, Processed, Present
  <2>4. Before(Processed, Pending)
    BY <1>1 DEF Repaired
  <2>5. Before(Kept, Pending \ Kept)
    <3> SUFFICES ASSUME NEW k \in Kept, NEW p \in Pending \ Kept PROVE k < p
      BY DEF Before
    <3>1. CASE p \in run.batch
      <4>1. p \in run.gone
        BY <3>1 DEF Kept
      <4>2. Timestamp[k] < Timestamp[p]
        BY <1>1, <4>1 DEF BatchOK
      <4> QED
        BY <2>2, <3>1, <4>2, RowFacts
    <3>2. CASE p \notin run.batch
      BY <1>1, <3>2 DEF BatchOK, Before
    <3> QED
      BY <3>1, <3>2
  <2>6. Before(Processed', Pending')
    BY <2>3, <2>4, <2>5 DEF Before
  <2>7. WholeBlocks'
    BY <2>3 DEF WholeBlocks
  <2>8. BlocksInOrder'
    BY <2>6 DEF BlocksInOrder, Before
  <2>9. Repaired' /\ BatchOK' /\ InFlight'
    BY <2>0, <2>6 DEF Repaired, BatchOK, InFlight
  <2>10. CASE Kept # {}
    <3>1. Hist(Seen, Processed \cup run.batch) /\ Newest(Seen, SeenLast)
      BY <1>1, <2>2, <2>10 DEF InFlight
    <3>2. PICK k \in Kept : k \in Row /\ k \in Pending
      BY <2>2, <2>10
    <3>3. \A g \in run.batch \ Kept : k < g /\ \A q \in Kept : q < g
      <4> SUFFICES ASSUME NEW g \in run.batch \ Kept, NEW q \in Kept
                   PROVE  q < g
        BY <3>2
      <4>1. g \in run.gone
        BY DEF Kept
      <4>2. Timestamp[q] < Timestamp[g]
        BY <1>1, <4>1 DEF BatchOK
      <4> QED
        BY <2>2, <4>2, RowFacts
    <3>4. \A q \in Processed : q < k
      BY <2>4, <3>2 DEF Before
    <3>5. \A q \in Processed, g \in run.batch \ Kept : q < g
      <4> SUFFICES ASSUME NEW q \in Processed, NEW g \in run.batch \ Kept PROVE q < g
        OBVIOUS
      <4>1. q \in Row /\ g \in Row
        BY <2>2, Queue DEF TypeInv
      <4> QED
        BY <3>2, <3>3, <3>4, <4>1 DEF Row
    <3>6. \A g \in Row : g \in run.batch \ Kept /\ g \notin Processed => Seen[g] = NoStatus
      <4> SUFFICES ASSUME NEW g \in Row, g \in run.batch \ Kept, g \notin Processed
                   PROVE  Seen[g] = NoStatus
        OBVIOUS
      <4>1. g \in run.gone
        BY DEF Kept
      <4>2. tx.new[g] = NoStatus
        BY <1>3, <4>1 DEF Referenced, StoredRows
      <4>3. statuses[g] = NoStatus
        BY DEF Committed, Hist
      <4> QED
        BY <4>2, <4>3 DEF Seen, SeenStatus
    <3>7. Hist(Seen, Processed \cup Kept)
      <4>1. Before(Processed \cup Kept,
                   (Processed \cup run.batch) \ (Processed \cup Kept))
        BY <3>3, <3>5 DEF Before
      <4>2. /\ Processed \cup run.batch \in SUBSET Row
            /\ Processed \cup Kept \in SUBSET (Processed \cup run.batch)
        BY <2>2, Queue DEF TypeInv
      <4> QED
        BY <3>1, <3>6, <4>1, <4>2, HistCut
    <3>8. Committed'
      BY <2>1, <2>3, <3>1, <3>7 DEF Committed
    <3> QED
      BY <2>7, <2>8, <2>9, <3>8
  <2>11. CASE Kept = {}
    <3>1. run.batch \subseteq run.gone
      BY <2>11 DEF Kept
    <3>2. StoredRows = {}
      <4>1. StoredRows \subseteq run.batch
        BY DEF TypeInv, TypeOK
      <4> QED
        BY <1>3, <3>1, <4>1 DEF Referenced
    <3>3. Seen = statuses
      <4>1. Seen = [r \in Row |-> statuses[r]]
        BY <3>2 DEF StoredRows, Seen, SeenStatus
      <4> QED
        BY <4>1 DEF TypeInv, TypeOK
    <3>4. tx.last # NoStatus => Newest(statuses, tx.last)
      <4>1. tx.last # NoStatus => tx.last.row \notin run.gone
        BY <1>3 DEF Referenced
      <4> QED
        BY <1>1, <3>1, <4>1 DEF InFlight
    <3>5. Newest(statuses, SeenLast)
      BY <3>4 DEF SeenLast, Committed
    <3>6. Processed' = Processed
      BY <2>3, <2>11
    <3>7. Committed'
      BY <2>1, <3>3, <3>5, <3>6 DEF Committed
    <3> QED
      BY <2>7, <2>8, <2>9, <3>7
  <2> QED
    BY <2>10, <2>11
<1> QED
  BY <1>1, <1>2, <1>3

-----------------------------------------------------------------------------
LEMMA InvariantStep ==
  ASSUME IInv, Setting, [Next]_vars
  PROVE  IInv'
<1>1. TypeInv'
  BY TypeStep DEF IInv
<1>2. CASE UNCHANGED vars
  <2>1. UNCHANGED <<decoded, statuses, last, run, tx, upsets>>
    BY <1>2 DEF vars
  <2>2. Repaired' /\ BatchOK' /\ InFlight'
    <3>1. Kept' = Kept /\ Done' = Done /\ Seen' = Seen /\ SeenLast' = SeenLast
      BY <2>1 DEF Kept, Done, Seen, SeenStatus, SeenLast
    <3> QED
      BY <2>1, <3>1, TablesKept DEF IInv, Repaired, BatchOK, InFlight
  <2> QED
    BY <1>1, <2>1, <2>2, TablesKept DEF IInv
<1>3. CASE \E rows \in SUBSET Row : StoreRows(rows)
  BY <1>1, <1>3, StoreRowsInvariant
<1>4. CASE \E r \in Row : DeleteRows(Timestamp[r])
  BY <1>1, <1>4, DeleteRowsInvariant, RowFacts
<1> QED
  BY <1>1, <1>2, <1>3, <1>4, ReprocessInvariant, StartRunInvariant, CheckInvariant,
     FixInvariant, FetchInvariant, ProcessRowInvariant, CommitInvariant,
     RunFailsInvariant DEF Next, ProcessingStep

LEMMA Invariant ==
  ASSUME Setting
  PROVE  Spec => []IInv
<1>1. Init => IInv
  BY InitInvariant
<1>2. IInv /\ [Next]_vars => IInv'
  BY InvariantStep
<1> QED
  BY <1>1, <1>2, PTL DEF Spec

LEMMA CurrentIsReplay ==
  ASSUME IInv, Setting
  PROVE  Config(Current) = Replay(Processed)
<1>1. Processed \in SUBSET Row
  BY Queue DEF IInv, TypeInv
<1>2. Current = Shown(statuses, last)
  BY DEF Current, Shown
<1> QED
  BY <1>1, <1>2, ShownIsReplay DEF IInv, Committed, Setting

(* Each status of a Safe is what its processed calls up to then make, and  *)
(* the two tables agree: recoveries, repairs, reprocessings and failures   *)
(* at any moment leave no status behind that other calls had made.         *)
THEOREM HistoryIsAlwaysReplay ==
  ASSUME Setting
  PROVE  Spec => []HistoryIsReplay
<1>1. IInv => HistoryIsReplay
  <2> SUFFICES ASSUME IInv PROVE HistoryIsReplay
    OBVIOUS
  <2>1. \A r \in Row : UpTo(Processed, r) = {q \in Processed : q <= r}
    BY Queue DEF UpTo, Row, IInv, TypeInv
  <2>2. LastIsItsStatus
    BY DEF IInv, Committed, Newest, LastIsItsStatus
  <2> QED
    BY <2>1, <2>2 DEF IInv, Committed, Hist, HistoryIsReplay
<1> QED
  BY <1>1, Invariant, PTL

(* With nothing left to process, the status on show is the replay of every *)
(* call there is, in whatever order the indexer stored them.               *)
THEOREM SettledIsAlwaysReplay ==
  ASSUME Setting
  PROVE  Spec => []SettledIsReplay
<1>1. IInv => SettledIsReplay
  BY CurrentIsReplay DEF SettledIsReplay, Present
<1> QED
  BY <1>1, Invariant, PTL

-----------------------------------------------------------------------------
(* The refinement: what a step does to the processed rows.                 *)
LEMMA LedgerStep ==
  ASSUME IInv, Setting, [Next]_vars
  PROVE  \/ Processed' = Processed
         \/ \E rows \in SUBSET Row : /\ \A r \in rows, q \in Processed : q < r
                                     /\ Processed' = Processed \cup rows
         \/ \E r \in Row : Processed' = {q \in Processed : Timestamp[q] < Timestamp[r]}
<1>0. /\ Processed \in SUBSET Row /\ \A r \in Row : Timestamp[r] \in Nat
      /\ TypeOK
  BY Queue, RowFacts DEF IInv, TypeInv
<1>1. CASE UNCHANGED decoded
  BY <1>1 DEF Processed
<1>2. ASSUME NEW rows \in SUBSET Row, StoreRows(rows)
      PROVE  Processed' = Processed
  BY <1>2, Queue, <1>0 DEF StoreRows, Processed, Present
<1>3. ASSUME NEW r \in Row, DeleteRows(Timestamp[r])
      PROVE  Processed' = {q \in Processed : Timestamp[q] < Timestamp[r]}
  <2>1. decoded' = [q \in Row |-> IF q \in Present /\ Timestamp[q] >= Timestamp[r]
                                 THEN "absent" ELSE decoded[q]]
    BY <1>3 DEF DeleteRows
  <2> QED
    BY <1>0, <2>1 DEF Processed, Present
<1>4. ASSUME Reprocess
      PROVE  Processed' = {q \in Processed : Timestamp[q] < Timestamp[1]}
  <2>1. Processed' = {}
    BY <1>4 DEF Reprocess, Processed
  <2>2. \A q \in Row : ~ (Timestamp[q] < Timestamp[1])
    BY <1>0, RowFacts DEF Row
  <2> QED
    BY <1>0, <2>1, <2>2
<1>5. ASSUME FixOutOfOrder
      PROVE  /\ run.fixFrom \in Row
             /\ Processed' = {q \in Processed : Timestamp[q] < Timestamp[run.fixFrom]}
  <2>1. /\ run.pc = "fix"
        /\ decoded' = [q \in Row |->
                         IF q \in Present /\ Timestamp[q] >= Timestamp[run.fixFrom]
                         THEN "pending" ELSE decoded[q]]
    BY <1>5 DEF FixOutOfOrder
  <2>2. run.fixFrom \in Row
    BY <2>1 DEF IInv, Repaired
  <2> QED
    BY <1>0, <2>1, <2>2 DEF Processed, Present
<1>6. ASSUME CommitBatch, ~ UNCHANGED decoded
      PROVE  /\ Kept \in SUBSET Row /\ \A r \in Kept, q \in Processed : q < r
             /\ Processed' = Processed \cup Kept
  <2>1. /\ run.pc = "process"
        /\ decoded' = [r \in Row |-> IF r \in Kept THEN "processed" ELSE decoded[r]]
    BY <1>6 DEF CommitBatch, Kept
  <2>2. Kept \subseteq Pending /\ Before(Processed, Pending) /\ Pending \subseteq Row
    BY <1>0, <2>1, Queue DEF IInv, BatchOK, Repaired
  <2>3. Processed' = Processed \cup Kept
    BY <1>0, <2>1, <2>2 DEF Processed
  <2> QED
    BY <2>2, <2>3 DEF Before
<1>7. 1 \in Row
  BY RowFacts DEF Row
<1>8. CASE StartRun \/ CheckOutOfOrder \/ FetchBatch \/ ProcessRow \/ RunFails
           \/ UNCHANGED vars
  BY <1>1, <1>8 DEF StartRun, CheckOutOfOrder, FetchBatch, ProcessRow, RunFails, vars
<1> QED
  BY <1>1, <1>2, <1>3, <1>4, <1>5, <1>6, <1>7, <1>8 DEF Next, ProcessingStep

LEMMA SameReplay ==
  ASSUME NEW rows
  PROVE  Ledger!Replay(rows) = Replay(rows)
BY DEF Ledger!Replay, Replay, Ledger!Apply, Apply, Ledger!Modified, Modified,
       Ledger!OwnerCannotBeRemoved, OwnerCannotBeRemoved, Ledger!ThresholdOr,
       ThresholdOr, Ledger!Contains, Contains, Ledger!RemoveFirst, RemoveFirst,
       Ledger!RemoveAt, RemoveAt, Ledger!ReplaceAll, ReplaceAll,
       Ledger!SelectInSeq, SelectInSeq, Ledger!Min, Min

(* The processing implements the ledger: at every moment the status on     *)
(* show is the replay of the calls applied, calls are only applied after   *)
(* the ones before them, and otherwise the ledger is cut back to a moment. *)
THEOREM ProcessingImplementsLedger ==
  ASSUME Setting
  PROVE  Spec => ImplementsLedger
<1>1. Init => Ledger!Init
  <2> SUFFICES ASSUME Init PROVE Ledger!Init
    OBVIOUS
  <2>1. Processed = {}
    BY DEF Init, Processed
  <2>2. IInv
    BY InitInvariant
  <2>3. Config(Current) = Replay({})
    BY <2>1, <2>2, CurrentIsReplay
  <2>4. Replay({}) = NoStatus
    <3>1. UpTo({}, 0) = {}
      BY DEF UpTo
    <3> QED
      BY <3>1, ReplayStep
  <2> QED
    BY <2>1, <2>3, <2>4 DEF Ledger!Init
<1>2. IInv => Config(Current) = Replay(Processed)
  BY CurrentIsReplay
<1>3. IInv' => (Config(Current) = Replay(Processed))'
  BY <1>2, PTL
<1>4. IInv /\ IInv' /\ [Next]_vars
        => [Ledger!Next]_<<Processed, Config(Current)>>
  <2> SUFFICES ASSUME IInv, IInv', [Next]_vars
               PROVE  [Ledger!Next]_<<Processed, Config(Current)>>
    OBVIOUS
  <2>1. Config(Current) = Replay(Processed)
    BY <1>2
  <2>2. Config(Current)' = Ledger!Replay(Processed')
    BY <1>3, SameReplay
  <2>3. CASE Processed' = Processed
    BY <2>1, <2>2, <2>3, SameReplay
  <2>4. CASE \E rows \in SUBSET Row : /\ \A r \in rows, q \in Processed : q < r
                                      /\ Processed' = Processed \cup rows
    BY <2>2, <2>4 DEF Ledger!Next, Ledger!Extend, Ledger!Row, Row
  <2>5. CASE \E r \in Row :
               Processed' = {q \in Processed : Timestamp[q] < Timestamp[r]}
    BY <2>2, <2>5 DEF Ledger!Next, Ledger!Cut, Ledger!Row, Row
  <2> QED
    BY <2>3, <2>4, <2>5, LedgerStep
<1> QED
  BY <1>1, <1>4, Invariant, PTL DEF Spec, ImplementsLedger, Ledger!Spec
=============================================================================
