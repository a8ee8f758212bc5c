------------------------- MODULE NativeBalance_proofs -------------------------
(***************************************************************************)
(* RowsAreExact for every fleet, every number of workers, runs and blocks  *)
(* and any number of mishaps of one kind (Setting).                        *)
(*                                                                         *)
(* As long as there is no watermark only chunks make rows, and every chunk *)
(* that lives belongs to the last run, whose block all rows carry          *)
(* (RowsOfLatest).  Two arguments show it, one for each kind of mishap:    *)
(* when no grace period passes over live work, a run lives in one place at *)
(* most, and one that is over lives nowhere (NoDelay); when nothing fails, *)
(* no run ends before there is a watermark, so there is only one (NoFault).*)
(* Afterwards the lock keeps the rows at the watermark.                    *)
(***************************************************************************)
EXTENDS NativeBalance, FiniteSetTheorems, SequenceTheorems, TLAPS

Cursors == {0} \cup {Max(page) : page \in (SUBSET AllSafes) \ {{}}}

Manifest ==
  [head : Block, size : Floor .. ChunkSize, cursor : Cursors,
   state : {"running", "failed", "finished"}, seq : Nat, fresh : BOOLEAN]

ChunkTask ==
  [at : {"loaded", "locked", "advance", "close", "shrink", "fail"},
   run : Nat, m : Manifest]

(* Rows and watermark are of blocks there have been; before there is a     *)
(* watermark a row is as a chunk has made it.                              *)
DbTypes ==
  /\ head \in 0 .. MaxBlock /\ watermark \in 0 .. head
  /\ safes \in SUBSET AllSafes
  /\ row \in [AllSafes -> {NoRow} \cup [Block -> 0 .. 2]]
  /\ Rows \subseteq safes
  /\ watermark = 0 => \A s \in Rows : \E n \in 1 .. head : row[s] = Upto(n)

BoundTypes == faults \in Nat /\ delays \in Nat /\ due \in BOOLEAN

LockTypes ==
  /\ lock \in {"free", "dead", "nightly"} \cup Workers
  /\ lock = "nightly" <=> nightly.at # "idle"
  /\ \A w \in Workers : lock = w <=> chunk[w].at = "locked"

RunTypes ==
  /\ runs \in Seq(Manifest)
  /\ \A r \in 1 .. Len(runs) : runs[r].head <= head

QueueTypes ==
  /\ IsABag(queue)
  /\ DOMAIN queue \subseteq [run : 1 .. Len(runs), seq : Nat]

(* A copy of a manifest that its holder may store.                         *)
CopyOf(r, m) ==
  /\ r \in 1 .. Len(runs) /\ m \in Manifest
  /\ m.state = "running" /\ m.head = runs[r].head

ChunkTypes ==
  /\ chunk \in [Workers -> {Idle} \cup ChunkTask]
  /\ \A w \in Workers :
       chunk[w].at # "idle" => CopyOf(chunk[w].run, chunk[w].m)

(* The nightly task holds the lock, so the watermark it read is the one    *)
(* there is.                                                               *)
NightlyTypes ==
  /\ nightly \in {Idle} \cup [at : {"cold", "fill", "seed", "delta"},
                              head : Block, from : 0 .. MaxBlock]
  /\ nightly.at # "idle" =>
       /\ nightly.head <= head
       /\ nightly.from = watermark /\ watermark <= nightly.head
       /\ nightly.at \in {"cold", "fill"} <=> watermark = 0
  /\ nightly.at = "fill" => Rows = {}

StarterTypes ==
  /\ starter \in {Idle} \cup [at : {"resume"}, run : Nat, m : Manifest]
                        \cup [at : {"start"}, head : Block]
  /\ starter.at = "resume" => CopyOf(starter.run, starter.m)
  /\ starter.at = "start" => starter.head <= head

Types ==
  /\ DbTypes /\ BoundTypes /\ LockTypes /\ RunTypes /\ QueueTypes
  /\ ChunkTypes /\ NightlyTypes /\ StarterTypes

(* The rows there are, with a watermark and without.                       *)
RowsOfWatermark == watermark # 0 => \A s \in Rows \ stray : Exact(s)

RowsOfLatest ==
  watermark = 0 =>
    \A s \in Rows : runs # <<>> /\ row[s] = Upto(runs[Len(runs)].head)

Works(w, r) == chunk[w].at # "idle" /\ chunk[w].run = r

(* A run is in one message, of which there is one copy, or in one worker.  *)
OneLife ==
  /\ \A e \in DOMAIN queue : queue[e] = 1
  /\ \A e, f \in DOMAIN queue : e.run = f.run => e = f
  /\ \A w \in Workers : \A e \in DOMAIN queue : ~Works(w, e.run)
  /\ \A r \in 1 .. Len(runs) : \A v, w \in Workers :
       Works(v, r) /\ Works(w, r) => v = w

(* A run that lives nowhere.                                               *)
Dormant(r) ==
  /\ \A e \in DOMAIN queue : e.run # r
  /\ \A w \in Workers : ~Works(w, r)

OnlyTheLatestLives ==
  \A r \in 1 .. Len(runs) :
    /\ ~runs[r].fresh \/ runs[r].state # "running" => Dormant(r)
    /\ runs[r].state = "running" => r = Len(runs)

StarterIsRight ==
  /\ starter.at = "resume" =>
       /\ starter.run = Len(runs) /\ starter.m = runs[Len(runs)]
       /\ ~starter.m.fresh
  /\ starter.at = "start" =>
       /\ \A r \in 1 .. Len(runs) : runs[r].state # "running"
       /\ watermark = 0 => \A s \in Rows : row[s] = Upto(starter.head)

NoDelay == delays = 0 => OneLife /\ OnlyTheLatestLives /\ StarterIsRight

NoFault ==
  faults = 0 =>
    /\ \A w \in Workers : chunk[w].at \notin {"shrink", "fail"}
    /\ watermark = 0 =>
         /\ \A w \in Workers : chunk[w].at # "close"
         /\ Len(runs) <= 1
         /\ \A r \in 1 .. Len(runs) : runs[r].state = "running"
         /\ starter.at = "start" => runs = <<>>

Inv ==
  /\ Types /\ RowsOfWatermark /\ RowsOfLatest
  /\ NoDelay /\ NoFault /\ (faults = 0 \/ delays = 0)

-----------------------------------------------------------------------------
(***************************************************************************)
(* Operators.                                                              *)
(***************************************************************************)
LEMMA MaxOfTwo ==
  ASSUME NEW a \in Int, NEW b \in Int
  PROVE  Max({a, b}) = IF a >= b THEN a ELSE b
<1> DEFINE m == IF a >= b THEN a ELSE b
<1>1. m \in {a, b} /\ \A x \in {a, b} : x <= m
  OBVIOUS
<1>2. \A y \in {a, b} : (\A x \in {a, b} : x <= y) => y = m
  OBVIOUS
<1> QED BY <1>1, <1>2 DEF Max

LEMMA MinOfTwo ==
  ASSUME NEW a \in Int, NEW b \in Int
  PROVE  Min({a, b}) = IF a <= b THEN a ELSE b
<1> DEFINE m == IF a <= b THEN a ELSE b
<1>1. m \in {a, b} /\ \A x \in {a, b} : m <= x
  OBVIOUS
<1>2. \A y \in {a, b} : (\A x \in {a, b} : y <= x) => y = m
  OBVIOUS
<1> QED BY <1>1, <1>2 DEF Min

LEMMA UptoType ==
  ASSUME NEW n \in Block
  PROVE  Upto(n) \in [Block -> 0 .. 2] /\ Upto(n) # NoRow
<1>1. DOMAIN Upto(n) = Block /\ DOMAIN NoRow = {}
  BY DEF Upto, NoRow
<1> QED BY <1>1 DEF Upto

(* The stamp of a row made at a block is that block.                       *)
LEMMA StampOfUpto ==
  ASSUME NEW n \in Block
  PROVE  Max({0} \cup {b \in Block : Upto(n)[b] > 0}) = n
<1> DEFINE S == {0} \cup {b \in Block : Upto(n)[b] > 0}
<1>1. S = 0 .. n
  BY NativeType DEF Upto, Block
<1>2. n \in S /\ \A x \in S : x <= n
  BY <1>1 DEF Block
<1>3. \A y \in S : (\A x \in S : x <= y) => y = n
  BY <1>1 DEF Block
<1> HIDE DEF S
<1>4. Max(S) = n
  BY <1>2, <1>3 DEF Max
<1> QED BY <1>4 DEF S

(* A bag with one copy less.                                               *)
LEMMA OneLess ==
  ASSUME NEW q, IsABag(q), NEW e \in DOMAIN q
  PROVE  q (-) SetToBag({e}) =
           [d \in {c \in DOMAIN q : c # e \/ q[c] > 1} |->
              IF d = e THEN q[d] - 1 ELSE q[d]]
<1> DEFINE b == [d \in DOMAIN q |-> IF d = e THEN q[d] - 1 ELSE q[d]]
<1>1. DOMAIN SetToBag({e}) = {e} /\ SetToBag({e})[e] = 1
  BY DEF SetToBag
<1>2. \A d \in DOMAIN q : q[d] \in Nat \ {0}
  BY DEF IsABag
<1>3. \A d \in DOMAIN q :
        (IF d \in DOMAIN SetToBag({e}) THEN q[d] - SetToBag({e})[d] ELSE q[d])
        = IF d = e THEN q[d] - 1 ELSE q[d]
  BY <1>1
<1>4. q (-) SetToBag({e}) = [d \in {c \in DOMAIN b : b[c] > 0} |-> b[d]]
  BY <1>3, Zenon DEF (-)
<1>5. {c \in DOMAIN b : b[c] > 0} = {c \in DOMAIN q : c # e \/ q[c] > 1}
  BY <1>2
<1> QED BY <1>4, <1>5, Zenon

(* Rows that are new get the block, the others stay.                       *)
LEMMA SeededRows ==
  ASSUME DbTypes, NEW new \in SUBSET AllSafes, NEW n,
         n \in Block \/ new \subseteq Rows, row' = Seeded(new, n)
  PROVE  /\ row' \in [AllSafes -> {NoRow} \cup [Block -> 0 .. 2]]
         /\ Rows' = Rows \cup new
         /\ \A s \in Rows : row'[s] = row[s]
         /\ \A s \in new \ Rows : row'[s] = Upto(n)
<1>1. \A s \in AllSafes :
        row'[s] = IF s \in new \ Rows THEN Upto(n) ELSE row[s]
  BY DEF Seeded
<1>2. \A s \in new \ Rows : n \in Block
  OBVIOUS
<1>3. \A s \in new \ Rows : /\ row'[s] = Upto(n) /\ row'[s] # NoRow
                            /\ row'[s] \in [Block -> 0 .. 2]
  BY <1>1, <1>2, UptoType
<1>4. \A s \in AllSafes \ (new \ Rows) : row'[s] = row[s]
  BY <1>1
<1>5. \A s \in AllSafes : row'[s] \in {NoRow} \cup [Block -> 0 .. 2]
  BY <1>3, <1>4 DEF DbTypes
<1>6. row' \in [AllSafes -> {NoRow} \cup [Block -> 0 .. 2]]
  BY <1>5 DEF Seeded
<1>7. Rows' = Rows \cup new
  BY <1>3, <1>4 DEF Rows
<1> QED BY <1>3, <1>4, <1>6, <1>7 DEF Rows

LEMMA PagesAreSafes == ASSUME NEW m PROVE Page(m) \subseteq safes
  BY DEF Page

(* The fields of a chunk and of the nightly task that are used everywhere. *)
LEMMA ChunkFields ==
  ASSUME ChunkTypes, NEW w \in Workers, chunk[w].at # "idle"
  PROVE  /\ chunk[w] \in ChunkTask
         /\ chunk[w].run \in 1 .. Len(runs)
         /\ chunk[w].m \in Manifest
         /\ chunk[w].m.state = "running"
         /\ chunk[w].m.head = runs[chunk[w].run].head
  BY DEF ChunkTypes, CopyOf, Idle

LEMMA ChunkIsIdle ==
  ASSUME ChunkTypes, NEW w \in Workers
  PROVE  chunk[w] = Idle <=> chunk[w].at = "idle"
  BY DEF ChunkTypes, ChunkTask, Idle

(* The block a chunk seeds at.                                             *)
LEMMA ChunkHead ==
  ASSUME Types, NEW w \in Workers, chunk[w].at # "idle"
  PROVE  chunk[w].m.head \in Block /\ chunk[w].m.head \in 1 .. head
<1>1. /\ chunk[w].run \in 1 .. Len(runs) /\ chunk[w].m \in Manifest
      /\ chunk[w].m.head = runs[chunk[w].run].head
  BY ChunkFields DEF Types
<1>2. chunk[w].m.head \in Block /\ chunk[w].m.head <= head
  BY <1>1 DEF Types, RunTypes, Manifest
<1> QED BY <1>2, NativeType DEF Types, DbTypes, Block

-----------------------------------------------------------------------------
(***************************************************************************)
(* The types.                                                              *)
(***************************************************************************)
LEMMA InitTypes == Init => Types
<1> SUFFICES ASSUME Init PROVE Types
  OBVIOUS
<1>1. Rows = {}
  BY DEF Init, Rows
<1>2. safes \in SUBSET AllSafes
  BY NativeType DEF Init
<1>3. DbTypes
  BY <1>1, <1>2, NativeType DEF Init, DbTypes
<1>4. IsABag(queue) /\ DOMAIN queue = {}
  BY DEF Init, EmptyBag, SetToBag, IsABag
<1>5. ChunkTypes /\ NightlyTypes /\ StarterTypes
  BY <1>1 DEF Init, ChunkTypes, NightlyTypes, StarterTypes, Idle
<1>6. LockTypes /\ BoundTypes
  BY NativeType DEF Init, LockTypes, BoundTypes, Idle
<1>7. RunTypes
  BY DEF Init, RunTypes
<1> QED BY <1>3, <1>4, <1>5, <1>6, <1>7 DEF Types, QueueTypes

(* Rows that a chunk makes are of a block there has been.                  *)
LEMMA DbAfterSeeding ==
  ASSUME Types, NEW new \in SUBSET safes, NEW n,
         n \in 1 .. head \/ new \subseteq Rows, row' = Seeded(new, n),
         UNCHANGED <<head, safes, watermark>>
  PROVE  DbTypes'
<1>1. n \in Block \/ new \subseteq Rows
  BY NativeType DEF Types, DbTypes, Block
<1>2. new \in SUBSET AllSafes /\ DbTypes
  BY DEF Types, DbTypes
<1>3. /\ row' \in [AllSafes -> {NoRow} \cup [Block -> 0 .. 2]]
      /\ Rows' = Rows \cup new
      /\ \A s \in Rows : row'[s] = row[s]
      /\ \A s \in new \ Rows : row'[s] = Upto(n)
  BY <1>1, <1>2, SeededRows
<1>4. ASSUME watermark' = 0, NEW s \in Rows'
      PROVE  \E k \in 1 .. head : row'[s] = Upto(k)
  <2>1. CASE s \in Rows
    BY <1>2, <1>3, <1>4, <2>1 DEF DbTypes
  <2>2. CASE s \notin Rows
    <3>1. s \in new \ Rows /\ n \in 1 .. head
      BY <1>3, <1>4, <2>2
    <3> QED BY <1>3, <3>1
  <2> QED BY <2>1, <2>2
<1>5. UNCHANGED <<head, safes, watermark>> /\ Block' = Block
  BY DEF Block
<1>6. Rows' \subseteq safes
  BY <1>2, <1>3 DEF DbTypes
<1>7. watermark' = 0 => \A s \in Rows' : \E k \in 1 .. head : row'[s] = Upto(k)
  BY <1>4
<1> QED BY <1>2, <1>3, <1>5, <1>6, <1>7 DEF DbTypes

LEMMA DbIsUnchanged ==
  ASSUME DbTypes, UNCHANGED <<head, safes, row, watermark>>
  PROVE  DbTypes' /\ Rows' = Rows
  BY DEF DbTypes, Rows

(* The delta adds each block once.                                         *)
LEMMA DeltaRows ==
  ASSUME Types, ApplyDelta
  PROVE  /\ row' \in [AllSafes -> {NoRow} \cup [Block -> 0 .. 2]]
         /\ Rows' = Rows
         /\ \A s \in Rows : row[s] = Upto(watermark)
                            => row'[s] = Upto(watermark')
         /\ watermark' = nightly.head /\ watermark' \in 1 .. head
<1> DEFINE new(s) == [b \in Block |->
                        IF b \in nightly.from + 1 .. nightly.head
                          THEN Min({2, row[s][b] + 1}) ELSE row[s][b]]
<1>1. /\ nightly.head \in Block /\ nightly.head <= head
      /\ nightly.from = watermark /\ watermark \in 0 .. nightly.head
  BY DEF ApplyDelta, Types, DbTypes, NightlyTypes, Idle, Block
<1>2. /\ row' = [s \in AllSafes |-> IF s \in Rows THEN new(s) ELSE NoRow]
      /\ watermark' = nightly.head
  BY Zenon DEF ApplyDelta
<1>3. ASSUME NEW s \in Rows PROVE new(s) \in [Block -> 0 .. 2]
  <2>1. row[s] \in [Block -> 0 .. 2]
    BY DEF Types, DbTypes, Rows
  <2>2. ASSUME NEW b \in Block
        PROVE  Min({2, row[s][b] + 1}) \in 0 .. 2
    BY <2>1, MinOfTwo
  <2> QED BY <2>1, <2>2
<1>4. ASSUME NEW s \in Rows PROVE row'[s] = new(s) /\ new(s) # NoRow
  <2>1. row'[s] = new(s)
    BY <1>2 DEF Rows
  <2>2. DOMAIN new(s) = Block /\ DOMAIN NoRow = {}
    BY DEF NoRow
  <2> QED BY <1>1, <2>1, <2>2
<1>5. ASSUME NEW s \in Rows, row[s] = Upto(watermark)
      PROVE  new(s) = Upto(nightly.head)
  <2>1. ASSUME NEW b \in Block
        PROVE  new(s)[b] = Upto(nightly.head)[b]
    <3>1. row[s][b] = IF b <= watermark THEN 1 ELSE 0
      BY <1>5 DEF Upto
    <3>2. row[s][b] = 0 => Min({2, row[s][b] + 1}) = 1
      BY MinOfTwo
    <3>3. new(s)[b] = IF b \in watermark + 1 .. nightly.head
                        THEN Min({2, row[s][b] + 1}) ELSE row[s][b]
      BY <1>1
    <3> HIDE DEF new
    <3>4. b \in Int /\ watermark \in Int /\ nightly.head \in Int
      BY <1>1, NativeType DEF Block
    <3>5. CASE b \in watermark + 1 .. nightly.head
      BY <1>1, <3>1, <3>2, <3>3, <3>4, <3>5 DEF Upto
    <3>6. CASE b \notin watermark + 1 .. nightly.head
      BY <1>1, <3>1, <3>3, <3>4, <3>6 DEF Upto
    <3> QED BY <3>5, <3>6
  <2>2. /\ new(s) = [b \in Block |-> new(s)[b]]
        /\ Upto(nightly.head) = [b \in Block |-> Upto(nightly.head)[b]]
    BY DEF Upto
  <2> HIDE DEF new
  <2> QED BY <2>1, <2>2
<1>6. \A s \in AllSafes \ Rows : row'[s] = NoRow
  BY <1>2
<1>7. Rows \subseteq AllSafes
  BY DEF Rows
<1>8. Rows' = Rows
  BY <1>4, <1>6, <1>7 DEF Rows
<1>9. row' \in [AllSafes -> {NoRow} \cup [Block -> 0 .. 2]]
  BY <1>2, <1>3
<1> HIDE DEF new
<1>10. watermark' \in 1 .. head
  BY <1>1, <1>2, NativeType DEF Types, DbTypes, Block
<1> QED BY <1>2, <1>4, <1>5, <1>8, <1>9, <1>10

LEMMA DbTypesKept ==
  ASSUME Types, [Next]_vars
  PROVE  DbTypes'
<1> USE DEF Types
<1>1. ASSUME NEW w \in Workers, SeedPage(w) PROVE DbTypes'
  <2>1. /\ row' = Seeded(Page(chunk[w].m), chunk[w].m.head)
        /\ UNCHANGED <<head, safes, watermark>> /\ chunk[w].at # "idle"
    BY <1>1 DEF SeedPage, world
  <2> QED BY <2>1, ChunkHead, PagesAreSafes, DbAfterSeeding
<1>2. ASSUME NEW w \in Workers, Breaks(w) PROVE DbTypes'
  <2>1. PICK new \in SUBSET Page(chunk[w].m) :
          row' = Seeded(new, chunk[w].m.head)
    BY <1>2 DEF Breaks
  <2>2. UNCHANGED <<head, safes, watermark>> /\ chunk[w].at # "idle"
    BY <1>2 DEF Breaks, world
  <2>3. new \in SUBSET safes
    BY PagesAreSafes
  <2> QED BY <2>1, <2>2, <2>3, ChunkHead, DbAfterSeeding
<1>3. ASSUME NEW w \in Workers, HandOver(w) PROVE DbTypes'
  <2>1. chunk[w].at # "idle" /\ UNCHANGED <<head, safes, row>>
        /\ watermark' = IF watermark = 0 THEN chunk[w].m.head ELSE watermark
    BY <1>3 DEF HandOver, world
  <2>2. watermark' \in 1 .. head
    BY <2>1, ChunkHead DEF DbTypes
  <2>3. Rows' = Rows
    BY <2>1 DEF Rows
  <2> QED BY <2>1, <2>2, <2>3 DEF DbTypes
<1>4. ASSUME ColdStart PROVE DbTypes'
  <2>1. CASE Cardinality(Unseeded) > MaxSeed
    BY <1>4, <2>1, DbIsUnchanged DEF ColdStart, EndNightly, dbVars, world
  <2>2. CASE ~(Cardinality(Unseeded) > MaxSeed)
    <3>1. /\ row' = Seeded(Unseeded, nightly.head) /\ watermark = 0
          /\ watermark' = nightly.head /\ UNCHANGED <<head, safes>>
      BY <1>4, <2>2 DEF ColdStart, NightlyTypes, world
    <3>2. nightly.head \in Block /\ nightly.head \in 1 .. head
      BY <1>4, NativeType
         DEF ColdStart, NightlyTypes, DbTypes, Idle, Block
    <3>3. Unseeded \in SUBSET safes /\ safes \in SUBSET AllSafes
      BY DEF Unseeded, DbTypes
    <3>4. /\ row' \in [AllSafes -> {NoRow} \cup [Block -> 0 .. 2]]
          /\ Rows' = Rows \cup Unseeded
      BY <3>1, <3>2, <3>3, SeededRows
    <3> QED BY <3>1, <3>2, <3>3, <3>4 DEF DbTypes
  <2> QED BY <2>1, <2>2
<1>5. ASSUME SeedMissing PROVE DbTypes'
  <2>1. CASE Cardinality(Unseeded) > MaxSeed
    BY <1>5, <2>1, DbIsUnchanged DEF SeedMissing, EndNightly, dbVars, world
  <2>2. CASE ~(Cardinality(Unseeded) > MaxSeed)
    <3>1. /\ row' = Seeded(Unseeded, nightly.from)
          /\ UNCHANGED <<head, safes, watermark>>
      BY <1>5, <2>2 DEF SeedMissing, SeedBlock, world
    <3>2. nightly.from \in 1 .. head
      BY <1>5 DEF SeedMissing, NightlyTypes, DbTypes
    <3>3. Unseeded \in SUBSET safes
      BY DEF Unseeded
    <3> QED BY <3>1, <3>2, <3>3, DbAfterSeeding
  <2> QED BY <2>1, <2>2
<1>6. ASSUME ApplyDelta PROVE DbTypes'
  <2>1. UNCHANGED <<head, safes>> /\ safes \in SUBSET AllSafes
    BY <1>6 DEF ApplyDelta, world, DbTypes
  <2> QED BY <1>6, <2>1, DeltaRows DEF DbTypes
<1>7. ASSUME NightlyFails PROVE DbTypes'
  <2>1. PICK new \in IF nightly.at = "seed" THEN SUBSET Unseeded ELSE {{}} :
          row' = Seeded(new, nightly.from)
    BY <1>7 DEF NightlyFails
  <2>2. UNCHANGED <<head, safes, watermark>>
    BY <1>7 DEF NightlyFails, world
  <2>3. new \in SUBSET safes
    BY <2>1 DEF Unseeded
  <2>4. nightly.from \in 1 .. head \/ new \subseteq Rows
    BY <2>1 DEF NightlyTypes, DbTypes
  <2> QED BY <2>1, <2>2, <2>3, <2>4, DbAfterSeeding
<1>8. ASSUME HeadMoves PROVE DbTypes'
  <2>1. head' = head + 1 /\ head' \in 0 .. MaxBlock
        /\ UNCHANGED <<safes, row, watermark>>
    BY <1>8, NativeType DEF HeadMoves, dbVars, DbTypes
  <2>2. Rows' = Rows
    BY <2>1 DEF Rows
  <2>3. \A n \in 1 .. head : n \in 1 .. head'
    BY <2>1 DEF DbTypes
  <2> QED BY <2>1, <2>2, <2>3 DEF DbTypes
<1>9. ASSUME NewSafe PROVE DbTypes'
  <2>1. /\ safes \subseteq safes' /\ safes' \in SUBSET AllSafes
        /\ UNCHANGED <<head, row, watermark>>
    BY <1>9 DEF NewSafe, dbVars, DbTypes
  <2>2. Rows' = Rows
    BY <2>1 DEF Rows
  <2> QED BY <2>1, <2>2 DEF DbTypes
<1>10. ASSUME NEW w \in Workers,
              \/ Receive(w) \/ TakeLock(w) \/ Advance(w) \/ Close(w)
              \/ Shrink(w) \/ Killed(w)
       PROVE DbTypes'
  BY <1>10, DbIsUnchanged
     DEF Receive, TakeLock, Advance, Close, Shrink, Killed, world, dbVars
<1>11. ASSUME \/ LoseMessage \/ LockExpires \/ StartNightly \/ ColdCheck
              \/ SeeStalled \/ Resume \/ ChooseTarget \/ Start
              \/ StarterFails \/ TickDue \/ UNCHANGED vars
       PROVE DbTypes'
  BY <1>11, DbIsUnchanged
     DEF LoseMessage, LockExpires, StartNightly, ColdCheck, SeeStalled,
         Resume, ChooseTarget, Start, StarterFails, TickDue, vars, world,
         dbVars
<1>12. ASSUME NEW r, GracePasses(r) PROVE DbTypes'
  BY <1>12, DbIsUnchanged DEF GracePasses, world, dbVars
<1> QED
  BY <1>1, <1>2, <1>3, <1>4, <1>5, <1>6, <1>7, <1>8, <1>9, <1>10, <1>11,
     <1>12 DEF Next, Chunk, NightlyStep, TickStep

LEMMA BoundTypesKept ==
  ASSUME BoundTypes, [Next]_vars
  PROVE  BoundTypes'
<1> USE DEF BoundTypes, Fault, Delay, boundVars, world
<1>1. ASSUME NEW w \in Workers, Receive(w) \/ Chunk(w) PROVE BoundTypes'
  BY <1>1 DEF Receive, Chunk, TakeLock, SeedPage, HandOver, Advance, Close,
              Shrink
<1>2. ASSUME NEW w \in Workers, Breaks(w) \/ Killed(w) PROVE BoundTypes'
  BY <1>2 DEF Breaks, Killed
<1>3. CASE LoseMessage \/ LockExpires \/ StartNightly \/ NightlyStep
  BY <1>3 DEF LoseMessage, LockExpires, StartNightly, NightlyStep, ColdCheck,
              ColdStart, SeedMissing, ApplyDelta
<1>4. CASE NightlyFails
  <2>1. faults' = faults + 1 /\ UNCHANGED <<due, delays>>
    BY <1>4 DEF NightlyFails
  <2> QED BY <2>1
<1>7. CASE SeeStalled \/ ChooseTarget
  <2>1. due' = FALSE /\ UNCHANGED <<faults, delays>>
    BY <1>7 DEF SeeStalled, ChooseTarget
  <2> QED BY <2>1
<1>8. CASE Resume \/ Start \/ StarterFails
  BY <1>8 DEF Resume, Start, StarterFails
<1>5. CASE HeadMoves \/ NewSafe \/ TickDue \/ UNCHANGED vars
  BY <1>5 DEF HeadMoves, NewSafe, TickDue, vars
<1>6. ASSUME NEW r, GracePasses(r) PROVE BoundTypes'
  BY <1>6 DEF GracePasses
<1> QED BY <1>1, <1>2, <1>3, <1>4, <1>5, <1>6, <1>7, <1>8
       DEF Next, TickStep

(* What the steps of a worker do to its chunk.                             *)
ChunkTypeOK(c) == c \in [Workers -> {Idle} \cup ChunkTask]

LEMMA ChunkMoves ==
  ASSUME ChunkTypes, NEW w \in Workers, chunk[w].at # "idle",
         NEW step \in {"locked", "advance", "close", "shrink", "fail"},
         chunk' = [chunk EXCEPT ![w].at = step]
  PROVE  /\ ChunkTypeOK(chunk')
         /\ chunk'[w].at = step /\ chunk'[w].run = chunk[w].run
         /\ chunk'[w].m = chunk[w].m
         /\ \A v \in Workers \ {w} : chunk'[v] = chunk[v]
<1>1. chunk[w] \in ChunkTask
  BY ChunkFields
<1>2. /\ chunk'[w] = [chunk[w] EXCEPT !.at = step]
      /\ \A v \in Workers \ {w} : chunk'[v] = chunk[v]
      /\ chunk' = [v \in Workers |-> chunk'[v]]
  BY DEF ChunkTypes
<1>3. /\ chunk'[w] \in ChunkTask /\ chunk'[w].at = step
      /\ chunk'[w].run = chunk[w].run /\ chunk'[w].m = chunk[w].m
  BY <1>1, <1>2 DEF ChunkTask
<1> QED BY <1>2, <1>3 DEF ChunkTypes, ChunkTypeOK

LEMMA ChunkEnds ==
  ASSUME ChunkTypes, NEW w \in Workers, chunk' = [chunk EXCEPT ![w] = Idle]
  PROVE  /\ ChunkTypeOK(chunk')
         /\ chunk'[w] = Idle /\ chunk'[w].at = "idle"
         /\ \A v \in Workers \ {w} : chunk'[v] = chunk[v]
  BY DEF ChunkTypes, ChunkTypeOK, Idle

LEMMA ChunkSeeds ==
  ASSUME Types, NEW w \in Workers, SeedPage(w)
  PROVE  /\ ChunkTypeOK(chunk')
         /\ chunk'[w].at = "advance" /\ chunk'[w].run = chunk[w].run
         /\ chunk'[w].m \in Manifest
         /\ chunk'[w].m.head = chunk[w].m.head
         /\ chunk'[w].m.state = chunk[w].m.state
         /\ chunk'[w].m.fresh = chunk[w].m.fresh
         /\ \A v \in Workers \ {w} : chunk'[v] = chunk[v]
<1> DEFINE page == Page(chunk[w].m)
           c == [chunk[w] EXCEPT !.at = "advance", !.m.cursor = Max(page)]
<1>1. chunk[w] \in ChunkTask /\ chunk[w].m \in Manifest
  BY ChunkFields DEF SeedPage, Types
<1>2. page # {} /\ page \in SUBSET AllSafes
  BY PagesAreSafes DEF SeedPage, Types, DbTypes
<1>3. Max(page) \in Cursors
  BY <1>2 DEF Cursors
<1>4. chunk' = [chunk EXCEPT ![w] = c]
  BY <1>1 DEF SeedPage, Types, ChunkTypes
<1> HIDE DEF page
<1>5. /\ c.at = "advance" /\ c.run = chunk[w].run
      /\ c.m = [chunk[w].m EXCEPT !.cursor = Max(page)]
      /\ c = [at |-> c.at, run |-> c.run, m |-> c.m]
  <2>1. chunk[w] = [at |-> chunk[w].at, run |-> chunk[w].run,
                    m |-> chunk[w].m]
    BY <1>1 DEF ChunkTask
  <2> DEFINE m == [chunk[w].m EXCEPT !.cursor = Max(page)]
  <2>2. c = [chunk[w] EXCEPT !.at = "advance", !.m = m]
    BY <2>1
  <2> HIDE DEF c, m
  <2>3. c = [at |-> "advance", run |-> chunk[w].run, m |-> m]
    BY <2>1, <2>2
  <2> QED BY <2>3 DEF m
<1>6. /\ c.m \in Manifest /\ c.m.head = chunk[w].m.head
      /\ c.m.state = chunk[w].m.state /\ c.m.fresh = chunk[w].m.fresh
  BY <1>1, <1>3, <1>5 DEF Manifest
<1>7. c \in ChunkTask
  BY <1>1, <1>5, <1>6 DEF ChunkTask
<1> HIDE DEF c
<1>8. chunk'[w] = c /\ \A v \in Workers \ {w} : chunk'[v] = chunk[v]
  BY <1>4 DEF Types, ChunkTypes
<1> QED BY <1>4, <1>5, <1>6, <1>7, <1>8 DEF Types, ChunkTypes, ChunkTypeOK

(* A message is received: it is dropped, or its run is worked on.          *)
LEMMA ChunkReceives ==
  ASSUME Types, NEW w \in Workers, Receive(w)
  PROVE  \E e \in DOMAIN queue :
           /\ queue' = queue (-) SetToBag({e})
           /\ e.run \in 1 .. Len(runs)
           /\ \/ UNCHANGED chunk
              \/ /\ ChunkTypeOK(chunk')
                 /\ runs[e.run].state = "running"
                 /\ chunk'[w].at = "loaded" /\ chunk'[w].run = e.run
                 /\ chunk'[w].m = runs[e.run]
                 /\ \A v \in Workers \ {w} : chunk'[v] = chunk[v]
<1>1. PICK e \in DOMAIN queue :
        /\ queue' = queue (-) SetToBag({e})
        /\ chunk' = IF runs[e.run].state = "running" /\ runs[e.run].seq = e.seq
             THEN [chunk EXCEPT ![w] =
                     [at |-> "loaded", run |-> e.run, m |-> runs[e.run]]]
             ELSE chunk
  BY DEF Receive, BagToSet
<1>2. e.run \in 1 .. Len(runs)
  BY DEF Types, QueueTypes
<1>3. runs[e.run] \in Manifest
  BY <1>2 DEF Types, RunTypes
<1>4. [at |-> "loaded", run |-> e.run, m |-> runs[e.run]] \in ChunkTask
  BY <1>2, <1>3 DEF ChunkTask
<1>5. CASE runs[e.run].state = "running" /\ runs[e.run].seq = e.seq
  <2> DEFINE c == [at |-> "loaded", run |-> e.run, m |-> runs[e.run]]
  <2>1. c.at = "loaded" /\ c.run = e.run /\ c.m = runs[e.run]
    OBVIOUS
  <2>2. chunk' = [chunk EXCEPT ![w] = c] /\ c \in ChunkTask
    BY <1>1, <1>4, <1>5
  <2> HIDE DEF c
  <2>3. chunk'[w] = c /\ \A v \in Workers \ {w} : chunk'[v] = chunk[v]
    BY <2>2 DEF Types, ChunkTypes
  <2>4. ChunkTypeOK(chunk')
    BY <2>2 DEF Types, ChunkTypes, ChunkTypeOK
  <2> QED BY <1>1, <1>2, <1>5, <2>1, <2>3, <2>4
<1>6. CASE ~(runs[e.run].state = "running" /\ runs[e.run].seq = e.seq)
  BY <1>1, <1>2, <1>6
<1> QED BY <1>5, <1>6

LEMMA LockTypesKept ==
  ASSUME Types, [Next]_vars
  PROVE  LockTypes'
<1>0. /\ LockTypes /\ ChunkTypes /\ NightlyTypes
      /\ "free" \notin Workers /\ "dead" \notin Workers
      /\ "nightly" \notin Workers
  BY NativeType DEF Types
<1>a. \A w \in Workers : lock = w <=> chunk[w].at = "locked"
  BY <1>0 DEF LockTypes
<1>1. ASSUME NEW w \in Workers, Receive(w) PROVE LockTypes'
  <2>1. UNCHANGED <<lock, nightly>> /\ chunk[w].at = "idle"
    BY <1>1 DEF Receive, Idle
  <2>2. \A v \in Workers : chunk'[v].at = "locked" <=> chunk[v].at = "locked"
    BY <1>1, <2>1, ChunkReceives
  <2> QED BY <1>0, <2>1, <2>2 DEF LockTypes
<1>2. ASSUME NEW w \in Workers, TakeLock(w) PROVE LockTypes'
  <2>1. chunk[w].at = "loaded" /\ UNCHANGED nightly
    BY <1>2 DEF TakeLock
  <2>2. CASE lock = "free"
    <3>1. lock' = w /\ chunk' = [chunk EXCEPT ![w].at = "locked"]
      BY <1>2, <2>2 DEF TakeLock
    <3>2. /\ chunk'[w].at = "locked"
          /\ \A v \in Workers \ {w} : chunk'[v] = chunk[v]
      BY <1>0, <2>1, <3>1, ChunkMoves
    <3> QED BY <1>0, <2>1, <2>2, <3>1, <3>2 DEF LockTypes
  <2>3. CASE lock # "free"
    <3>1. UNCHANGED lock /\ chunk' = [chunk EXCEPT ![w] = Idle]
      BY <1>2, <2>3 DEF TakeLock
    <3>2. /\ chunk'[w].at = "idle"
          /\ \A v \in Workers \ {w} : chunk'[v] = chunk[v]
      BY <1>0, <3>1, ChunkEnds
    <3> QED BY <1>0, <2>1, <3>1, <3>2 DEF LockTypes
  <2> QED BY <2>2, <2>3
<1>3. ASSUME NEW w \in Workers, SeedPage(w) \/ HandOver(w) \/ Breaks(w)
      PROVE  LockTypes'
  <2>1. chunk[w].at = "locked" /\ lock' = "free" /\ UNCHANGED nightly
    BY <1>3 DEF SeedPage, HandOver, Breaks
  <2>2. /\ chunk'[w].at # "locked"
        /\ \A v \in Workers \ {w} : chunk'[v] = chunk[v]
    <3>1. CASE SeedPage(w)
      BY <3>1, ChunkSeeds
    <3>2. CASE HandOver(w) \/ Breaks(w)
      <4>1. PICK step \in {"close", "shrink", "fail"} :
              chunk' = [chunk EXCEPT ![w].at = step]
        BY <3>2 DEF HandOver, Breaks
      <4> QED BY <1>0, <2>1, <4>1, ChunkMoves
    <3> QED BY <1>3, <3>1, <3>2
  <2> QED BY <1>0, <1>a, <2>1, <2>2 DEF LockTypes
<1>4. ASSUME NEW w \in Workers, Advance(w) \/ Close(w) \/ Shrink(w)
      PROVE  LockTypes'
  <2>1. /\ chunk[w].at # "locked" /\ UNCHANGED <<lock, nightly>>
        /\ chunk' = [chunk EXCEPT ![w] = Idle]
    BY <1>4 DEF Advance, Close, Shrink
  <2>2. /\ chunk'[w].at = "idle"
        /\ \A v \in Workers \ {w} : chunk'[v] = chunk[v]
    BY <1>0, <2>1, ChunkEnds
  <2>3. \A v \in Workers : chunk'[v].at = "locked" <=> chunk[v].at = "locked"
    BY <2>1, <2>2
  <2> QED BY <1>0, <2>1, <2>3 DEF LockTypes
<1>5. ASSUME NEW w \in Workers, Killed(w) PROVE LockTypes'
  <2>1. /\ lock' = IF lock = w THEN "dead" ELSE lock
        /\ chunk' = [chunk EXCEPT ![w] = Idle] /\ UNCHANGED nightly
    BY <1>5 DEF Killed
  <2>2. /\ chunk'[w].at = "idle"
        /\ \A v \in Workers \ {w} : chunk'[v] = chunk[v]
    BY <1>0, <2>1, ChunkEnds
  <2> QED BY <1>0, <1>a, <2>1, <2>2 DEF LockTypes
<1>6. ASSUME LockExpires PROVE LockTypes'
  BY <1>0, <1>6 DEF LockExpires, LockTypes
<1>7. ASSUME StartNightly PROVE LockTypes'
  <2>1. /\ lock = "free" /\ lock' = "nightly" /\ nightly'.at # "idle"
        /\ UNCHANGED chunk
    BY <1>7 DEF StartNightly
  <2> QED BY <1>0, <2>1 DEF LockTypes
<1>8. ASSUME NightlyStep \/ NightlyFails PROVE LockTypes'
  <2>1. nightly.at # "idle" /\ lock = "nightly" /\ UNCHANGED chunk
    BY <1>0, <1>8
       DEF NightlyStep, NightlyFails, ColdCheck, ColdStart, SeedMissing,
           ApplyDelta, NightlyTypes, LockTypes, Idle
  <2>2. \/ nightly'.at # "idle" /\ UNCHANGED lock
        \/ nightly'.at = "idle" /\ lock' \in {"free", "dead"}
    <3>1. CASE ColdCheck
      BY <1>0, <3>1 DEF ColdCheck, EndNightly, Idle, NightlyTypes
    <3>2. CASE ColdStart
      <4>1. CASE Cardinality(Unseeded) > MaxSeed
        BY <3>2, <4>1 DEF ColdStart, EndNightly, Idle
      <4>2. CASE ~(Cardinality(Unseeded) > MaxSeed) /\ watermark # 0
        BY <3>2, <4>2 DEF ColdStart, EndNightly, Idle
      <4>3. CASE ~(Cardinality(Unseeded) > MaxSeed) /\ watermark = 0
        <5>1. nightly' = [nightly EXCEPT !.at = "seed", !.from = nightly.head]
              /\ UNCHANGED lock
          BY <3>2, <4>3 DEF ColdStart
        <5> QED BY <1>0, <2>1, <5>1 DEF Idle, NightlyTypes
      <4> QED BY <4>1, <4>2, <4>3
    <3>3. CASE SeedMissing
      BY <1>0, <3>3 DEF SeedMissing, EndNightly, Idle, NightlyTypes
    <3>4. CASE ApplyDelta \/ NightlyFails
      BY <3>4 DEF ApplyDelta, NightlyFails, EndNightly, Idle
    <3> QED BY <1>8, <3>1, <3>2, <3>3, <3>4 DEF NightlyStep
  <2> QED BY <1>0, <1>a, <2>1, <2>2 DEF LockTypes
<1>9. ASSUME \/ LoseMessage \/ SeeStalled \/ Resume \/ ChooseTarget \/ Start
             \/ StarterFails \/ HeadMoves \/ NewSafe \/ TickDue
             \/ UNCHANGED vars
      PROVE  LockTypes'
  <2>1. UNCHANGED <<lock, nightly, chunk>>
    BY <1>9 DEF LoseMessage, SeeStalled, Resume, ChooseTarget, Start,
                StarterFails, HeadMoves, NewSafe, TickDue, vars
  <2> QED BY <1>0, <2>1 DEF LockTypes
<1>10. ASSUME NEW r, GracePasses(r) PROVE LockTypes'
  BY <1>0, <1>10 DEF GracePasses, LockTypes
<1> QED
  BY <1>1, <1>2, <1>3, <1>4, <1>5, <1>6, <1>7, <1>8, <1>9, <1>10
     DEF Next, Chunk, TickStep

(* What the steps of a worker do to the run it works on: the chunk stays,  *)
(* or it is gone and the run goes on in a message, is over, or is left.    *)
Stores(r, state) ==
  /\ runs' \in Seq(Manifest) /\ Len(runs') = Len(runs)
  /\ r \in 1 .. Len(runs)
  /\ runs'[r].head = runs[r].head /\ runs'[r].state = state /\ runs'[r].fresh
  /\ \A q \in 1 .. Len(runs) \ {r} : runs'[q] = runs[q]

Sends(r) == \E n \in Nat : queue' = queue (+) Message(r, n)

ChunkStays(w) ==
  /\ ChunkTypeOK(chunk') /\ chunk'[w].at # "idle"
  /\ chunk'[w].run = chunk[w].run /\ chunk'[w].m \in Manifest
  /\ chunk'[w].m.head = chunk[w].m.head
  /\ chunk'[w].m.state = chunk[w].m.state
  /\ \A v \in Workers \ {w} : chunk'[v] = chunk[v]

ChunkGone(w) ==
  /\ ChunkTypeOK(chunk') /\ chunk'[w].at = "idle"
  /\ \A v \in Workers \ {w} : chunk'[v] = chunk[v]

Leaves(w) == ChunkGone(w) /\ UNCHANGED <<runs, queue>>
Passes(w) == /\ ChunkGone(w)
             /\ Stores(chunk[w].run, "running") /\ Sends(chunk[w].run)
Ends(w) == /\ ChunkGone(w) /\ UNCHANGED queue
           /\ Stores(chunk[w].run, "failed") \/ Stores(chunk[w].run, "finished")
Stays(w) == /\ ChunkStays(w) /\ UNCHANGED queue
            /\ UNCHANGED runs \/ Stores(chunk[w].run, "running")

LEMMA SaveStores ==
  ASSUME RunTypes, NEW r \in 1 .. Len(runs), NEW m \in Manifest,
         m.head = runs[r].head, Save(r, m)
  PROVE  Stores(r, m.state)
<1> DEFINE new == [m EXCEPT !.fresh = TRUE]
<1>1. /\ new \in Manifest /\ new.head = m.head /\ new.state = m.state
      /\ new.fresh
  BY DEF Manifest
<1>2. runs' = [runs EXCEPT ![r] = new] /\ runs \in Seq(Manifest)
  BY DEF Save, RunTypes
<1> HIDE DEF new
<1>3. /\ runs' \in Seq(Manifest) /\ Len(runs') = Len(runs)
      /\ \A q \in 1 .. Len(runs) : runs'[q] = IF q = r THEN new ELSE runs[q]
  <2>1. /\ [runs EXCEPT ![r] = new] \in Seq(Manifest)
        /\ Len([runs EXCEPT ![r] = new]) = Len(runs)
        /\ \A q \in 1 .. Len(runs) :
             [runs EXCEPT ![r] = new][q] = IF q = r THEN new ELSE runs[q]
    BY <1>1, <1>2, ExceptSeq
  <2> QED BY <1>2, <2>1, Zenon
<1> QED BY <1>1, <1>3 DEF Stores

LEMMA RedispatchStores ==
  ASSUME RunTypes, NEW r \in 1 .. Len(runs), NEW m \in Manifest,
         m.head = runs[r].head, Redispatch(r, m)
  PROVE  Stores(r, m.state) /\ Sends(r)
<1> DEFINE new == [m EXCEPT !.seq = @ + 1]
<1>1. /\ new \in Manifest /\ new.head = m.head /\ new.state = m.state
      /\ m.seq + 1 \in Nat
  BY DEF Manifest
<1>2. Save(r, new) /\ queue' = queue (+) Message(r, m.seq + 1)
  BY DEF Redispatch
<1> HIDE DEF new
<1> QED BY <1>1, <1>2, SaveStores DEF Sends

LEMMA WorkerSteps ==
  ASSUME Types, NEW w \in Workers, Chunk(w) \/ Breaks(w) \/ Killed(w)
  PROVE  /\ chunk[w].at # "idle"
         /\ Stays(w) \/ Leaves(w) \/ Passes(w) \/ Ends(w)
<1> USE DEF Types
<1> DEFINE r == chunk[w].run
           m == chunk[w].m
<1>1. chunk[w].at # "idle"
  BY ChunkIsIdle
     DEF Chunk, TakeLock, SeedPage, HandOver, Advance, Close, Shrink, Breaks,
         Killed
<1>2. /\ r \in 1 .. Len(runs) /\ m \in Manifest /\ m.state = "running"
      /\ m.head = runs[r].head
  BY <1>1, ChunkFields
<1>3. ASSUME chunk' = [chunk EXCEPT ![w] = Idle] PROVE ChunkGone(w)
  BY <1>3, ChunkEnds DEF ChunkGone
<1>4. ASSUME NEW step \in {"locked", "advance", "close", "shrink", "fail"},
             chunk' = [chunk EXCEPT ![w].at = step]
      PROVE  ChunkStays(w)
  BY <1>1, <1>2, <1>4, ChunkMoves DEF ChunkStays
<1>5. CASE TakeLock(w)
  <2>1. Stores(r, "running")
    <3>1. Save(r, m)
      BY <1>5 DEF TakeLock
    <3> QED BY <1>2, <3>1, SaveStores
  <2>2. CASE lock = "free"
    <3>1. UNCHANGED queue /\ chunk' = [chunk EXCEPT ![w].at = "locked"]
      BY <1>5, <2>2 DEF TakeLock
    <3> QED BY <1>1, <1>4, <2>1, <3>1 DEF Stays
  <2>3. CASE lock # "free"
    <3>1. /\ queue' = queue (+) Message(r, m.seq)
          /\ chunk' = [chunk EXCEPT ![w] = Idle]
      BY <1>5, <2>3 DEF TakeLock
    <3>2. m.seq \in Nat
      BY <1>2 DEF Manifest
    <3> QED BY <1>1, <1>3, <2>1, <3>1, <3>2 DEF Passes, Sends
  <2> QED BY <2>2, <2>3
<1>6. CASE SeedPage(w)
  <2>1. UNCHANGED <<runs, queue>>
    BY <1>6 DEF SeedPage, runVars
  <2>2. ChunkStays(w)
    BY <1>6, ChunkSeeds DEF ChunkStays
  <2> QED BY <1>1, <2>1, <2>2 DEF Stays
<1>7. CASE HandOver(w) \/ Breaks(w)
  <2>1. PICK step \in {"close", "shrink", "fail"} :
          chunk' = [chunk EXCEPT ![w].at = step]
    BY <1>7 DEF HandOver, Breaks
  <2>2. UNCHANGED <<runs, queue>>
    BY <1>7 DEF HandOver, Breaks, runVars
  <2> QED BY <1>1, <1>4, <2>1, <2>2 DEF Stays
<1>8. CASE Advance(w)
  <2>1. Redispatch(r, m) /\ chunk' = [chunk EXCEPT ![w] = Idle]
    BY <1>8 DEF Advance
  <2> QED BY <1>1, <1>2, <1>3, <2>1, RedispatchStores DEF Passes
<1>9. CASE Close(w)
  <2> DEFINE state == IF chunk[w].at = "fail" THEN "failed" ELSE "finished"
  <2>1. /\ Save(r, [m EXCEPT !.state = state]) /\ UNCHANGED queue
        /\ chunk' = [chunk EXCEPT ![w] = Idle]
    BY <1>9 DEF Close
  <2>2. state \in {"failed", "finished"}
    OBVIOUS
  <2> HIDE DEF state
  <2> DEFINE new == [m EXCEPT !.state = state]
  <2>3. new \in Manifest /\ new.head = m.head /\ new.state = state
    BY <1>2, <2>2 DEF Manifest
  <2> HIDE DEF new
  <2>4. Save(r, new)
    BY <2>1 DEF new
  <2>5. Stores(r, state)
    BY <1>2, <2>3, <2>4, SaveStores
  <2> QED BY <1>1, <1>3, <2>1, <2>2, <2>5 DEF Ends
<1>10. CASE Shrink(w)
  <2>1. chunk' = [chunk EXCEPT ![w] = Idle]
    BY <1>10 DEF Shrink
  <2>2. CASE m.size > Floor
    <3> DEFINE size == Max({Floor, m.size \div 2})
               new == [m EXCEPT !.size = size]
    <3>1. Redispatch(r, new)
      BY <1>10, <2>2 DEF Shrink
    <3>2. m.size \in Floor .. ChunkSize /\ Floor \in Nat \ {0}
      BY <1>2, NativeType DEF Manifest
    <3>3. m.size \div 2 \in Nat /\ m.size \div 2 <= m.size
      BY <3>2
    <3>4. size \in Floor .. ChunkSize
      BY <3>2, <3>3, MaxOfTwo, NativeType
    <3> HIDE DEF size
    <3>5. new \in Manifest /\ new.head = m.head /\ new.state = m.state
      BY <1>2, <3>4 DEF Manifest
    <3> HIDE DEF new
    <3> QED BY <1>1, <1>2, <1>3, <2>1, <3>1, <3>5, RedispatchStores DEF Passes
  <2>3. CASE ~(m.size > Floor)
    <3> DEFINE new == [m EXCEPT !.state = "failed"]
    <3>1. Save(r, new) /\ UNCHANGED queue
      BY <1>10, <2>3 DEF Shrink
    <3>2. new \in Manifest /\ new.head = m.head /\ new.state = "failed"
      BY <1>2 DEF Manifest
    <3> HIDE DEF new
    <3>3. Stores(r, "failed")
      BY <1>2, <3>1, <3>2, SaveStores
    <3> QED BY <1>1, <1>3, <2>1, <3>1, <3>3 DEF Ends
  <2> QED BY <2>2, <2>3
<1>11. CASE Killed(w)
  <2>1. chunk' = [chunk EXCEPT ![w] = Idle] /\ UNCHANGED <<runs, queue>>
    BY <1>11 DEF Killed, runVars
  <2> QED BY <1>1, <1>3, <2>1 DEF Leaves
<1> QED
  BY <1>5, <1>6, <1>7, <1>8, <1>9, <1>10, <1>11 DEF Chunk

(* The steps that leave runs, messages and chunks alone.                   *)
Elsewhere ==
  \/ LockExpires \/ StartNightly \/ NightlyStep \/ NightlyFails
  \/ SeeStalled \/ ChooseTarget \/ StarterFails
  \/ HeadMoves \/ NewSafe \/ TickDue \/ UNCHANGED vars

WorkerStep(w) == Chunk(w) \/ Breaks(w) \/ Killed(w)

LEMMA NextSteps ==
  ASSUME [Next]_vars
  PROVE  \/ \E w \in Workers : Receive(w) \/ WorkerStep(w)
         \/ LoseMessage \/ Resume \/ Start
         \/ \E r \in 1 .. MaxRuns : GracePasses(r)
         \/ Elsewhere
  BY DEF Next, TickStep, Elsewhere, WorkerStep

LEMMA ElsewhereFrame ==
  ASSUME Elsewhere
  PROVE  UNCHANGED <<runs, queue, chunk>>
<1>1. CASE NightlyStep \/ NightlyFails \/ StartNightly
  BY <1>1 DEF StartNightly, NightlyStep, NightlyFails, ColdCheck, ColdStart,
              SeedMissing, ApplyDelta, runVars
<1>2. CASE LockExpires \/ StarterFails \/ HeadMoves \/ NewSafe \/ TickDue
  BY <1>2 DEF LockExpires, StarterFails, HeadMoves, NewSafe, TickDue, runVars
<1>3. CASE SeeStalled \/ ChooseTarget \/ UNCHANGED vars
  BY <1>3 DEF SeeStalled, ChooseTarget, vars, runVars
<1> QED BY <1>1, <1>2, <1>3 DEF Elsewhere

LEMMA HeadGrows ==
  ASSUME DbTypes, [Next]_vars
  PROVE  head \in Nat /\ head' \in Nat /\ head <= head'
<1>1. ASSUME HeadMoves PROVE head' = head + 1
  BY <1>1 DEF HeadMoves
<1>2. ASSUME NEW w \in Workers, Receive(w) \/ WorkerStep(w)
      PROVE  UNCHANGED head
  BY <1>2 DEF Receive, WorkerStep, Chunk, TakeLock, SeedPage, HandOver,
              Advance, Close, Shrink, Breaks, Killed, world
<1>3. ASSUME NEW r, GracePasses(r) PROVE UNCHANGED head
  BY <1>3 DEF GracePasses, world
<1>4. ASSUME LoseMessage \/ Resume \/ Start \/ LockExpires \/ StartNightly
      PROVE  UNCHANGED head
  BY <1>4 DEF LoseMessage, Resume, Start, LockExpires, StartNightly, world
<1>5. ASSUME NightlyStep \/ NightlyFails PROVE UNCHANGED head
  BY <1>5 DEF NightlyStep, NightlyFails, ColdCheck, ColdStart, SeedMissing,
              ApplyDelta, world
<1>6. ASSUME \/ SeeStalled \/ ChooseTarget \/ StarterFails \/ NewSafe
             \/ TickDue \/ UNCHANGED vars
      PROVE  UNCHANGED head
  BY <1>6 DEF SeeStalled, ChooseTarget, StarterFails, NewSafe, TickDue, vars,
              world
<1>7. head \in Nat
  BY DEF DbTypes
<1> QED
  BY <1>1, <1>2, <1>3, <1>4, <1>5, <1>6, <1>7, NextSteps DEF Elsewhere

LEMMA ResumeSteps ==
  ASSUME Types, Resume
  PROVE  /\ starter.at = "resume" /\ starter' = Idle /\ UNCHANGED chunk
         /\ \/ Stores(starter.run, "running") /\ Sends(starter.run)
            \/ UNCHANGED <<runs, queue>>
<1>1. /\ starter.at = "resume" /\ starter' = Idle /\ UNCHANGED chunk
      /\ IF lock = "free" THEN Redispatch(starter.run, starter.m)
         ELSE UNCHANGED <<runs, queue>>
  BY DEF Resume, runVars
<1>2. CopyOf(starter.run, starter.m) /\ RunTypes
  BY <1>1 DEF Types, StarterTypes
<1> QED BY <1>1, <1>2, RedispatchStores DEF CopyOf

LEMMA StartSteps ==
  ASSUME Types, Start
  PROVE  /\ starter.at = "start" /\ starter' = Idle /\ UNCHANGED chunk
         /\ runs' \in Seq(Manifest) /\ Len(runs') = Len(runs) + 1
         /\ \A q \in 1 .. Len(runs) : runs'[q] = runs[q]
         /\ runs'[Len(runs')].head = starter.head
         /\ runs'[Len(runs')].state = "running" /\ runs'[Len(runs')].fresh
         /\ queue' = queue (+) Message(Len(runs'), 1)
<1> DEFINE new == [head |-> starter.head, size |-> ChunkSize, cursor |-> 0,
                   state |-> "running", seq |-> 1, fresh |-> TRUE]
<1>1. /\ starter.at = "start" /\ starter' = Idle /\ UNCHANGED chunk
      /\ runs' = Append(runs, new)
      /\ queue' = queue (+) Message(Len(runs) + 1, 1)
  BY DEF Start, StartRun
<1>2. starter.head \in Block
  BY <1>1 DEF Types, StarterTypes, Idle
<1>3. new \in Manifest /\ runs \in Seq(Manifest)
  BY <1>2, NativeType DEF Manifest, Cursors, Types, RunTypes
<1>4. /\ new.head = starter.head /\ new.state = "running" /\ new.fresh
  OBVIOUS
<1> HIDE DEF new
<1>5. /\ runs' \in Seq(Manifest) /\ Len(runs') = Len(runs) + 1
      /\ \A q \in 1 .. Len(runs) : runs'[q] = runs[q]
      /\ runs'[Len(runs) + 1] = new
  BY <1>1, <1>3, AppendProperties
<1> QED BY <1>1, <1>4, <1>5

LEMMA GraceSteps ==
  ASSUME Types, NEW r, GracePasses(r)
  PROVE  /\ r \in 1 .. Len(runs) /\ runs[r].state = "running" /\ runs[r].fresh
         /\ UNCHANGED <<queue, chunk, starter>>
         /\ runs' \in Seq(Manifest) /\ Len(runs') = Len(runs)
         /\ \A q \in 1 .. Len(runs) :
              runs'[q].head = runs[q].head /\ runs'[q].state = runs[q].state
         /\ \A q \in 1 .. Len(runs) \ {r} : runs'[q] = runs[q]
<1> DEFINE new == [runs[r] EXCEPT !.fresh = FALSE]
<1>1. /\ r \in 1 .. Len(runs) /\ runs[r].state = "running" /\ runs[r].fresh
      /\ UNCHANGED <<queue, chunk, starter>>
      /\ runs' = [runs EXCEPT ![r].fresh = FALSE] /\ runs \in Seq(Manifest)
  BY DEF GracePasses, Types, RunTypes
<1>2. runs[r] \in Manifest /\ runs' = [runs EXCEPT ![r] = new]
  BY <1>1
<1>3. new \in Manifest /\ new.head = runs[r].head /\ new.state = runs[r].state
  BY <1>2 DEF Manifest
<1> HIDE DEF new
<1>4. /\ [runs EXCEPT ![r] = new] \in Seq(Manifest)
      /\ Len([runs EXCEPT ![r] = new]) = Len(runs)
      /\ \A q \in 1 .. Len(runs) :
           [runs EXCEPT ![r] = new][q] = IF q = r THEN new ELSE runs[q]
  BY <1>1, <1>3, ExceptSeq
<1>5. /\ runs' \in Seq(Manifest) /\ Len(runs') = Len(runs)
      /\ \A q \in 1 .. Len(runs) : runs'[q] = IF q = r THEN new ELSE runs[q]
  BY <1>2, <1>4, Zenon
<1> QED BY <1>1, <1>3, <1>5

(* No run changes its block.                                               *)
LEMMA HeadsStay ==
  ASSUME Types, [Next]_vars
  PROVE  /\ runs' \in Seq(Manifest) /\ Len(runs) <= Len(runs')
         /\ \A q \in 1 .. Len(runs) : runs'[q].head = runs[q].head
<1>1. runs \in Seq(Manifest) /\ Len(runs) \in Nat
  BY DEF Types, RunTypes
<1>2. ASSUME UNCHANGED runs
      PROVE  /\ runs' \in Seq(Manifest) /\ Len(runs) <= Len(runs')
             /\ \A q \in 1 .. Len(runs) : runs'[q].head = runs[q].head
  BY <1>1, <1>2
<1>3. ASSUME NEW r, NEW state, Stores(r, state)
      PROVE  /\ runs' \in Seq(Manifest) /\ Len(runs) <= Len(runs')
             /\ \A q \in 1 .. Len(runs) : runs'[q].head = runs[q].head
  BY <1>1, <1>3 DEF Stores
<1>4. ASSUME NEW w \in Workers, Receive(w) PROVE UNCHANGED runs
  BY <1>4 DEF Receive
<1>5. ASSUME NEW w \in Workers, WorkerStep(w)
      PROVE  \/ UNCHANGED runs
             \/ \E state : Stores(chunk[w].run, state)
  BY <1>5, WorkerSteps DEF WorkerStep, Stays, Leaves, Passes, Ends
<1>6. ASSUME LoseMessage PROVE UNCHANGED runs
  BY <1>6 DEF LoseMessage
<1>7. CASE Resume
  BY <1>2, <1>3, <1>7, ResumeSteps
<1>8. CASE Start
  BY <1>1, <1>8, StartSteps
<1>9. ASSUME NEW r, GracePasses(r)
      PROVE  /\ runs' \in Seq(Manifest) /\ Len(runs) <= Len(runs')
             /\ \A q \in 1 .. Len(runs) : runs'[q].head = runs[q].head
  BY <1>1, <1>9, GraceSteps
<1>10. CASE Elsewhere
  BY <1>2, <1>10, ElsewhereFrame
<1> QED
  BY <1>2, <1>3, <1>4, <1>5, <1>6, <1>7, <1>8, <1>9, <1>10, NextSteps

LEMMA OnlyStartAppends ==
  ASSUME Types, [Next]_vars, Len(runs') # Len(runs)
  PROVE  Start
<1>1. ASSUME NEW w \in Workers, WorkerStep(w) PROVE Len(runs') = Len(runs)
  BY <1>1, WorkerSteps DEF WorkerStep, Stays, Leaves, Passes, Ends, Stores
<1>2. ASSUME NEW w \in Workers, Receive(w) PROVE Len(runs') = Len(runs)
  BY <1>2 DEF Receive
<1>3. ASSUME LoseMessage PROVE Len(runs') = Len(runs)
  BY <1>3 DEF LoseMessage
<1>4. ASSUME Resume PROVE Len(runs') = Len(runs)
  BY <1>4, ResumeSteps DEF Stores
<1> QED BY <1>1, <1>2, <1>3, <1>4, GraceSteps, ElsewhereFrame, NextSteps

LEMMA RunTypesKept ==
  ASSUME Types, [Next]_vars
  PROVE  RunTypes'
<1> SUFFICES ASSUME NEW q \in 1 .. Len(runs') PROVE runs'[q].head <= head'
  BY HeadsStay DEF RunTypes
<1>1. head \in Nat /\ head' \in Nat /\ head <= head'
  BY HeadGrows DEF Types
<1>2. CASE q \in 1 .. Len(runs)
  <2>1. runs'[q].head = runs[q].head /\ runs[q].head <= head
    BY <1>2, HeadsStay DEF Types, RunTypes
  <2>2. runs[q].head \in Nat
    <3>1. runs[q] \in Manifest
      BY <1>2 DEF Types, RunTypes
    <3> QED BY <3>1, NativeType DEF Manifest, Block
  <2> QED BY <1>1, <2>1, <2>2
<1>3. CASE q \notin 1 .. Len(runs)
  <2>1. Len(runs) \in Nat /\ Len(runs') \in Nat
    BY HeadsStay DEF Types, RunTypes
  <2>2. Len(runs') # Len(runs)
    BY <1>3, <2>1
  <2>3. Start
    BY <2>2, OnlyStartAppends
  <2>4. q = Len(runs') /\ starter.head <= head /\ UNCHANGED head
    BY <1>3, <2>1, <2>3, StartSteps
       DEF Types, StarterTypes, Start, world
  <2> QED BY <2>3, <2>4, StartSteps
<1> QED BY <1>2, <1>3

(* A message is sent, and one leaves the queue.                            *)
LEMMA Sending ==
  ASSUME IsABag(queue), NEW r, NEW k, queue' = queue (+) Message(r, k)
  PROVE  LET d == [run |-> r, seq |-> k]
         IN  /\ IsABag(queue')
             /\ DOMAIN queue' = DOMAIN queue \cup {d}
             /\ \A e \in DOMAIN queue : e # d => queue'[e] = queue[e]
             /\ d \notin DOMAIN queue => queue'[d] = 1
<1> DEFINE d == [run |-> r, seq |-> k]
<1>1. queue' = [e \in DOMAIN queue \cup {d} |->
                  (IF e \in DOMAIN queue THEN queue[e] ELSE 0)
                  + (IF e = d THEN 1 ELSE 0)]
  <2>1. queue' = queue (+) SetToBag({d})
    BY DEF Message
  <2> HIDE DEF d
  <2>2. queue (+) SetToBag({d}) =
          [e \in DOMAIN queue \cup {d} |->
             (IF e \in DOMAIN queue THEN queue[e] ELSE 0)
             + (IF e = d THEN 1 ELSE 0)]
    <3>1. /\ DOMAIN SetToBag({d}) = {d}
          /\ \A e : (IF e \in {d} THEN SetToBag({d})[e] ELSE 0)
                   = IF e = d THEN 1 ELSE 0
      BY DEF SetToBag
    <3> QED BY <3>1, Zenon DEF (+)
  <2> QED BY <2>1, <2>2, Zenon
<1>2. \A e \in DOMAIN queue : queue[e] \in Nat /\ queue[e] > 0
  BY DEF IsABag
<1> HIDE DEF d
<1>3. DOMAIN queue' = DOMAIN queue \cup {d}
  BY <1>1
<1>4. \A e \in DOMAIN queue : e # d => queue'[e] = queue[e]
  BY <1>1, <1>2
<1>5. queue'[d] = (IF d \in DOMAIN queue THEN queue[d] ELSE 0) + 1
  BY <1>1
<1>6. \A e \in DOMAIN queue' : queue'[e] \in Nat /\ queue'[e] > 0
  BY <1>2, <1>3, <1>4, <1>5
<1>7. queue' = [e \in DOMAIN queue' |-> queue'[e]]
  BY <1>1
<1>8. IsABag(queue')
  BY <1>6, <1>7 DEF IsABag
<1> QED BY <1>3, <1>4, <1>5, <1>8 DEF d

LEMMA Leaving ==
  ASSUME IsABag(queue), NEW d \in DOMAIN queue,
         queue' = queue (-) SetToBag({d})
  PROVE  /\ IsABag(queue')
         /\ DOMAIN queue' \subseteq DOMAIN queue
         /\ \A e \in DOMAIN queue' : e # d => queue'[e] = queue[e]
         /\ queue[d] = 1 => d \notin DOMAIN queue'
<1>1. queue' = [e \in {c \in DOMAIN queue : c # d \/ queue[c] > 1} |->
                  IF e = d THEN queue[e] - 1 ELSE queue[e]]
  BY OneLess, Zenon
<1>2. \A e \in DOMAIN queue : queue[e] \in Nat /\ queue[e] > 0
  BY DEF IsABag
<1>3. DOMAIN queue' = {c \in DOMAIN queue : c # d \/ queue[c] > 1}
  BY <1>1
<1>4. \A e \in DOMAIN queue' : e # d => queue'[e] = queue[e]
  BY <1>1
<1>5. \A e \in DOMAIN queue' : queue'[e] \in Nat /\ queue'[e] > 0
  BY <1>1, <1>2
<1>6. queue' = [e \in DOMAIN queue' |-> queue'[e]]
  BY <1>1
<1>7. IsABag(queue')
  BY <1>5, <1>6 DEF IsABag
<1> QED BY <1>3, <1>4, <1>7

LEMMA QueueGrows ==
  ASSUME QueueTypes, NEW n \in Nat, n >= Len(runs), Len(runs) \in Nat,
         NEW r \in 1 .. n, NEW k \in Nat, queue' = queue (+) Message(r, k)
  PROVE  /\ IsABag(queue')
         /\ DOMAIN queue' \subseteq [run : 1 .. n, seq : Nat]
<1> DEFINE d == [run |-> r, seq |-> k]
<1>1. IsABag(queue)
  BY DEF QueueTypes
<1>2. IsABag(queue') /\ DOMAIN queue' = DOMAIN queue \cup {d}
  BY <1>1, Sending
<1>3. d \in [run : 1 .. n, seq : Nat]
  OBVIOUS
<1>4. DOMAIN queue \subseteq [run : 1 .. n, seq : Nat]
  BY DEF QueueTypes
<1> QED BY <1>2, <1>3, <1>4

LEMMA QueueShrinks ==
  ASSUME QueueTypes, NEW e \in DOMAIN queue, queue' = queue (-) SetToBag({e})
  PROVE  IsABag(queue') /\ DOMAIN queue' \subseteq DOMAIN queue
BY Leaving DEF QueueTypes

LEMMA QueueTypesKept ==
  ASSUME Types, [Next]_vars
  PROVE  QueueTypes'
<1>1. /\ QueueTypes /\ Len(runs) \in Nat /\ Len(runs') \in Nat
      /\ Len(runs) <= Len(runs')
  BY HeadsStay DEF Types, RunTypes
<1>2. ASSUME UNCHANGED queue PROVE QueueTypes'
  BY <1>1, <1>2 DEF QueueTypes
<1>3. ASSUME NEW r \in 1 .. Len(runs'), Sends(r) PROVE QueueTypes'
  <2>1. PICK k \in Nat : queue' = queue (+) Message(r, k)
    BY <1>3 DEF Sends
  <2> QED BY <1>1, <2>1, QueueGrows DEF QueueTypes
<1>4. ASSUME NEW e \in DOMAIN queue, queue' = queue (-) SetToBag({e})
      PROVE  QueueTypes'
  <2>1. /\ IsABag(queue')
        /\ DOMAIN queue' \subseteq DOMAIN queue
    BY <1>1, <1>4, QueueShrinks
  <2>2. DOMAIN queue \subseteq [run : 1 .. Len(runs'), seq : Nat]
    BY <1>1 DEF QueueTypes
  <2> QED BY <2>1, <2>2 DEF QueueTypes
<1>5. ASSUME NEW w \in Workers, WorkerStep(w) PROVE QueueTypes'
  <2>1. CASE Stays(w) \/ Leaves(w) \/ Ends(w)
    BY <1>2, <2>1 DEF Stays, Leaves, Ends
  <2>2. CASE Passes(w)
    BY <1>3, <2>2 DEF Passes, Stores
  <2> QED BY <1>5, <2>1, <2>2, WorkerSteps DEF WorkerStep
<1>6. ASSUME NEW w \in Workers, Receive(w) PROVE QueueTypes'
  BY <1>4, <1>6, ChunkReceives
<1>7. CASE LoseMessage
  BY <1>4, <1>7 DEF LoseMessage, BagToSet
<1>8. CASE Resume
  BY <1>2, <1>3, <1>8, ResumeSteps DEF Stores
<1>9. CASE Start
  <2>1. Sends(Len(runs')) /\ Len(runs') \in 1 .. Len(runs')
    BY <1>1, <1>9, StartSteps DEF Sends
  <2> QED BY <1>3, <2>1
<1> QED
  BY <1>2, <1>5, <1>6, <1>7, <1>8, <1>9, GraceSteps, ElsewhereFrame, NextSteps

LEMMA ChunkTypesKept ==
  ASSUME Types, [Next]_vars
  PROVE  ChunkTypes'
<1>1. /\ ChunkTypes /\ Len(runs) \in Nat /\ Len(runs') \in Nat
      /\ Len(runs) <= Len(runs')
      /\ \A q \in 1 .. Len(runs) : runs'[q].head = runs[q].head
      /\ runs \in Seq(Manifest)
  BY HeadsStay DEF Types, RunTypes
<1>2. \A r, m : CopyOf(r, m) => CopyOf(r, m)'
  BY <1>1 DEF CopyOf
<1>3. ASSUME UNCHANGED chunk PROVE ChunkTypes'
  BY <1>1, <1>2, <1>3 DEF ChunkTypes
<1>4. ASSUME ChunkTypeOK(chunk'), NEW w \in Workers,
             \A v \in Workers \ {w} : chunk'[v] = chunk[v],
             chunk'[w].at # "idle" => CopyOf(chunk'[w].run, chunk'[w].m)
      PROVE  ChunkTypes'
  <2>1. ASSUME NEW v \in Workers, chunk'[v].at # "idle"
        PROVE  CopyOf(chunk'[v].run, chunk'[v].m)
    BY <1>1, <1>4, <2>1 DEF ChunkTypes
  <2> QED BY <1>2, <1>4, <2>1 DEF ChunkTypes, ChunkTypeOK
<1>5. ASSUME NEW w \in Workers, WorkerStep(w) PROVE ChunkTypes'
  <2>1. CASE ChunkGone(w)
    BY <1>4, <2>1 DEF ChunkGone
  <2>2. CASE ChunkStays(w)
    <3>1. CopyOf(chunk[w].run, chunk[w].m)
      BY <1>1, <1>5, WorkerSteps DEF ChunkTypes, WorkerStep
    <3>2. CopyOf(chunk'[w].run, chunk'[w].m)
      BY <2>2, <3>1 DEF ChunkStays, CopyOf
    <3> QED BY <1>4, <2>2, <3>2 DEF ChunkStays
  <2> QED
    BY <1>5, <2>1, <2>2, WorkerSteps
       DEF WorkerStep, Stays, Leaves, Passes, Ends
<1>6. ASSUME NEW w \in Workers, Receive(w) PROVE ChunkTypes'
  <2>1. CASE UNCHANGED chunk
    BY <1>3, <2>1
  <2>2. CASE chunk' # chunk
    <3>1. PICK e \in DOMAIN queue :
            /\ e.run \in 1 .. Len(runs) /\ ChunkTypeOK(chunk')
            /\ runs[e.run].state = "running"
            /\ chunk'[w].run = e.run /\ chunk'[w].m = runs[e.run]
            /\ \A v \in Workers \ {w} : chunk'[v] = chunk[v]
      BY <1>6, <2>2, ChunkReceives
    <3>2. CopyOf(chunk'[w].run, chunk'[w].m)
      BY <1>1, <3>1 DEF CopyOf
    <3> QED BY <1>4, <3>1, <3>2
  <2> QED BY <2>1, <2>2
<1>7. ASSUME LoseMessage PROVE UNCHANGED chunk
  BY <1>7 DEF LoseMessage
<1> QED
  BY <1>3, <1>5, <1>6, <1>7, ResumeSteps, StartSteps, GraceSteps,
     ElsewhereFrame, NextSteps

(* The starter changes in the steps of the tick only.                      *)
LEMMA StarterFrame ==
  ASSUME [Next]_vars
  PROVE  \/ SeeStalled \/ ChooseTarget \/ starter' = Idle
         \/ UNCHANGED starter
<1>1. ASSUME NEW w \in Workers, Receive(w) \/ WorkerStep(w)
      PROVE  UNCHANGED starter
  BY <1>1 DEF Receive, WorkerStep, Chunk, TakeLock, SeedPage, HandOver,
              Advance, Close, Shrink, Breaks, Killed
<1>2. ASSUME NEW r, GracePasses(r) PROVE UNCHANGED starter
  BY <1>2 DEF GracePasses
<1>3. ASSUME LoseMessage \/ LockExpires \/ StartNightly \/ UNCHANGED vars
      PROVE  UNCHANGED starter
  BY <1>3 DEF LoseMessage, LockExpires, StartNightly, vars
<1>4. ASSUME NightlyStep \/ NightlyFails PROVE UNCHANGED starter
  BY <1>4 DEF NightlyStep, NightlyFails, ColdCheck, ColdStart, SeedMissing,
              ApplyDelta
<1>5. ASSUME HeadMoves \/ NewSafe \/ TickDue PROVE UNCHANGED starter
  BY <1>5 DEF HeadMoves, NewSafe, TickDue
<1>6. ASSUME Resume \/ Start \/ StarterFails PROVE starter' = Idle
  BY <1>6 DEF Resume, Start, StarterFails
<1> QED
  BY <1>1, <1>2, <1>3, <1>4, <1>5, <1>6, NextSteps DEF Elsewhere

(* What a tick finds to start over is the stamp of all rows, or the head.  *)
LEMMA TargetsAreHeads ==
  ASSUME Types, ChooseTarget
  PROVE  /\ starter'.at = "start"
         /\ starter' \in [at : {"start"}, head : Block]
         /\ starter'.head \in 1 .. head
         /\ watermark = 0
         /\ Stamps # {} => starter'.head \in Stamps
<1>1. PICK h \in Targets : starter' = [at |-> "start", head |-> h]
  BY DEF ChooseTarget
<1>2. watermark = 0 /\ ~(Cardinality(Stamps) > 1)
  BY <1>1 DEF Targets
<1>3. Stamps # {} => h \in Stamps
  BY <1>1, <1>2 DEF Targets
<1>4. head \in 0 .. MaxBlock /\ MaxBlock \in Nat
  BY NativeType DEF Types, DbTypes
<1>5. h \in 1 .. head
  <2>1. CASE Stamps = {}
    BY <1>1, <1>2, <1>4, <2>1 DEF Targets
  <2>2. CASE Stamps # {}
    <3>1. PICK s \in Rows :
            h = Max({0} \cup {b \in Block : row[s][b] > 0})
      BY <1>3, <2>2 DEF Stamps
    <3>2. PICK n \in 1 .. head : row[s] = Upto(n)
      BY <1>2 DEF Types, DbTypes
    <3>3. n \in Block
      BY <1>4 DEF Block
    <3> QED BY <3>1, <3>2, <3>3, StampOfUpto
  <2> QED BY <2>1, <2>2
<1>6. h \in Block
  BY <1>4, <1>5 DEF Block
<1> QED BY <1>1, <1>2, <1>3, <1>5, <1>6

LEMMA StarterTypesKept ==
  ASSUME Types, [Next]_vars
  PROVE  StarterTypes'
<1>1. /\ StarterTypes /\ runs \in Seq(Manifest)
      /\ Len(runs) \in Nat /\ Len(runs') \in Nat /\ Len(runs) <= Len(runs')
      /\ \A q \in 1 .. Len(runs) : runs'[q].head = runs[q].head
  BY HeadsStay DEF Types, RunTypes
<1>2. head \in Nat /\ head' \in Nat /\ head <= head'
  BY HeadGrows DEF Types
<1>3. Idle \in {Idle} /\ Idle.at = "idle"
  BY DEF Idle
<1>4. CASE SeeStalled
  <2>1. /\ starter' = [at |-> "resume", run |-> Len(runs),
                       m |-> runs[Len(runs)]]
        /\ runs # <<>> /\ runs[Len(runs)].state = "running" /\ UNCHANGED runs
    BY <1>4 DEF SeeStalled, Stalled, Latest, runVars
  <2>2. Len(runs) \in 1 .. Len(runs) /\ runs[Len(runs)] \in Manifest
    BY <1>1, <2>1
  <2> QED BY <1>1, <2>1, <2>2 DEF StarterTypes, CopyOf
<1>5. CASE ChooseTarget
  <2>1. UNCHANGED head
    BY <1>5 DEF ChooseTarget
  <2>2. /\ starter' \in [at : {"start"}, head : Block] /\ starter'.at = "start"
        /\ starter'.head <= head
    BY <1>2, <1>5, TargetsAreHeads
  <2> QED BY <2>1, <2>2 DEF StarterTypes
<1>6. CASE starter' = Idle
  BY <1>3, <1>6 DEF StarterTypes
<1>7. CASE UNCHANGED starter
  <2>1. starter.at = "resume" => CopyOf(starter.run, starter.m)'
    BY <1>1, <1>7 DEF StarterTypes, CopyOf
  <2>2. starter.at = "start" => starter.head \in Nat
    BY <1>1, <1>3, NativeType DEF StarterTypes, Block
  <2>3. starter.at = "start" => starter.head <= head'
    BY <1>1, <1>2, <2>2 DEF StarterTypes
  <2> QED BY <1>1, <1>7, <2>1, <2>3 DEF StarterTypes
<1> QED BY <1>4, <1>5, <1>6, <1>7, StarterFrame

(* A worker touches rows and watermark with the lock in its hand only.     *)
LEMMA WorkersLeaveNightly ==
  ASSUME Types, NEW w \in Workers, Receive(w) \/ WorkerStep(w)
  PROVE  /\ UNCHANGED <<head, nightly>>
         /\ nightly.at = "idle" \/ UNCHANGED <<row, watermark>>
<1>1. UNCHANGED <<head, nightly>>
  BY DEF Receive, WorkerStep, Chunk, TakeLock, SeedPage, HandOver, Advance,
         Close, Shrink, Breaks, Killed, world
<1>2. ASSUME \/ Receive(w) \/ TakeLock(w) \/ Advance(w) \/ Close(w)
             \/ Shrink(w) \/ Killed(w)
      PROVE  UNCHANGED <<row, watermark>>
  BY <1>2 DEF Receive, TakeLock, Advance, Close, Shrink, Killed, dbVars
<1>3. ASSUME SeedPage(w) \/ HandOver(w) \/ Breaks(w)
      PROVE  nightly.at = "idle"
  <2>1. chunk[w].at = "locked"
    BY <1>3 DEF SeedPage, HandOver, Breaks
  <2>2. lock = w /\ w # "nightly"
    BY <2>1, NativeType DEF Types, LockTypes
  <2> QED BY <2>2 DEF Types, LockTypes
<1> QED BY <1>1, <1>2, <1>3 DEF WorkerStep, Chunk

LEMMA NightlyTypesKept ==
  ASSUME Types, [Next]_vars
  PROVE  NightlyTypes'
<1>1. /\ NightlyTypes /\ DbTypes /\ MaxBlock \in Nat
      /\ head \in 0 .. MaxBlock /\ watermark \in 0 .. head
  BY NativeType DEF Types, DbTypes
<1>2. head \in Nat /\ head' \in Nat /\ head <= head'
  BY <1>1, HeadGrows
<1>3. ASSUME nightly' = Idle PROVE NightlyTypes'
  BY <1>3 DEF NightlyTypes, Idle
<1>4. ASSUME UNCHANGED <<nightly, row, watermark>> PROVE NightlyTypes'
  <2>1. Rows' = Rows
    BY <1>4 DEF Rows
  <2>2. nightly.at # "idle" => nightly.head \in Nat
    BY <1>1 DEF NightlyTypes, Idle, Block
  <2> QED BY <1>1, <1>2, <1>4, <2>1, <2>2 DEF NightlyTypes
<1>5. CASE \E w \in Workers : Receive(w) \/ WorkerStep(w)
  <2>1. /\ UNCHANGED nightly
        /\ nightly.at = "idle" \/ UNCHANGED <<row, watermark>>
    BY <1>5, WorkersLeaveNightly
  <2>2. nightly.at = "idle" => nightly = Idle
    BY <1>1 DEF NightlyTypes
  <2> QED BY <1>3, <1>4, <2>1, <2>2
<1>6. ASSUME \/ LoseMessage \/ LockExpires \/ Resume \/ Start \/ StarterFails
             \/ UNCHANGED vars
      PROVE  UNCHANGED <<nightly, row, watermark>>
  BY <1>6 DEF LoseMessage, LockExpires, Resume, Start, StarterFails, vars,
              dbVars
<1>7. ASSUME SeeStalled \/ ChooseTarget \/ HeadMoves \/ NewSafe \/ TickDue
      PROVE  UNCHANGED <<nightly, row, watermark>>
  BY <1>7 DEF SeeStalled, ChooseTarget, HeadMoves, NewSafe, TickDue, dbVars
<1>8. ASSUME NEW r, GracePasses(r)
      PROVE  UNCHANGED <<nightly, row, watermark>>
  BY <1>8 DEF GracePasses, dbVars
<1>9. CASE StartNightly
  <2>1. /\ nightly' = [at |-> IF watermark = 0 THEN "cold" ELSE "seed",
                       head |-> head, from |-> watermark]
        /\ head > 0 /\ UNCHANGED <<head, watermark>>
    BY <1>9 DEF StartNightly, world, dbVars
  <2>2. head \in Block /\ watermark \in 0 .. MaxBlock
    BY <1>1, <2>1 DEF Block
  <2> QED BY <1>1, <2>1, <2>2 DEF NightlyTypes
<1>10. CASE ColdCheck
  <2>1. nightly.at = "cold" /\ UNCHANGED <<head, row, watermark>>
    BY <1>10 DEF ColdCheck, world, dbVars
  <2>2. CASE InProgress
    BY <1>3, <1>10, <2>2 DEF ColdCheck, EndNightly
  <2>3. CASE ~InProgress
    <3>1. nightly' = [nightly EXCEPT !.at = "fill"] /\ Rows = {}
      BY <1>10, <2>3 DEF ColdCheck, InProgress
    <3>2. Rows' = {}
      BY <2>1, <3>1 DEF Rows
    <3> QED BY <1>1, <2>1, <3>1, <3>2 DEF NightlyTypes, Idle
  <2> QED BY <2>2, <2>3
<1>11. CASE ColdStart
  <2>1. nightly.at = "fill" /\ watermark = 0 /\ UNCHANGED head
    BY <1>1, <1>11 DEF ColdStart, NightlyTypes, world
  <2>2. CASE Cardinality(Unseeded) > MaxSeed
    BY <1>3, <1>11, <2>2 DEF ColdStart, EndNightly
  <2>3. CASE ~(Cardinality(Unseeded) > MaxSeed)
    <3>1. /\ nightly' = [nightly EXCEPT !.at = "seed", !.from = nightly.head]
          /\ watermark' = nightly.head
      BY <1>11, <2>1, <2>3 DEF ColdStart
    <3>2. /\ nightly \in [at : {"cold", "fill", "seed", "delta"},
                          head : Block, from : 0 .. MaxBlock]
          /\ nightly.head \in 1 .. MaxBlock /\ nightly.head <= head
      BY <1>1, <2>1 DEF NightlyTypes, Idle, Block
    <3>3. nightly' = [at |-> "seed", head |-> nightly.head,
                      from |-> nightly.head]
      BY <3>1, <3>2
    <3> QED BY <2>1, <3>1, <3>2, <3>3 DEF NightlyTypes, Block
  <2> QED BY <2>2, <2>3
<1>12. CASE SeedMissing
  <2>1. nightly.at = "seed" /\ UNCHANGED <<head, watermark>>
    BY <1>12 DEF SeedMissing, world
  <2>2. CASE Cardinality(Unseeded) > MaxSeed
    BY <1>3, <1>12, <2>2 DEF SeedMissing, EndNightly
  <2>3. CASE ~(Cardinality(Unseeded) > MaxSeed)
    <3>1. nightly' = [nightly EXCEPT !.at = "delta"]
      BY <1>12, <2>3 DEF SeedMissing
    <3> QED BY <1>1, <2>1, <3>1 DEF NightlyTypes, Idle
  <2> QED BY <2>2, <2>3
<1>13. CASE ApplyDelta \/ NightlyFails
  BY <1>3, <1>13 DEF ApplyDelta, NightlyFails, EndNightly
<1> QED
  BY <1>4, <1>5, <1>6, <1>7, <1>8, <1>9, <1>10, <1>11, <1>12, <1>13,
     NextSteps DEF Elsewhere, NightlyStep

LEMMA TypesKept ==
  ASSUME Types, [Next]_vars
  PROVE  Types'
BY DbTypesKept, BoundTypesKept, LockTypesKept, RunTypesKept, QueueTypesKept,
   ChunkTypesKept, NightlyTypesKept, StarterTypesKept DEF Types

LEMMA TypesImply == Types => TypeOK
<1> SUFFICES ASSUME Types PROVE TypeOK
  OBVIOUS
<1>1. head \in 0 .. MaxBlock /\ watermark \in 0 .. MaxBlock
  BY NativeType DEF Types, DbTypes
<1>2. Rows \subseteq safes /\ safes \subseteq AllSafes
  BY DEF Types, DbTypes
<1>3. \A s \in Rows : row[s] \in [Block -> 0 .. 2]
  BY DEF Types, DbTypes, Rows
<1>4. \A w \in Workers :
        chunk[w].at \in {"idle", "loaded", "locked", "advance", "close",
                         "shrink", "fail"}
  BY DEF Types, ChunkTypes, ChunkTask, Idle
<1>5. /\ nightly.at \in {"idle", "cold", "fill", "seed", "delta"}
      /\ starter.at \in {"idle", "resume", "start"} /\ due \in BOOLEAN
  BY DEF Types, NightlyTypes, StarterTypes, BoundTypes, Idle
<1>6. ASSUME NEW r \in DOMAIN runs
      PROVE  /\ runs[r].head \in Block /\ runs[r].size \in Floor .. ChunkSize
             /\ runs[r].state \in {"running", "failed", "finished"}
  <2>1. runs[r] \in Manifest
    BY DEF Types, RunTypes
  <2> QED BY <2>1 DEF Manifest
<1> QED
  BY <1>1, <1>2, <1>3, <1>4, <1>5, <1>6 DEF TypeOK, Types, LockTypes

(* The variables have their types, whatever fails.                         *)
THEOREM TypeCorrect == Spec => []TypeOK
<1>1. Types /\ [Next]_vars => Types'
  BY TypesKept
<1> QED BY <1>1, InitTypes, TypesImply, PTL DEF Spec

-----------------------------------------------------------------------------
(***************************************************************************)
(* The rows.                                                               *)
(***************************************************************************)

(* As long as there is no watermark every chunk is of the last run.        *)
LEMMA ChunksAreOfLatest ==
  ASSUME Inv, watermark = 0, NEW w \in Workers, chunk[w].at # "idle"
  PROVE  /\ chunk[w].run = Len(runs) /\ runs # <<>>
         /\ chunk[w].m.head = runs[Len(runs)].head
<1>1. /\ chunk[w].run \in 1 .. Len(runs) /\ runs \in Seq(Manifest)
      /\ chunk[w].m.head = runs[chunk[w].run].head
  BY ChunkFields DEF Inv, Types, RunTypes
<1>2. CASE delays = 0
  <2>1. ~Dormant(chunk[w].run)
    BY DEF Dormant, Works
  <2>2. runs[chunk[w].run].state = "running"
    BY <1>1, <1>2, <2>1 DEF Inv, NoDelay, OnlyTheLatestLives
  <2> QED BY <1>1, <1>2, <2>2 DEF Inv, NoDelay, OnlyTheLatestLives
<1>3. CASE faults = 0
  BY <1>1, <1>3 DEF Inv, NoFault
<1> QED BY <1>2, <1>3 DEF Inv

(* The steps that change rows, watermark or strays.                        *)
LEMMA RowSteps ==
  ASSUME Types, [Next]_vars
  PROVE  \/ \E w \in Workers : SeedPage(w) \/ HandOver(w) \/ Breaks(w)
         \/ ColdStart \/ SeedMissing \/ ApplyDelta \/ NightlyFails
         \/ UNCHANGED <<row, watermark, stray>>
<1>1. ASSUME NEW w \in Workers, Receive(w) \/ WorkerStep(w)
      PROVE  \/ SeedPage(w) \/ HandOver(w) \/ Breaks(w)
             \/ UNCHANGED <<row, watermark, stray>>
  BY <1>1 DEF Receive, WorkerStep, Chunk, TakeLock, Advance, Close, Shrink,
              Killed, dbVars
<1>2. ASSUME \/ LoseMessage \/ LockExpires \/ Resume \/ Start \/ StarterFails
             \/ StartNightly \/ ColdCheck \/ UNCHANGED vars
      PROVE  UNCHANGED <<row, watermark, stray>>
  BY <1>2 DEF LoseMessage, LockExpires, Resume, Start, StarterFails,
              StartNightly, ColdCheck, vars, dbVars
<1>3. ASSUME SeeStalled \/ ChooseTarget \/ HeadMoves \/ NewSafe \/ TickDue
      PROVE  UNCHANGED <<row, watermark, stray>>
  BY <1>3 DEF SeeStalled, ChooseTarget, HeadMoves, NewSafe, TickDue, dbVars
<1>4. ASSUME NEW r, GracePasses(r) PROVE UNCHANGED <<row, watermark, stray>>
  BY <1>4 DEF GracePasses, dbVars
<1> QED BY <1>1, <1>2, <1>3, <1>4, NextSteps DEF Elsewhere, NightlyStep

(* A chunk makes rows at the block of its run, the nightly task where the  *)
(* watermark is.                                                           *)
LEMMA ChunkRows ==
  ASSUME Types, NEW w \in Workers, SeedPage(w) \/ Breaks(w)
  PROVE  /\ chunk[w].at # "idle" /\ UNCHANGED <<watermark, runs>>
         /\ \A s \in Rows : s \in Rows' /\ row'[s] = row[s]
         /\ \A s \in Rows' \ Rows : /\ row'[s] = Upto(chunk[w].m.head)
                                    /\ s \in stray' \/ watermark = 0
                                       \/ watermark = chunk[w].m.head
         /\ stray \subseteq stray'
<1>1. PICK new \in SUBSET Page(chunk[w].m) :
        /\ row' = Seeded(new, chunk[w].m.head)
        /\ stray' = Strays(new, chunk[w].m.head)
  BY DEF SeedPage, Breaks
<1>2. chunk[w].at # "idle" /\ UNCHANGED <<watermark, runs>>
  BY DEF SeedPage, Breaks, runVars
<1>3. chunk[w].m.head \in Block
  BY <1>2, ChunkHead
<1>4. new \in SUBSET AllSafes /\ DbTypes
  BY PagesAreSafes DEF Types, DbTypes
<1>5. /\ Rows' = Rows \cup new
      /\ \A s \in Rows : row'[s] = row[s]
      /\ \A s \in new \ Rows : row'[s] = Upto(chunk[w].m.head)
  BY <1>1, <1>3, <1>4, SeededRows
<1> QED BY <1>1, <1>2, <1>5 DEF Strays

LEMMA NightlyRows ==
  ASSUME Types, SeedMissing \/ NightlyFails
  PROVE  /\ UNCHANGED <<watermark, stray>>
         /\ \A s \in Rows : s \in Rows' /\ row'[s] = row[s]
         /\ \A s \in Rows' \ Rows : row'[s] = Upto(watermark)
         /\ watermark = 0 => UNCHANGED row
<1>1. UNCHANGED <<watermark, stray>> /\ DbTypes /\ safes \in SUBSET AllSafes
  BY DEF SeedMissing, NightlyFails, Types, DbTypes
<1>2. UNCHANGED row => Rows' = Rows
  BY DEF Rows
<1>3. CASE UNCHANGED row
  BY <1>1, <1>2, <1>3
<1>4. CASE row' # row
  <2>1. PICK new \in SUBSET Unseeded : row' = Seeded(new, nightly.from)
    BY <1>4 DEF SeedMissing, NightlyFails, SeedBlock
  <2>2. new \in SUBSET AllSafes
    BY <1>1 DEF Unseeded
  <2>3. nightly.at = "seed"
    <3>1. CASE SeedMissing
      BY <3>1 DEF SeedMissing
    <3>2. CASE NightlyFails /\ nightly.at # "seed"
      <4>1. row' = Seeded({}, nightly.from)
        BY <3>2 DEF NightlyFails
      <4>2. row' = [s \in AllSafes |-> row[s]]
        BY <4>1 DEF Seeded
      <4> QED BY <1>1, <1>4, <4>2 DEF DbTypes
    <3> QED BY <3>1, <3>2
  <2>4. /\ nightly.from = watermark /\ watermark # 0 /\ watermark \in Block
    BY <1>1, <2>3, NativeType DEF Types, NightlyTypes, DbTypes, Block
  <2>5. /\ Rows' = Rows \cup new
        /\ \A s \in Rows : row'[s] = row[s]
        /\ \A s \in new \ Rows : row'[s] = Upto(watermark)
    BY <1>1, <2>1, <2>2, <2>4, SeededRows
  <2> QED BY <1>1, <2>4, <2>5
<1> QED BY <1>3, <1>4

(* The cold start finds no row, and declines or seeds and sets the         *)
(* watermark.                                                              *)
LEMMA ColdRows ==
  ASSUME Types, ColdStart
  PROVE  \/ UNCHANGED <<row, watermark, stray>>
         \/ /\ Rows = {} /\ watermark' # 0
            /\ \A s \in Rows' : row'[s] = Upto(watermark')
<1>1. CASE Cardinality(Unseeded) > MaxSeed
  BY <1>1 DEF ColdStart, dbVars
<1>2. CASE ~(Cardinality(Unseeded) > MaxSeed)
  <2>1. Rows = {} /\ watermark = 0 /\ nightly.head \in Block
    BY DEF ColdStart, Types, NightlyTypes, Idle
  <2>2. row' = Seeded(Unseeded, nightly.head) /\ watermark' = nightly.head
    BY <1>2, <2>1 DEF ColdStart
  <2>3. Unseeded \in SUBSET AllSafes /\ DbTypes
    BY DEF Unseeded, Types, DbTypes
  <2>4. /\ Rows' = Rows \cup Unseeded
        /\ \A s \in Unseeded \ Rows : row'[s] = Upto(nightly.head)
    BY <2>1, <2>2, <2>3, SeededRows
  <2>5. nightly.head # 0
    BY <2>1 DEF Block
  <2> QED BY <2>1, <2>2, <2>4, <2>5
<1> QED BY <1>1, <1>2

LEMMA RowsOfWatermarkKept ==
  ASSUME Inv, [Next]_vars
  PROVE  RowsOfWatermark'
<1> SUFFICES ASSUME watermark' # 0, NEW s \in Rows', s \notin stray'
             PROVE  row'[s] = Upto(watermark')
  BY DEF RowsOfWatermark, Exact, Upto, Block
<1>0. Types /\ RowsOfWatermark
  BY DEF Inv
<1>1. watermark # 0 /\ s \in Rows /\ s \notin stray => row[s] = Upto(watermark)
  BY <1>0 DEF RowsOfWatermark, Exact
<1>2. ASSUME NEW w \in Workers, SeedPage(w) \/ Breaks(w)
      PROVE  row'[s] = Upto(watermark')
  BY <1>0, <1>1, <1>2, ChunkRows
<1>3. ASSUME NEW w \in Workers, HandOver(w) PROVE row'[s] = Upto(watermark')
  <2>1. /\ chunk[w].at # "idle" /\ UNCHANGED <<row, stray>>
        /\ watermark' = IF watermark = 0 THEN chunk[w].m.head ELSE watermark
    BY <1>3 DEF HandOver
  <2>2. s \in Rows /\ s \notin stray
    BY <2>1 DEF Rows
  <2>3. CASE watermark = 0
    BY <2>1, <2>2, <2>3, ChunksAreOfLatest DEF Inv, RowsOfLatest
  <2> QED BY <1>1, <2>1, <2>2, <2>3
<1>4. CASE ColdStart
  <2>1. UNCHANGED <<row, watermark, stray>> => s \in Rows
    BY DEF Rows
  <2> QED BY <1>0, <1>1, <1>4, <2>1, ColdRows
<1>5. CASE SeedMissing \/ NightlyFails
  BY <1>0, <1>1, <1>5, NightlyRows
<1>6. CASE ApplyDelta
  <2>1. /\ Rows' = Rows
        /\ row[s] = Upto(watermark) => row'[s] = Upto(watermark')
    BY <1>0, <1>6, DeltaRows
  <2>2. UNCHANGED stray /\ watermark # 0
    BY <1>0, <1>6 DEF ApplyDelta, Types, NightlyTypes
  <2> QED BY <1>1, <2>1, <2>2
<1>7. CASE UNCHANGED <<row, watermark, stray>>
  <2>1. s \in Rows
    BY <1>7 DEF Rows
  <2> QED BY <1>1, <1>7, <2>1
<1> QED BY <1>0, <1>2, <1>3, <1>4, <1>5, <1>6, <1>7, RowSteps

(* A watermark stays; without one only chunks make rows.                   *)
LEMMA RowsWithoutWatermark ==
  ASSUME Types, [Next]_vars, watermark' = 0
  PROVE  /\ watermark = 0
         /\ UNCHANGED row \/ \E w \in Workers : SeedPage(w) \/ Breaks(w)
<1>1. ASSUME NEW w \in Workers, HandOver(w)
      PROVE  watermark = 0 /\ UNCHANGED row
  <2>1. /\ chunk[w].at # "idle" /\ UNCHANGED row
        /\ watermark' = IF watermark = 0 THEN chunk[w].m.head ELSE watermark
    BY <1>1 DEF HandOver
  <2> QED BY <2>1, ChunkHead DEF Block
<1>2. ASSUME NEW w \in Workers, SeedPage(w) \/ Breaks(w) PROVE watermark = 0
  BY <1>2, ChunkRows
<1>3. ASSUME SeedMissing \/ NightlyFails PROVE watermark = 0 /\ UNCHANGED row
  BY <1>3, NightlyRows
<1>4. ASSUME ColdStart PROVE watermark = 0 /\ UNCHANGED row
  BY <1>4, ColdRows
<1>5. ASSUME ApplyDelta PROVE FALSE
  <2>1. watermark' \in 1 .. head
    BY <1>5, DeltaRows
  <2> QED BY <2>1
<1> QED BY <1>1, <1>2, <1>3, <1>4, <1>5, RowSteps

LEMMA RowsOfLatestKept ==
  ASSUME Inv, [Next]_vars
  PROVE  RowsOfLatest'
<1> SUFFICES ASSUME watermark' = 0, NEW s \in Rows'
             PROVE  runs' # <<>> /\ row'[s] = Upto(runs'[Len(runs')].head)
  BY DEF RowsOfLatest, Upto, Block
<1>0. /\ Types /\ runs \in Seq(Manifest) /\ runs' \in Seq(Manifest)
      /\ Len(runs) \in Nat /\ Len(runs') \in Nat /\ Len(runs) <= Len(runs')
      /\ \A q \in 1 .. Len(runs) : runs'[q].head = runs[q].head
  BY HeadsStay DEF Inv, Types, RunTypes
<1>1. /\ watermark = 0
      /\ UNCHANGED row \/ \E w \in Workers : SeedPage(w) \/ Breaks(w)
  BY <1>0, RowsWithoutWatermark
<1>2. \A t \in Rows : runs # <<>> /\ row[t] = Upto(runs[Len(runs)].head)
  BY <1>1 DEF Inv, RowsOfLatest
<1>3. ASSUME NEW w \in Workers, SeedPage(w) \/ Breaks(w)
      PROVE  runs' # <<>> /\ row'[s] = Upto(runs'[Len(runs')].head)
  <2>1. /\ chunk[w].at # "idle" /\ UNCHANGED runs
        /\ \A t \in Rows : row'[t] = row[t]
        /\ \A t \in Rows' \ Rows : row'[t] = Upto(chunk[w].m.head)
    BY <1>0, <1>3, ChunkRows
  <2>2. runs # <<>> /\ chunk[w].m.head = runs[Len(runs)].head
    BY <1>1, <2>1, ChunksAreOfLatest
  <2> QED BY <1>2, <2>1, <2>2
<1>4. CASE UNCHANGED row
  <2>1. s \in Rows
    BY <1>4 DEF Rows
  <2>2. CASE Len(runs') = Len(runs)
    <3>1. runs # <<>> /\ row[s] = Upto(runs[Len(runs)].head)
      BY <1>2, <2>1
    <3>2. Len(runs) \in 1 .. Len(runs)
      BY <1>0, <3>1
    <3> QED BY <1>0, <1>4, <2>2, <3>1, <3>2
  <2>3. CASE Len(runs') # Len(runs)
    <3>1. Start
      BY <1>0, <2>3, OnlyStartAppends
    <3>2. /\ starter.at = "start" /\ runs'[Len(runs')].head = starter.head
          /\ Len(runs') = Len(runs) + 1
      BY <1>0, <3>1, StartSteps
    <3>3. row[s] = Upto(starter.head)
      <4>1. CASE delays = 0
        BY <1>1, <2>1, <3>2, <4>1 DEF Inv, NoDelay, StarterIsRight
      <4>2. CASE faults = 0
        BY <1>1, <1>2, <2>1, <3>2, <4>2 DEF Inv, NoFault
      <4> QED BY <4>1, <4>2 DEF Inv
    <3> QED BY <1>0, <1>4, <3>2, <3>3
  <2> QED BY <2>2, <2>3
<1> QED BY <1>1, <1>3, <1>4

-----------------------------------------------------------------------------
(***************************************************************************)
(* Where a run lives when no grace period passes over live work.           *)
(***************************************************************************)
LEMMA WorksAfter ==
  ASSUME NEW w \in Workers
  PROVE  /\ ChunkGone(w) =>
              \A v \in Workers : \A r : Works(v, r)' <=> v # w /\ Works(v, r)
         /\ chunk[w].at # "idle" /\ ChunkStays(w) =>
              \A v \in Workers : \A r : Works(v, r)' <=> Works(v, r)
  BY DEF ChunkGone, ChunkStays, Works

LEMMA SendsOne ==
  ASSUME QueueTypes, Len(runs) \in Nat, NEW r \in Nat \ {0}, Sends(r),
         \A e \in DOMAIN queue : queue[e] = 1,
         \A e \in DOMAIN queue : e.run # r
  PROVE  \E d : /\ d.run = r /\ DOMAIN queue' = DOMAIN queue \cup {d}
                /\ \A e \in DOMAIN queue' : queue'[e] = 1
<1>1. PICK k \in Nat : queue' = queue (+) Message(r, k)
  BY DEF Sends
<1> DEFINE d == [run |-> r, seq |-> k]
<1>2. IsABag(queue)
  BY DEF QueueTypes
<1>3. /\ DOMAIN queue' = DOMAIN queue \cup {d}
      /\ \A e \in DOMAIN queue : e # d => queue'[e] = queue[e]
      /\ d \notin DOMAIN queue => queue'[d] = 1
  BY <1>1, <1>2, Sending
<1>4. d.run = r
  OBVIOUS
<1> HIDE DEF d
<1>5. d \notin DOMAIN queue
  BY <1>4
<1>6. \A e \in DOMAIN queue' : queue'[e] = 1
  BY <1>3, <1>5
<1> QED BY <1>3, <1>4, <1>6

LEMMA TakesOne ==
  ASSUME QueueTypes, \A e \in DOMAIN queue : queue[e] = 1,
         NEW d \in DOMAIN queue, queue' = queue (-) SetToBag({d})
  PROVE  /\ DOMAIN queue' \subseteq DOMAIN queue \ {d}
         /\ \A e \in DOMAIN queue' : queue'[e] = 1
<1>1. IsABag(queue) /\ queue[d] = 1
  BY DEF QueueTypes
<1>2. /\ DOMAIN queue' \subseteq DOMAIN queue
      /\ \A e \in DOMAIN queue' : e # d => queue'[e] = queue[e]
      /\ d \notin DOMAIN queue'
  BY <1>1, Leaving
<1> QED BY <1>2

(* A message that takes the place of what lived before it.                 *)
LEMMA LifeInAMessage ==
  ASSUME Types, OneLife, UNCHANGED Len(runs),
         NEW r \in 1 .. Len(runs), Sends(r),
         \A e \in DOMAIN queue : e.run # r,
         \A v \in Workers : ~Works(v, r)',
         \A v \in Workers : \A q : Works(v, q)' => Works(v, q)
  PROVE  /\ OneLife'
         /\ \A q \in 1 .. Len(runs) \ {r} : Dormant(q) => Dormant(q)'
<1>1. /\ QueueTypes /\ Len(runs) \in Nat /\ r \in Nat \ {0}
      /\ \A e \in DOMAIN queue : queue[e] = 1
  BY DEF Types, RunTypes, OneLife
<1>2. PICK d : /\ d.run = r /\ DOMAIN queue' = DOMAIN queue \cup {d}
               /\ \A e \in DOMAIN queue' : queue'[e] = 1
  BY <1>1, SendsOne
<1>3. OneLife'
  BY <1>2 DEF OneLife
<1>4. \A q \in 1 .. Len(runs) \ {r} : Dormant(q) => Dormant(q)'
  BY <1>2 DEF Dormant
<1> QED BY <1>3, <1>4

LEMMA LifeInNoMessage ==
  ASSUME OneLife, UNCHANGED Len(runs),
         DOMAIN queue' \subseteq DOMAIN queue,
         \A e \in DOMAIN queue' : queue'[e] = 1,
         \A v \in Workers : \A q : Works(v, q)' => Works(v, q)
  PROVE  OneLife' /\ \A q : Dormant(q) => Dormant(q)'
  BY DEF OneLife, Dormant

LEMMA LiveIsNotDormant ==
  ASSUME Types, OnlyTheLatestLives, NEW r \in 1 .. Len(runs), ~Dormant(r)
  PROVE  r = Len(runs) /\ runs[r].fresh /\ runs[r].state = "running"
  BY DEF OnlyTheLatestLives

LEMMA LifeKeptByWorkers ==
  ASSUME Types, OneLife, OnlyTheLatestLives,
         NEW w \in Workers, WorkerStep(w)
  PROVE  OneLife' /\ OnlyTheLatestLives'
<1>0. PICK r : r = chunk[w].run
  OBVIOUS
<1>1. /\ chunk[w].at # "idle" /\ r \in 1 .. Len(runs)
      /\ Stays(w) \/ Leaves(w) \/ Passes(w) \/ Ends(w)
  BY <1>0, WorkerSteps, ChunkFields DEF WorkerStep, Types
<1>2. /\ r = Len(runs) /\ runs[r].fresh /\ runs[r].state = "running"
      /\ Works(w, r) /\ \A e \in DOMAIN queue : e.run # r
      /\ \A v \in Workers \ {w} : ~Works(v, r)
  BY <1>0, <1>1, LiveIsNotDormant DEF Dormant, Works, OneLife
<1>3. \A e \in DOMAIN queue : queue[e] = 1
  BY DEF OneLife
<1>4. CASE Stays(w)
  <2>1. /\ UNCHANGED queue
        /\ UNCHANGED runs \/ Stores(r, "running")
        /\ \A v \in Workers : \A q : Works(v, q)' <=> Works(v, q)
    BY <1>0, <1>1, <1>4, WorksAfter DEF Stays
  <2>2. UNCHANGED Len(runs)
    BY <2>1 DEF Stores
  <2>3. OneLife' /\ \A q : Dormant(q) => Dormant(q)'
    BY <1>3, <2>1, <2>2, LifeInNoMessage
  <2>4. OnlyTheLatestLives'
    BY <1>2, <2>1, <2>2, <2>3 DEF OnlyTheLatestLives, Stores
  <2> QED BY <2>3, <2>4
<1>5. CASE Leaves(w)
  <2>1. /\ UNCHANGED <<runs, queue>>
        /\ \A v \in Workers : \A q : Works(v, q)' => Works(v, q)
    BY <1>5, WorksAfter DEF Leaves
  <2>2. OneLife' /\ \A q : Dormant(q) => Dormant(q)'
    BY <1>3, <2>1, LifeInNoMessage
  <2> QED BY <2>1, <2>2 DEF OnlyTheLatestLives
<1>6. CASE Passes(w)
  <2>1. /\ Stores(r, "running") /\ Sends(r)
        /\ \A v \in Workers : \A q : Works(v, q)' <=> v # w /\ Works(v, q)
    BY <1>0, <1>6, WorksAfter DEF Passes
  <2>2. /\ OneLife'
        /\ \A q \in 1 .. Len(runs) \ {r} : Dormant(q) => Dormant(q)'
    BY <1>1, <1>2, <2>1, LifeInAMessage DEF Stores
  <2> QED BY <1>2, <2>1, <2>2 DEF OnlyTheLatestLives, Stores
<1>7. CASE Ends(w)
  <2>1. PICK state \in {"failed", "finished"} : Stores(r, state)
    BY <1>0, <1>7 DEF Ends
  <2>2. /\ UNCHANGED queue
        /\ \A v \in Workers : \A q : Works(v, q)' <=> v # w /\ Works(v, q)
    BY <1>7, WorksAfter DEF Ends
  <2>3. OneLife' /\ \A q : Dormant(q) => Dormant(q)'
    BY <1>3, <2>1, <2>2, LifeInNoMessage DEF Stores
  <2>4. Dormant(r)'
    BY <1>2, <2>2 DEF Dormant
  <2> QED BY <1>2, <2>1, <2>3, <2>4 DEF OnlyTheLatestLives, Stores
<1> QED BY <1>1, <1>4, <1>5, <1>6, <1>7

LEMMA LifeKeptByReceive ==
  ASSUME Types, OneLife, OnlyTheLatestLives,
         NEW w \in Workers, Receive(w)
  PROVE  OneLife' /\ OnlyTheLatestLives'
<1>1. /\ UNCHANGED runs /\ chunk[w].at = "idle" /\ QueueTypes
      /\ \A e \in DOMAIN queue : queue[e] = 1
  BY DEF Receive, Idle, Types, OneLife
<1>2. PICK d \in DOMAIN queue :
        /\ queue' = queue (-) SetToBag({d}) /\ d.run \in 1 .. Len(runs)
        /\ \/ UNCHANGED chunk
           \/ /\ chunk'[w].at = "loaded" /\ chunk'[w].run = d.run
              /\ \A v \in Workers \ {w} : chunk'[v] = chunk[v]
  BY ChunkReceives
<1>3. /\ DOMAIN queue' \subseteq DOMAIN queue \ {d}
      /\ \A e \in DOMAIN queue' : queue'[e] = 1
  BY <1>1, <1>2, TakesOne
<1>4. ~Dormant(d.run)
  BY <1>2 DEF Dormant
<1>5. CASE UNCHANGED chunk
  <2>1. \A v \in Workers : \A q : Works(v, q)' => Works(v, q)
    BY <1>5 DEF Works
  <2>2. OneLife' /\ \A q : Dormant(q) => Dormant(q)'
    BY <1>1, <1>3, <2>1, LifeInNoMessage
  <2> QED BY <1>1, <2>2 DEF OnlyTheLatestLives
<1>6. CASE /\ chunk'[w].at = "loaded" /\ chunk'[w].run = d.run
           /\ \A v \in Workers \ {w} : chunk'[v] = chunk[v]
  <2>1. /\ \A q : Works(w, q)' <=> q = d.run
        /\ \A v \in Workers \ {w} : \A q : Works(v, q)' <=> Works(v, q)
        /\ \A q : ~Works(w, q)
    BY <1>1, <1>6 DEF Works
  <2>2. \A e \in DOMAIN queue' : e.run # d.run
    BY <1>2, <1>3 DEF OneLife
  <2>3. \A v \in Workers : ~Works(v, d.run)
    BY <1>2 DEF OneLife
  <2>4. OneLife'
    <3>1. \A v \in Workers : \A e \in DOMAIN queue' : ~Works(v, e.run)'
      BY <1>3, <2>1, <2>2 DEF OneLife
    <3>2. \A e, f \in DOMAIN queue' : e.run = f.run => e = f
      BY <1>3 DEF OneLife
    <3>3. ASSUME NEW q \in 1 .. Len(runs'), NEW u \in Workers,
                 NEW v \in Workers, Works(u, q)', Works(v, q)'
          PROVE  u = v
      BY <1>1, <2>1, <2>3, <3>3 DEF OneLife
    <3> QED BY <1>3, <3>1, <3>2, <3>3 DEF OneLife
  <2>5. \A q : q # d.run /\ Dormant(q) => Dormant(q)'
    BY <1>3, <2>1 DEF Dormant
  <2> QED BY <1>1, <1>4, <2>4, <2>5 DEF OnlyTheLatestLives
<1> QED BY <1>2, <1>5, <1>6

LEMMA LifeKeptByOthers ==
  ASSUME Types, OneLife, OnlyTheLatestLives, StarterIsRight, delays' = 0,
         delays = 0,
         \/ LoseMessage \/ Resume \/ Start \/ Elsewhere
         \/ \E r \in 1 .. MaxRuns : GracePasses(r)
  PROVE  OneLife' /\ OnlyTheLatestLives'
<1>0. /\ QueueTypes /\ Len(runs) \in Nat
      /\ \A e \in DOMAIN queue : queue[e] = 1
  BY DEF Types, RunTypes, OneLife
<1>1. ASSUME UNCHANGED <<runs, queue, chunk>>
      PROVE  OneLife' /\ OnlyTheLatestLives'
  BY <1>1 DEF OneLife, OnlyTheLatestLives, Dormant, Works
<1>2. ASSUME UNCHANGED chunk
      PROVE  \A v \in Workers : \A q : Works(v, q)' <=> Works(v, q)
  BY <1>2 DEF Works
<1>3. CASE LoseMessage
  <2>1. PICK d \in DOMAIN queue : queue' = queue (-) SetToBag({d})
    BY <1>3 DEF LoseMessage, BagToSet
  <2>2. UNCHANGED <<runs, chunk>>
    BY <1>3 DEF LoseMessage
  <2>3. /\ DOMAIN queue' \subseteq DOMAIN queue
        /\ \A e \in DOMAIN queue' : queue'[e] = 1
    BY <1>0, <2>1, TakesOne
  <2>4. OneLife' /\ \A q : Dormant(q) => Dormant(q)'
    BY <1>2, <2>2, <2>3, LifeInNoMessage
  <2> QED BY <2>2, <2>4 DEF OnlyTheLatestLives
<1>4. CASE Resume
  <2>0. PICK r : r = starter.run
    OBVIOUS
  <2>1. starter.at = "resume" /\ UNCHANGED chunk
    BY <1>4, ResumeSteps
  <2>2. r = Len(runs) /\ ~runs[r].fresh
    BY <2>0, <2>1 DEF StarterIsRight
  <2>3. CASE Stores(r, "running") /\ Sends(r)
    <3>1. Dormant(r) /\ r \in 1 .. Len(runs)
      BY <2>2, <2>3 DEF OnlyTheLatestLives, Stores
    <3>2. /\ \A e \in DOMAIN queue : e.run # r
          /\ \A v \in Workers : ~Works(v, r)'
      BY <1>2, <2>1, <3>1 DEF Dormant
    <3>3. /\ OneLife'
          /\ \A q \in 1 .. Len(runs) \ {r} : Dormant(q) => Dormant(q)'
      BY <1>2, <2>1, <2>3, <3>1, <3>2, LifeInAMessage DEF Stores
    <3> QED BY <2>2, <2>3, <3>3 DEF OnlyTheLatestLives, Stores
  <2> QED BY <1>1, <1>4, <2>0, <2>1, <2>3, ResumeSteps
<1>5. CASE Start
  <2> DEFINE r == Len(runs')
  <2>1. /\ starter.at = "start" /\ UNCHANGED chunk
        /\ r = Len(runs) + 1 /\ \A q \in 1 .. Len(runs) : runs'[q] = runs[q]
        /\ runs'[r].state = "running" /\ runs'[r].fresh
        /\ queue' = queue (+) Message(r, 1)
    BY <1>5, StartSteps
  <2>2. \A q \in 1 .. Len(runs) : runs[q].state # "running" /\ Dormant(q)
    BY <2>1 DEF StarterIsRight, OnlyTheLatestLives
  <2>3. \A e \in DOMAIN queue : e.run \in 1 .. Len(runs)
    BY <1>0 DEF QueueTypes
  <2>4. DOMAIN queue = {}
    BY <2>2, <2>3 DEF Dormant
  <2>5. \A v \in Workers : \A q : ~Works(v, q)
    BY <2>2, ChunkFields DEF Works, Dormant, Types
  <2>6. PICK d : /\ d.run = r /\ DOMAIN queue' = {d}
                 /\ \A e \in DOMAIN queue' : queue'[e] = 1
    <3>1. Sends(r) /\ r \in Nat \ {0}
      BY <1>0, <2>1 DEF Sends
    <3> QED BY <1>0, <2>4, <3>1, SendsOne
  <2>7. \A v \in Workers : \A q : ~Works(v, q)'
    BY <1>2, <2>1, <2>5
  <2>8. OneLife'
    BY <2>6, <2>7 DEF OneLife
  <2>9. \A q \in 1 .. Len(runs) : Dormant(q)'
    BY <1>0, <2>1, <2>6, <2>7 DEF Dormant
  <2>10. \A q \in 1 .. Len(runs') : q \in 1 .. Len(runs) \/ q = r
    BY <1>0, <2>1
  <2> QED BY <2>1, <2>2, <2>8, <2>9, <2>10 DEF OnlyTheLatestLives
<1>6. ASSUME NEW r \in 1 .. MaxRuns, GracePasses(r)
      PROVE  OneLife' /\ OnlyTheLatestLives'
  <2>1. /\ r \in 1 .. Len(runs) /\ UNCHANGED <<queue, chunk>>
        /\ Len(runs') = Len(runs)
        /\ \A q \in 1 .. Len(runs) : runs'[q].state = runs[q].state
        /\ \A q \in 1 .. Len(runs) \ {r} : runs'[q] = runs[q]
    BY <1>6, GraceSteps
  <2>2. ~Live(r)
    BY <1>6 DEF GracePasses, Delay
  <2>3. Dormant(r)
    BY <2>2, ChunkIsIdle DEF Live, Dormant, Works, BagToSet, Types
  <2>4. OneLife' /\ \A q : Dormant(q) => Dormant(q)'
    BY <1>0, <1>2, <2>1, LifeInNoMessage
  <2> QED BY <2>1, <2>3, <2>4 DEF OnlyTheLatestLives
<1> QED BY <1>1, <1>3, <1>4, <1>5, <1>6, ElsewhereFrame

(* While a chunk lives the tick has nothing to start or to resume.         *)
LEMMA StarterRests ==
  ASSUME Types, OnlyTheLatestLives, StarterIsRight,
         NEW r \in 1 .. Len(runs), runs[r].state = "running",
         runs[r].fresh
  PROVE  starter.at \notin {"resume", "start"}
  BY DEF StarterIsRight, OnlyTheLatestLives

LEMMA StarterRestsWithWork ==
  ASSUME Types, OnlyTheLatestLives, StarterIsRight,
         NEW w \in Workers, chunk[w].at # "idle"
  PROVE  starter.at \notin {"resume", "start"}
<1>1. chunk[w].run \in 1 .. Len(runs)
  BY ChunkFields DEF Types
<1>2. ~Dormant(chunk[w].run)
  BY DEF Dormant, Works
<1>3. runs[chunk[w].run].fresh /\ runs[chunk[w].run].state = "running"
  BY <1>1, <1>2, LiveIsNotDormant
<1> QED BY <1>1, <1>3, StarterRests

(* A start adopts the block of the rows there are.                         *)
LEMMA TargetIsRight ==
  ASSUME Types, OnlyTheLatestLives, RowsOfLatest, ChooseTarget
  PROVE  StarterIsRight'
<1>1. /\ starter'.at = "start" /\ watermark = 0
      /\ Stamps # {} => starter'.head \in Stamps
      /\ UNCHANGED <<runs, row>> /\ runs \in Seq(Manifest)
  BY TargetsAreHeads DEF ChooseTarget, runVars, dbVars, Types, RunTypes
<1>2. \A r \in 1 .. Len(runs) : runs[r].state # "running"
  <2>1. runs # <<>> => runs[Len(runs)].state # "running"
    BY DEF ChooseTarget, ManifestInProgress
  <2> QED BY <1>1, <2>1 DEF OnlyTheLatestLives
<1>3. ASSUME NEW s \in Rows PROVE row[s] = Upto(starter'.head)
  <2>1. PICK n : n = runs[Len(runs)].head
    OBVIOUS
  <2>2. runs # <<>> /\ \A t \in Rows : row[t] = Upto(n)
    BY <1>1, <1>3, <2>1 DEF RowsOfLatest
  <2>3. n \in Block
    <3>1. runs[Len(runs)] \in Manifest
      BY <1>1, <2>2
    <3> QED BY <2>1, <3>1 DEF Manifest
  <2>4. Stamps # {}
    BY <1>3 DEF Stamps
  <2>5. PICK t \in Rows :
          starter'.head = Max({0} \cup {b \in Block : row[t][b] > 0})
    BY <1>1, <2>4 DEF Stamps
  <2>6. starter'.head = n
    BY <2>2, <2>3, <2>5, StampOfUpto
  <2> QED BY <1>3, <2>2, <2>6
<1>4. Rows' = Rows /\ \A n : Upto(n)' = Upto(n)
  BY <1>1 DEF Rows, Upto, Block
<1> QED BY <1>1, <1>2, <1>3, <1>4 DEF StarterIsRight

LEMMA StarterIsRightKept ==
  ASSUME Types, OnlyTheLatestLives, StarterIsRight, RowsOfLatest,
         [Next]_vars
  PROVE  StarterIsRight'
<1>1. CASE starter' = Idle
  BY <1>1 DEF StarterIsRight, Idle
<1>2. CASE SeeStalled
  <2>1. /\ starter' = [at |-> "resume", run |-> Len(runs),
                       m |-> runs[Len(runs)]]
        /\ ~runs[Len(runs)].fresh /\ UNCHANGED runs
    BY <1>2 DEF SeeStalled, Stalled, Latest, runVars
  <2> QED BY <2>1 DEF StarterIsRight
<1>3. ASSUME UNCHANGED starter, starter.at \notin {"resume", "start"}
      PROVE  StarterIsRight'
  BY <1>3 DEF StarterIsRight
<1>4. ASSUME UNCHANGED <<starter, runs>> PROVE StarterIsRight'
  <2>1. ASSUME watermark' = 0, starter.at = "start", NEW s \in Rows'
        PROVE  row'[s] = Upto(starter.head)
    <3>1. UNCHANGED row /\ watermark = 0
      <4>1. ASSUME NEW w \in Workers, SeedPage(w) \/ Breaks(w) PROVE FALSE
        BY <2>1, <4>1, ChunkRows, StarterRestsWithWork
      <4> QED BY <2>1, <4>1, RowsWithoutWatermark
    <3>2. Rows' = Rows
      BY <3>1 DEF Rows
    <3> QED BY <2>1, <3>1, <3>2 DEF StarterIsRight
  <2>2. \A n : Upto(n)' = Upto(n)
    BY DEF Upto, Block
  <2> QED BY <1>4, <2>1, <2>2 DEF StarterIsRight
<1>5. ASSUME NEW w \in Workers, WorkerStep(w), UNCHANGED starter
      PROVE  StarterIsRight'
  <2>1. chunk[w].at # "idle"
    BY <1>5, WorkerSteps DEF WorkerStep
  <2> QED BY <1>3, <1>5, <2>1, StarterRestsWithWork
<1>6. ASSUME NEW w \in Workers, Receive(w), UNCHANGED starter
      PROVE  StarterIsRight'
  BY <1>4, <1>6 DEF Receive
<1>7. ASSUME LoseMessage \/ Elsewhere, UNCHANGED starter
      PROVE  StarterIsRight'
  BY <1>4, <1>7, ElsewhereFrame DEF LoseMessage
<1>8. ASSUME NEW r, GracePasses(r) PROVE StarterIsRight'
  BY <1>3, <1>8, GraceSteps, StarterRests
<1> QED
  BY <1>1, <1>2, <1>5, <1>6, <1>7, <1>8, TargetIsRight, StarterFrame,
     ResumeSteps, StartSteps, NextSteps

(* What is counted: a step that fails, or a grace period over live work.   *)
LEMMA MishapSteps ==
  ASSUME [Next]_vars
  PROVE  \/ UNCHANGED <<faults, delays>>
         \/ /\ Fault /\ UNCHANGED delays
            /\ \/ \E w \in Workers : Breaks(w) \/ Killed(w)
               \/ LoseMessage \/ NightlyFails \/ StarterFails
         \/ Delay /\ UNCHANGED faults
<1>1. ASSUME NEW w \in Workers, Receive(w) \/ Chunk(w)
      PROVE  UNCHANGED <<faults, delays>>
  BY <1>1 DEF Receive, Chunk, TakeLock, SeedPage, HandOver, Advance, Close,
              Shrink, boundVars
<1>2. ASSUME NEW w \in Workers, Breaks(w) \/ Killed(w)
      PROVE  Fault /\ UNCHANGED delays
  BY <1>2 DEF Breaks, Killed
<1>3. ASSUME LoseMessage \/ NightlyFails \/ StarterFails
      PROVE  Fault /\ UNCHANGED delays
  BY <1>3 DEF LoseMessage, NightlyFails, StarterFails
<1>4. ASSUME LockExpires \/ StartNightly \/ NightlyStep
      PROVE  UNCHANGED <<faults, delays>>
  BY <1>4 DEF LockExpires, StartNightly, NightlyStep, ColdCheck, ColdStart,
              SeedMissing, ApplyDelta, boundVars
<1>5. ASSUME SeeStalled \/ Resume \/ ChooseTarget \/ Start
      PROVE  UNCHANGED <<faults, delays>>
  BY <1>5 DEF SeeStalled, Resume, ChooseTarget, Start, boundVars
<1>6. ASSUME HeadMoves \/ NewSafe \/ TickDue \/ UNCHANGED vars
      PROVE  UNCHANGED <<faults, delays>>
  BY <1>6 DEF HeadMoves, NewSafe, TickDue, vars, boundVars
<1>7. ASSUME NEW r, GracePasses(r)
      PROVE  UNCHANGED faults /\ (Delay \/ UNCHANGED delays)
  BY <1>7 DEF GracePasses
<1> QED
  BY <1>1, <1>2, <1>3, <1>4, <1>5, <1>6, <1>7 DEF Next, TickStep

(* Mishaps of one kind only.                                               *)
LEMMA OneKindKept ==
  ASSUME Setting, BoundTypes, faults = 0 \/ delays = 0, [Next]_vars
  PROVE  faults' = 0 \/ delays' = 0
<1>1. \A b \in Mishaps : b[1] \in Nat /\ b[2] \in Nat /\ (b[1] = 0 \/ b[2] = 0)
  BY NativeType DEF Setting
<1>2. ASSUME Fault, UNCHANGED delays PROVE delays' = 0
  <2>1. PICK b \in Mishaps : faults + 1 <= b[1] /\ delays <= b[2]
    BY <1>2 DEF Fault, Within
  <2> QED BY <1>1, <1>2, <2>1 DEF BoundTypes
<1>3. ASSUME Delay, UNCHANGED faults PROVE faults' = 0
  <2>1. PICK b \in Mishaps : faults <= b[1] /\ delays + 1 <= b[2]
    BY <1>3 DEF Delay, Within
  <2> QED BY <1>1, <1>3, <2>1 DEF BoundTypes
<1> QED BY <1>2, <1>3, MishapSteps

LEMMA NoDelayKept ==
  ASSUME Inv, [Next]_vars
  PROVE  NoDelay'
<1> SUFFICES ASSUME delays' = 0
             PROVE  OneLife' /\ OnlyTheLatestLives' /\ StarterIsRight'
  BY DEF NoDelay
<1>1. Types /\ RowsOfLatest /\ delays \in Nat
  BY DEF Inv, Types, BoundTypes
<1>2. delays = 0
  BY <1>1, MishapSteps DEF Delay
<1>3. OneLife /\ OnlyTheLatestLives /\ StarterIsRight
  BY <1>2 DEF Inv, NoDelay
<1>4. StarterIsRight'
  BY <1>1, <1>3, StarterIsRightKept
<1>5. OneLife' /\ OnlyTheLatestLives'
  BY <1>1, <1>2, <1>3, LifeKeptByWorkers, LifeKeptByReceive,
     LifeKeptByOthers, NextSteps
<1> QED BY <1>4, <1>5

(* Without failures a chunk goes on until all Safes are seeded.            *)
LEMMA FaultlessChunk ==
  ASSUME Types, NoFault, faults = 0, NEW w \in Workers, Chunk(w)
  PROVE  /\ chunk'[w].at \notin {"shrink", "fail"}
         /\ \A v \in Workers \ {w} : chunk'[v] = chunk[v]
         /\ watermark' = 0 =>
              /\ chunk'[w].at # "close"
              /\ UNCHANGED runs \/ Stores(chunk[w].run, "running")
<1>0. chunk[w].at # "idle" /\ ChunkTypes /\ RunTypes
  BY WorkerSteps DEF Types
<1>1. /\ chunk[w].run \in 1 .. Len(runs) /\ chunk[w].m \in Manifest
      /\ chunk[w].m.state = "running"
      /\ chunk[w].m.head = runs[chunk[w].run].head
  BY <1>0, ChunkFields
<1>2. chunk[w].at \notin {"shrink", "fail"}
  BY DEF NoFault
<1>3. CASE TakeLock(w)
  <2>1. Stores(chunk[w].run, "running")
    BY <1>0, <1>1, <1>3, SaveStores DEF TakeLock
  <2>2. CASE lock = "free"
    <3>1. chunk' = [chunk EXCEPT ![w].at = "locked"]
      BY <1>3, <2>2 DEF TakeLock
    <3> QED BY <1>0, <2>1, <3>1, ChunkMoves
  <2>3. CASE lock # "free"
    <3>1. chunk' = [chunk EXCEPT ![w] = Idle]
      BY <1>3, <2>3 DEF TakeLock
    <3> QED BY <1>0, <2>1, <3>1, ChunkEnds
  <2> QED BY <2>2, <2>3
<1>4. CASE SeedPage(w)
  <2>1. UNCHANGED runs
    BY <1>4 DEF SeedPage, runVars
  <2> QED BY <1>4, <2>1, ChunkSeeds
<1>5. CASE HandOver(w)
  <2>1. /\ chunk' = [chunk EXCEPT ![w].at = "close"]
        /\ watermark' = IF watermark = 0 THEN chunk[w].m.head ELSE watermark
    BY <1>5 DEF HandOver
  <2>2. chunk[w].m.head # 0
    BY <1>0, ChunkHead DEF Block
  <2> QED BY <1>0, <2>1, <2>2, ChunkMoves
<1>6. CASE Advance(w)
  <2>1. /\ Redispatch(chunk[w].run, chunk[w].m)
        /\ chunk' = [chunk EXCEPT ![w] = Idle]
    BY <1>6 DEF Advance
  <2>2. Stores(chunk[w].run, "running")
    BY <1>0, <1>1, <2>1, RedispatchStores
  <2> QED BY <1>0, <2>1, <2>2, ChunkEnds
<1>7. CASE Close(w)
  <2>1. /\ chunk' = [chunk EXCEPT ![w] = Idle] /\ UNCHANGED watermark
        /\ chunk[w].at = "close"
    BY <1>2, <1>7 DEF Close, dbVars
  <2>2. watermark # 0
    BY <2>1 DEF NoFault
  <2> QED BY <1>0, <2>1, <2>2, ChunkEnds
<1>8. CASE Shrink(w)
  BY <1>2, <1>8 DEF Shrink
<1> QED BY <1>3, <1>4, <1>5, <1>6, <1>7, <1>8 DEF Chunk

(* ... so there is one run, of which there is always more to come.         *)
OneRun ==
  /\ Len(runs) <= 1
  /\ \A r \in 1 .. Len(runs) : runs[r].state = "running"
  /\ starter.at = "start" => runs = <<>>

LEMMA OneRunKept ==
  ASSUME Types, NoFault, faults = 0, faults' = 0, watermark = 0,
         watermark' = 0, [Next]_vars
  PROVE  OneRun'
<1>0. /\ runs \in Seq(Manifest) /\ runs' \in Seq(Manifest) /\ OneRun
  BY HeadsStay DEF Types, RunTypes, NoFault, OneRun
<1>1. CASE Start
  <2>1. /\ starter.at = "start" /\ starter' = Idle
        /\ Len(runs') = Len(runs) + 1
        /\ runs'[Len(runs')].state = "running"
    BY <1>1, StartSteps
  <2>2. runs = <<>>
    BY <1>0, <2>1 DEF OneRun
  <2>3. Len(runs') = 1 /\ starter'.at = "idle"
    BY <2>1, <2>2 DEF Idle
  <2>4. \A r \in 1 .. Len(runs') : r = Len(runs')
    BY <2>3
  <2>5. \A r \in 1 .. Len(runs') : runs'[r].state = "running"
    BY <2>1, <2>4
  <2> QED BY <2>3, <2>5 DEF OneRun
<1>2. CASE ~Start
  <2>1. Len(runs') = Len(runs)
    BY <1>2, OnlyStartAppends
  <2>2. \A r \in 1 .. Len(runs) : runs'[r].state = "running"
    <3>1. ASSUME UNCHANGED runs
          PROVE  \A r \in 1 .. Len(runs) : runs'[r].state = "running"
      BY <1>0, <3>1 DEF OneRun
    <3>2. ASSUME NEW q, Stores(q, "running")
          PROVE  \A r \in 1 .. Len(runs) : runs'[r].state = "running"
      BY <1>0, <3>2 DEF OneRun, Stores
    <3>3. ASSUME NEW w \in Workers, WorkerStep(w)
          PROVE  UNCHANGED runs \/ Stores(chunk[w].run, "running")
      <4>1. Chunk(w) \/ UNCHANGED runs
        BY <3>3 DEF WorkerStep, Breaks, Killed, runVars
      <4> QED BY <4>1, FaultlessChunk
    <3>4. ASSUME NEW w \in Workers, Receive(w) PROVE UNCHANGED runs
      BY <3>4 DEF Receive
    <3>5. ASSUME LoseMessage PROVE UNCHANGED runs
      BY <3>5 DEF LoseMessage
    <3>6. ASSUME NEW r \in 1 .. MaxRuns, GracePasses(r)
          PROVE  \A q \in 1 .. Len(runs) : runs'[q].state = "running"
      BY <1>0, <3>6, GraceSteps DEF OneRun
    <3> QED
      BY <1>2, <3>1, <3>2, <3>3, <3>4, <3>5, <3>6, ResumeSteps,
         ElsewhereFrame, NextSteps
  <2>3. starter'.at = "start" => runs' = <<>>
    <3>1. ASSUME ChooseTarget PROVE runs = <<>>
      <4>1. runs = <<>> \/ runs[Len(runs)].state # "running"
        BY <3>1 DEF ChooseTarget, ManifestInProgress
      <4> QED BY <1>0, <4>1 DEF OneRun
    <3>2. ASSUME SeeStalled \/ starter' = Idle PROVE starter'.at # "start"
      BY <3>2 DEF SeeStalled, Idle
    <3>3. runs = <<>> => runs' = <<>>
      BY <1>0, <2>1
    <3> QED BY <1>0, <3>1, <3>2, <3>3, StarterFrame DEF OneRun
  <2> QED BY <1>0, <2>1, <2>2, <2>3 DEF OneRun
<1> QED BY <1>1, <1>2

LEMMA NoFaultKept ==
  ASSUME Types, NoFault, [Next]_vars
  PROVE  NoFault'
<1> SUFFICES ASSUME faults' = 0
             PROVE  /\ \A w \in Workers :
                         chunk'[w].at \notin {"shrink", "fail"}
                    /\ watermark' = 0 =>
                         /\ \A w \in Workers : chunk'[w].at # "close"
                         /\ OneRun'
  BY DEF NoFault, OneRun
<1>1. faults \in Nat /\ ChunkTypes
  BY DEF Types, BoundTypes
<1>2. faults = 0 /\ ~Fault
  BY <1>1, MishapSteps DEF Fault
<1>3. watermark' = 0 => watermark = 0
  BY RowsWithoutWatermark
<1>4. watermark' = 0 => OneRun'
  BY <1>2, <1>3, OneRunKept
<1>5. ASSUME NEW w \in Workers
      PROVE  /\ chunk'[w].at \notin {"shrink", "fail"}
             /\ watermark' = 0 => chunk'[w].at # "close"
  <2>1. CASE chunk'[w] = chunk[w]
    BY <1>2, <1>3, <2>1 DEF NoFault
  <2>2. ASSUME NEW v \in Workers, WorkerStep(v), chunk'[w] # chunk[w]
        PROVE  /\ chunk'[w].at \notin {"shrink", "fail"}
               /\ watermark' = 0 => chunk'[w].at # "close"
    <3>1. Chunk(v)
      BY <1>2, <2>2 DEF WorkerStep, Breaks, Killed
    <3>2. w = v
      BY <1>2, <2>2, <3>1, FaultlessChunk
    <3> QED BY <1>2, <3>1, <3>2, FaultlessChunk
  <2>3. ASSUME NEW v \in Workers, Receive(v), chunk'[w] # chunk[w]
        PROVE  chunk'[w].at = "loaded"
    BY <2>3, ChunkReceives
  <2>4. ASSUME LoseMessage PROVE UNCHANGED chunk
    BY <2>4 DEF LoseMessage
  <2> QED
    BY <2>1, <2>2, <2>3, <2>4, ResumeSteps, StartSteps, GraceSteps,
       ElsewhereFrame, NextSteps
<1> QED BY <1>4, <1>5

-----------------------------------------------------------------------------
LEMMA InitInv == Init => Inv
<1> SUFFICES ASSUME Init PROVE Inv
  OBVIOUS
<1>1. /\ Rows = {} /\ runs = <<>> /\ watermark = 0 /\ faults = 0
      /\ \A w \in Workers : chunk[w].at = "idle"
      /\ starter.at = "idle"
  BY DEF Init, Rows, Idle
<1>2. DOMAIN queue = {}
  BY DEF Init, EmptyBag, SetToBag
<1>3. OneLife
  BY <1>1, <1>2 DEF OneLife, Works
<1>4. OnlyTheLatestLives /\ StarterIsRight /\ NoFault
  BY <1>1 DEF OnlyTheLatestLives, StarterIsRight, NoFault
<1> QED
  BY <1>1, <1>3, <1>4, InitTypes
     DEF Inv, RowsOfWatermark, RowsOfLatest, NoDelay

LEMMA InvImplies == Inv => RowsAreExact
<1> SUFFICES ASSUME Inv PROVE RowsAreExact
  OBVIOUS
<1>1. watermark # 0 => \A s \in Rows \ stray : Exact(s)
  BY DEF Inv, RowsOfWatermark
<1>2. ASSUME watermark = 0 PROVE Cardinality(Stamps) <= 1
  <2>1. CASE Rows = {}
    <3>1. Stamps = {}
      BY <2>1 DEF Stamps
    <3> QED BY <3>1, FS_EmptySet
  <2>2. CASE Rows # {}
    <3>1. PICK n : n = runs[Len(runs)].head
      OBVIOUS
    <3>2. runs # <<>> /\ \A s \in Rows : row[s] = Upto(n)
      BY <1>2, <2>2, <3>1 DEF Inv, RowsOfLatest
    <3>3. n \in Block
      <4>1. runs[Len(runs)] \in Manifest
        BY <3>2 DEF Inv, Types, RunTypes
      <4> QED BY <3>1, <4>1 DEF Manifest
    <3>4. \A s \in Rows : Max({0} \cup {b \in Block : row[s][b] > 0}) = n
      BY <3>2, <3>3, StampOfUpto
    <3>5. Stamps = {n}
      BY <2>2, <3>4 DEF Stamps
    <3> QED BY <3>5, FS_Singleton
  <2> QED BY <2>1, <2>2
<1> QED BY <1>1, <1>2 DEF RowsAreExact, StampsAgree

LEMMA InvKept ==
  ASSUME Setting, Inv, [Next]_vars
  PROVE  Inv'
<1>1. Types /\ NoFault /\ BoundTypes /\ (faults = 0 \/ delays = 0)
  BY DEF Inv, Types
<1> QED
  BY <1>1, TypesKept, RowsOfWatermarkKept, RowsOfLatestKept, NoDelayKept,
     NoFaultKept, OneKindKept DEF Inv

(* With mishaps of one kind, however many: a backfill can always be        *)
(* adopted as long as there is no watermark, and afterwards every row that *)
(* is no stray holds each flow up to the watermark exactly once.           *)
THEOREM RowsAreAlwaysExact ==
  ASSUME Setting
  PROVE  Spec => []RowsAreExact
<1>1. Inv /\ [Next]_vars => Inv'
  BY InvKept
<1> QED BY <1>1, InitInv, InvImplies, PTL DEF Spec
=============================================================================
