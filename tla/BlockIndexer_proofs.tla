------------------------ MODULE BlockIndexer_proofs ------------------------
(***************************************************************************)
(* The index against a chain that reorganises, for every tree of blocks,   *)
(* any addresses and any number of recoveries:                             *)
(*                                                                         *)
(* - an address never passes a block whose row a recovery has deleted      *)
(*   before that block has been asked for again.  It takes a window no     *)
(*   longer than the rewind of a recovery, and a recovery that no step of  *)
(*   the indexer divides;                                                  *)
(* - a confirmed row is of the chain.  It takes reorganisations that are   *)
(*   shallower than confirmed rows;                                        *)
(* - an event that is kept is of a transaction of the chain, once the rows *)
(*   agree with the chain.  It takes a node that returns to no branch.     *)
(***************************************************************************)
EXTENDS BlockIndexer, FiniteSetTheorems, WellFoundedInduction, TLAPS

(* A task in the middle of a window.                                       *)
InWindow == task.pc \in {"logs", "receipts", "txs", "blocks", "insert",
                         "timestamps", "store", "update"}
(* The same with the logs of the window in its hands.                      *)
HasLogs == task.pc \in {"receipts", "txs", "blocks", "insert", "timestamps",
                        "store", "update"}

TaskInv ==
  /\ task.pc = "search" \/ InWindow => task.addrs # {}
  /\ task.pc \in {"blocks", "insert"} =>
       \A k \in task.txs : \E j \in task.receipts : j[1] = k[1]
  /\ \A k \in task.txs : Height[k[2]] >= RewindBlocks

(* Rows are those of blocks with events.                                   *)
RowsAreLate ==
  /\ \A n \in Number : dbBlock[n] # NoBlock => n >= RewindBlocks
  /\ reorg.pc \in {"reset", "commit"} => reorg.bad >= RewindBlocks

(* The limit bounds the window, the blocks it goes back included.          *)
WindowIsShort == InWindow => task.to + 1 <= task.from + RewindBlocks

(* What a recovery holds in its transaction: the addresses ahead.          *)
OthersAreSafe ==
  reorg.pc = "commit" =>
    \A a \in Addr : IF a \in reorg.locked THEN txBlockNumber[a] >= SafeBlock
                                         ELSE txBlockNumber[a] <= SafeBlock

(* If the update of a task still finds an address, the erased blocks the   *)
(* task has not seen again lie behind its window.                          *)
StaleIsOutside ==
  HasLogs =>
    \A e \in erased : e[2] \notin task.valid /\ task.from <= txBlockNumber[e[1]]
                      => task.to + 1 <= e[2]

IInv ==
  /\ TypeOK /\ TaskInv /\ RowsAreLate /\ WindowIsShort /\ OthersAreSafe
  /\ StaleIsOutside /\ ErasedIsRescanned

-----------------------------------------------------------------------------
(* Every set of naturals that is not empty has a least element.            *)
LEMMA LeastIsLeast ==
  ASSUME NEW S \in SUBSET Nat, S # {}
  PROVE  Least(S) \in S /\ \A m \in S : Least(S) <= m
<1> DEFINE R == OpToRel(<, Nat)
<1>1. IsWellFoundedOn(R, Nat)
  BY NatLessThanWellFounded
<1>2. \E x \in S : \A y \in S : ~ (<<y, x>> \in R)
  <2> HIDE DEF R
  <2> QED BY <1>1, WFMin
<1>3. \E x \in S : \A y \in S : x <= y
  <2>1. R = {ss \in Nat \X Nat : ss[1] < ss[2]}
    BY Zenon DEF OpToRel
  <2> HIDE DEF R
  <2>2. ASSUME NEW x \in Nat, NEW y \in Nat, x < y PROVE <<x, y>> \in R
    BY <2>1, <2>2
  <2>3. PICK x \in S : \A y \in S : ~ (<<y, x>> \in R)
    BY <1>2
  <2>4. \A y \in S : ~ (y < x)
    BY <2>2, <2>3
  <2>5. \A y \in S : y \in Nat /\ x \in Nat
    BY <2>3
  <2> QED BY <2>3, <2>4, <2>5
<1> QED BY <1>3 DEF Least

(* The tree has a highest block.                                           *)
LEMMA MaxHeightIsMax ==
  /\ MaxHeight \in Nat /\ Number \in SUBSET Nat
  /\ \A b \in Block : Height[b] \in Number
<1>1. \E n \in {Height[b] : b \in Block} : \A b \in Block : Height[b] <= n
  BY TreeType
<1>2. /\ MaxHeight \in {Height[b] : b \in Block}
      /\ \A b \in Block : Height[b] <= MaxHeight
  BY <1>1 DEF MaxHeight
<1> QED BY <1>2, TreeType DEF Number

(* Block numbers and tx_block_number are naturals.                          *)
LEMMA PositionsAreNat ==
  /\ \A n : n \in Number => n \in Nat
  /\ \A n : n \in 0 .. MaxHeight + 1 => n \in Nat
  BY MaxHeightIsMax DEF Number

(* The cut at block 0 of a rewind does not bite above it.                   *)
LEMMA LargerOfDifference ==
  ASSUME NEW m \in Nat, NEW n \in Nat, m >= n
  PROVE  Larger(m - n, 0) = m - n /\ Larger(m - n, 0) \in Nat
  BY DEF Larger

(* The records of idle tasks have their types.                             *)
LEMMA IdleTyped == IdleTask \in Tasks /\ IdleReorg \in Reorgs
<1>1. (CHOOSE p \in Proc : TRUE) \in Proc
  BY ProcType
<1>2. 0 \in Number
  BY MaxHeightIsMax DEF Number
<1> QED BY <1>1, <1>2 DEF IdleTask, IdleReorg, Tasks, Reorgs

-----------------------------------------------------------------------------
(* Types: the steps of the indexing task.                                  *)
LEMMA TaskTyped ==
  ASSUME TypeOK, TaskInv,
         (\E p \in Proc : Start(p)) \/ IndexerStep \/ TaskFails
  PROVE  TypeOK'
<1> USE TreeType, MaxHeightIsMax DEF TypeOK
<1>1. ASSUME NEW p \in Proc, Start(p) PROVE TypeOK'
  <2>1. task' \in Tasks
    BY <1>1, IdleTyped DEF Start, Tasks
  <2> QED BY <1>1, <2>1 DEF Start, database
<1>2. CASE SelectAddresses
  <2>1. task' \in Tasks
    BY <1>2, IdleTyped DEF SelectAddresses, Tasks, GetAlmostUpdatedAddresses,
       GetNotUpdatedAddresses
  <2> QED BY <1>2, <2>1 DEF SelectAddresses, database
<1>3. CASE GetBlockNumbersForSearch
  <2>1. task' \in Tasks
    <3> DEFINE from == GetFromBlockNumber(task.addrs)
    <3>1. from \in 0 .. MaxHeight + 1
      <4> DEFINE S == {txBlockNumber[a] : a \in task.addrs}
      <4>1. S \in SUBSET (0 .. MaxHeight + 1) /\ S # {}
        <5>1. task.addrs # {} /\ task.addrs \in SUBSET Addr
          BY <1>3 DEF Tasks, TaskInv, GetBlockNumbersForSearch, TaskAt
        <5> QED BY <5>1
      <4>2. S \in SUBSET Nat
        BY <4>1
      <4> HIDE DEF S
      <4>3. Least(S) \in S
        BY <4>1, <4>2, LeastIsLeast
      <4> QED BY <4>1, <4>3 DEF S, GetFromBlockNumber
    <3> HIDE DEF from
    <3>2. Finished(task) \in Tasks
      BY IdleTyped DEF Finished, Tasks
    <3>3. ASSUME task.cur - from >= Confirmations, NEW limit \in Limits,
                 NEW to, to = Smaller(from + limit - 1, task.cur - Confirmations)
          PROVE  /\ to \in Number
                 /\ ReindexFrom(from, to, task.cur, limit) \in Number
      <4>1. limit \in Nat \ {0} /\ task.cur \in Number
        BY LimitsType DEF Tasks
      <4>2. to \in Number /\ to >= from /\ to <= from + limit - 1
        BY <3>1, <3>3, <4>1, SettingsType DEF Number, Smaller
      <4>3. from \in Number
        BY <3>1, <3>3, <4>1, SettingsType DEF Number
      <4> QED BY <4>1, <4>2, <4>3, SettingsType
              DEF Number, ReindexFrom, Larger, Smaller
    <3>4. CASE task.cur - from < Confirmations
      BY <1>3, <3>2, <3>4 DEF GetBlockNumbersForSearch, from
    <3>5. CASE ~ (task.cur - from < Confirmations)
      <4>1. PICK limit \in Limits :
              LET to == Smaller(from + limit - 1, task.cur - Confirmations) IN
              task' = [task EXCEPT !.pc = "logs", !.to = to,
                         !.from = ReindexFrom(from, to, task.cur, limit)]
        BY <1>3, <3>5 DEF GetBlockNumbersForSearch, from
      <4>2. task.cur - from >= Confirmations
        BY <3>1, <3>5, SettingsType DEF Tasks, Number
      <4> QED BY <3>3, <4>1, <4>2 DEF Tasks
    <3> QED BY <3>4, <3>5
  <2> QED BY <1>3, <2>1 DEF GetBlockNumbersForSearch, database
<1>4. CASE FindRelevantElements
  <2>1. task.from .. task.to \in SUBSET Number
    BY DEF Tasks, Number
  <2>2. task' \in Tasks
    BY <1>4, <2>1 DEF FindRelevantElements, Tasks
  <2>3. skipped' \in SUBSET Keys
    BY <1>4 DEF FindRelevantElements
  <2> QED BY <1>4, <2>2, <2>3 DEF FindRelevantElements, database
<1>5. CASE GetTransactionReceipts
  <2>1. LogTxs \in SUBSET Tx
    BY DEF LogTxs, Tasks, Keys
  <2>2. \A t : Mined(t) \in SUBSET Block
    BY DEF Mined
  <2>3. UNION {{t} \X Mined(t) : t \in {t \in LogTxs : dbTx[t] = NoTx}}
          \in SUBSET Keys
    BY <2>1, <2>2 DEF Keys
  <2>4. task' \in Tasks
    BY <1>5, <2>3 DEF GetTransactionReceipts, Tasks
  <2> QED BY <1>5, <2>4 DEF GetTransactionReceipts, database
<1>6. CASE GetTransactions
  <2>1. {k[1] : k \in task.receipts} \in SUBSET Tx
    BY DEF Tasks, Keys
  <2>2. \A t : Mined(t) \in SUBSET Block
    BY DEF Mined
  <2>3. UNION {{t} \X Mined(t) : t \in {k[1] : k \in task.receipts}}
          \in SUBSET Keys
    BY <2>1, <2>2 DEF Keys
  <2>4. Height[head] \in Number
    OBVIOUS
  <2>5. task' \in Tasks
    BY <1>6, <2>3, <2>4 DEF GetTransactions, Tasks
  <2> QED BY <1>6, <2>5 DEF GetTransactions, database
<1>7. CASE InsertBlocks
  <2> DEFINE blocks == {k[2] : k \in task.txs}
             new == {b \in blocks : dbBlock[Height[b]] = NoBlock}
             numbers == {Height[b] : b \in new}
  <2>1. new \in SUBSET Block /\ numbers \in SUBSET Number
    BY DEF Tasks, Keys
  <2>2. \A n \in numbers : (CHOOSE b \in new : Height[b] = n) \in new
    OBVIOUS
  <2>3. dbBlock' = [n \in Number |->
                     IF n \in numbers THEN CHOOSE b \in new : Height[b] = n
                                      ELSE dbBlock[n]]
    BY <1>7 DEF InsertBlocks
  <2>4. confirmed' = confirmed \cup
          {n \in numbers : Height[head] - n >= EthReorgBlocks}
    BY <1>7 DEF InsertBlocks
  <2> HIDE DEF new, numbers
  <2>5. dbBlock' \in [Number -> Block \cup {NoBlock}]
    BY <2>1, <2>2, <2>3
  <2>6. confirmed' \in SUBSET Number
    BY <2>1, <2>4
  <2>7. task' \in Tasks
    BY <1>7 DEF InsertBlocks, Tasks
  <2> QED BY <1>7, <2>5, <2>6, <2>7 DEF InsertBlocks
<1>8. CASE InsertTxs
  <2>1. task' \in Tasks
    BY <1>8 DEF InsertTxs, Tasks
  <2>2. ASSUME NEW t \in Tx, \E k \in task.txs : k[1] = t
        PROVE  /\ Height[(CHOOSE k \in task.txs : k[1] = t)[2]] \in Number
               /\ (CHOOSE k \in task.receipts : k[1] = t)[2] \in Block
    <3>1. \E k \in task.receipts : k[1] = t
      BY <1>8, <2>2 DEF TaskInv, InsertTxs, TaskAt
    <3>2. (CHOOSE k \in task.txs : k[1] = t) \in Keys
      BY <2>2 DEF Tasks
    <3>3. (CHOOSE k \in task.receipts : k[1] = t) \in Keys
      BY <3>1 DEF Tasks
    <3> QED BY <3>2, <3>3 DEF Keys
  <2>3. dbTx' \in [Tx -> [number : Number \cup {NoNumber},
                         receipt : Block \cup {NoBlock}]]
    BY <1>8, <2>2 DEF InsertTxs
  <2> QED BY <1>8, <2>1, <2>3 DEF InsertTxs
<1>9. CASE PrefetchTimestamps
  <2>1. task' \in Tasks
    BY <1>9 DEF PrefetchTimestamps, Tasks
  <2> QED BY <1>9, <2>1 DEF PrefetchTimestamps, database
<1>10. CASE StoreElements
  <2>1. task' \in Tasks
    BY <1>10 DEF StoreElements, Tasks
  <2> DEFINE new == {k \in task.logs : dbElement[k[1]] = NoBlock
                                     /\ dbTx[k[1]] # NoTx}
  <2>2. dbElement' = [t \in Tx |->
         IF \E k \in new : k[1] = t THEN (CHOOSE k \in new : k[1] = t)[2]
                                   ELSE dbElement[t]]
    BY <1>10 DEF StoreElements
  <2>3. new \in SUBSET Keys /\ task.logs \in SUBSET Keys
    BY DEF Tasks
  <2>4. cache' \in [Proc -> SUBSET Keys]
    BY <1>10, <2>3 DEF StoreElements
  <2> HIDE DEF new
  <2>5. ASSUME NEW t \in Tx, \E k \in new : k[1] = t
        PROVE  (CHOOSE k \in new : k[1] = t)[2] \in Block
    <3>1. (CHOOSE k \in new : k[1] = t) \in Keys
      BY <2>3, <2>5
    <3> QED BY <3>1 DEF Keys
  <2>6. dbElement' \in [Tx -> Block \cup {NoBlock}]
    BY <2>2, <2>5
  <2>7. skipped' \in SUBSET Keys
    BY <1>10 DEF StoreElements
  <2> QED BY <1>10, <2>1, <2>4, <2>6, <2>7 DEF StoreElements
<1>11. CASE UpdateMonitoredAddresses
  <2>1. task' \in Tasks
    <3> DEFINE done == [task EXCEPT !.logs = {}, !.receipts = {}, !.txs = {},
                              !.valid = {}, !.seenAt = 0, !.pc = "search"]
    <3>1. 0 \in Number
      BY DEF Number
    <3>2. done \in Tasks
      BY <3>1 DEF Tasks
    <3>3. task' = IF task.to = task.cur - Confirmations
                  THEN Finished(done) ELSE done
      BY <1>11 DEF UpdateMonitoredAddresses
    <3> HIDE DEF done
    <3>4. Finished(done) \in Tasks
      BY <3>2, IdleTyped DEF Finished, Tasks
    <3> QED BY <3>2, <3>3, <3>4
  <2>2. task.to + 1 \in 0 .. MaxHeight + 1
    BY DEF Tasks, Number
  <2>3. txBlockNumber' \in [Addr -> 0 .. MaxHeight + 1]
    BY <1>11, <2>2 DEF UpdateMonitoredAddresses
  <2>4. erased' \in SUBSET (Addr \X Number)
    BY <1>11 DEF UpdateMonitoredAddresses
  <2> QED BY <1>11, <2>1, <2>3, <2>4 DEF UpdateMonitoredAddresses
<1>12. CASE RaiseException
  BY <1>12, IdleTyped DEF RaiseException, database
<1>13. CASE TaskFails
  BY <1>13, IdleTyped, BoundsType DEF TaskFails, database
<1> QED
  BY <1>1, <1>2, <1>3, <1>4, <1>5, <1>6, <1>7, <1>8, <1>9, <1>10, <1>11,
     <1>12, <1>13 DEF IndexerStep

(* Types: the steps of the chain, of the reorg task and of failures.       *)
LEMMA OthersTyped ==
  ASSUME TypeOK,
         \/ \E b \in Block : MoveHead(b)
         \/ \E p \in Proc : CheckReorgs(p) \/ Crash(p)
         \/ ReorgStep \/ ReorgTaskFails
  PROVE  TypeOK'
<1> USE TreeType, MaxHeightIsMax DEF TypeOK
<1>1. ASSUME NEW b \in Block, MoveHead(b) PROVE TypeOK'
  BY <1>1 DEF MoveHead, database
<1>2. ASSUME NEW p \in Proc, CheckReorgs(p) PROVE TypeOK'
  <2> DEFINE unconfirmed == {n \in Number \ confirmed : dbBlock[n] # NoBlock}
  <2>1. unconfirmed \in SUBSET Nat /\ unconfirmed # {}
    BY <1>2 DEF CheckReorgs
  <2>2. Least(unconfirmed) \in unconfirmed
    <3> HIDE DEF unconfirmed
    <3> QED BY <2>1, LeastIsLeast
  <2>3. reorg' = [IdleReorg EXCEPT !.pc = "current", !.proc = p,
                                  !.first = Least(unconfirmed)]
    BY <1>2 DEF CheckReorgs
  <2>4. Least(unconfirmed) \in Number
    BY <2>2
  <2>5. reorg' \in Reorgs
    <3> HIDE DEF unconfirmed
    <3> QED BY <2>3, <2>4, IdleTyped DEF Reorgs
  <2> QED BY <1>2, <2>5 DEF CheckReorgs, database
<1>3. ASSUME NEW p \in Proc, Crash(p) PROVE TypeOK'
  BY <1>3, IdleTyped, BoundsType DEF Crash, database
<1>4. CASE ReadCurrentBlockNumber
  <2>1. reorg' \in Reorgs
    BY <1>4 DEF ReadCurrentBlockNumber, Reorgs
  <2> QED BY <1>4, <2>1 DEF ReadCurrentBlockNumber, database
<1>5. ASSUME NEW answered \in SUBSET RowsToCheck, CompareBlocks(answered)
      PROVE  TypeOK'
  <2> DEFINE bad == {n \in answered : dbBlock[n] \notin Canonical}
  <2>1. bad \in SUBSET Number /\ bad \in SUBSET Nat
    BY DEF RowsToCheck
  <2>2. reorg' = IF bad = {} THEN IdleReorg
                 ELSE [reorg EXCEPT !.pc = "reset", !.bad = Least(bad)]
    BY <1>5 DEF CompareBlocks
  <2>3. confirmed' \in SUBSET Number
    BY <1>5 DEF CompareBlocks, RowsToCheck
  <2> HIDE DEF bad
  <2>4. bad # {} => Least(bad) \in Number
    BY <2>1, LeastIsLeast
  <2>5. reorg' \in Reorgs
    BY <2>2, <2>4, IdleTyped DEF Reorgs
  <2> QED BY <1>5, <2>3, <2>5 DEF CompareBlocks
<1>6. CASE ResetAllToBlock
  <2>1. reorg' \in Reorgs
    BY <1>6 DEF ResetAllToBlock, Reorgs
  <2>2. task' \in Tasks
    BY <1>6 DEF ResetAllToBlock, Tasks, Reorgs
  <2>3. cache' \in [Proc -> SUBSET Keys]
    BY <1>6 DEF ResetAllToBlock
  <2> QED BY <1>6, <2>1, <2>2, <2>3 DEF ResetAllToBlock, database
<1>7. CASE RecoverFromReorg
  <2>1. SafeBlock \in 0 .. MaxHeight + 1
    BY SettingsType DEF SafeBlock, Larger, Reorgs, Number
  <2>2. txBlockNumber' \in [Addr -> 0 .. MaxHeight + 1]
    BY <1>7, <2>1 DEF RecoverFromReorg
  <2>3. dbBlock' \in [Number -> Block \cup {NoBlock}]
    BY <1>7 DEF RecoverFromReorg
  <2>4. dbTx' \in [Tx -> [number : Number \cup {NoNumber},
                         receipt : Block \cup {NoBlock}]]
    BY <1>7 DEF RecoverFromReorg, NoTx
  <2>5. dbElement' \in [Tx -> Block \cup {NoBlock}]
    BY <1>7 DEF RecoverFromReorg
  <2>6. erased' \in SUBSET (Addr \X Number)
    BY <1>7 DEF RecoverFromReorg
  <2>7. task' \in Tasks
    BY <1>7 DEF RecoverFromReorg, Tasks
  <2>8. confirmed' \in SUBSET Number
    BY <1>7 DEF RecoverFromReorg
  <2> QED BY <1>7, <2>2, <2>3, <2>4, <2>5, <2>6, <2>7, <2>8, IdleTyped
          DEF RecoverFromReorg
<1>8. CASE ReorgTaskFails
  BY <1>8, IdleTyped, BoundsType DEF ReorgTaskFails, database
<1> QED BY <1>1, <1>2, <1>3, <1>4, <1>5, <1>6, <1>7, <1>8 DEF ReorgStep

-----------------------------------------------------------------------------
(* What a step needs to know of the data a task holds.                     *)
LEMMA TaskInvStep ==
  ASSUME TypeOK, TypeOK', TaskInv, [Next]_vars
  PROVE  TaskInv'
<1> USE TreeType, EventsComeLater DEF TypeOK, TaskInv, InWindow
<1>0. IdleTask.pc = "idle" /\ IdleTask.txs = {}
  BY DEF IdleTask
<1>1. CASE UNCHANGED task
  BY <1>1
<1>2. ASSUME NEW p \in Proc, Start(p) PROVE TaskInv'
  BY <1>0, <1>2 DEF Start, IdleTask
<1>3. CASE SelectAddresses
  BY <1>0, <1>3 DEF SelectAddresses, Tasks, TaskAt
<1>4. CASE GetBlockNumbersForSearch
  <2>1. task.pc = "search" /\ task.addrs # {}
    BY <1>4 DEF GetBlockNumbersForSearch, TaskAt
  <2>2. CASE task' = Finished(task)
    BY <1>0, <2>1, <2>2 DEF Finished, Tasks
  <2>3. CASE \E from, to : task' = [task EXCEPT !.pc = "logs", !.to = to,
                                              !.from = from]
    BY <2>1, <2>3 DEF Tasks
  <2> QED BY <1>4, <2>2, <2>3 DEF GetBlockNumbersForSearch
<1>5. CASE FindRelevantElements
  BY <1>5 DEF FindRelevantElements, Tasks, TaskAt
<1>6. CASE GetTransactionReceipts
  BY <1>6 DEF GetTransactionReceipts, Tasks, TaskAt
<1>7. CASE GetTransactions
  <2> DEFINE asked == {k[1] : k \in task.receipts}
  <2>1. task' = [task EXCEPT !.pc = "blocks", !.seenAt = Height[head],
                          !.txs = UNION {{t} \X Mined(t) : t \in asked}]
    BY <1>7 DEF GetTransactions
  <2>2. \A k \in task'.txs : k[1] \in asked /\ k[2] \in Mined(k[1])
    <3>1. task'.txs = UNION {{t} \X Mined(t) : t \in asked}
      BY <2>1 DEF Tasks
    <3> HIDE DEF asked
    <3> QED BY <3>1
  <2>3. \A k \in task'.txs : \E j \in task'.receipts : j[1] = k[1]
    <3>1. task'.receipts = task.receipts
      BY <2>1 DEF Tasks
    <3> QED BY <2>2, <3>1
  <2>4. \A k \in task'.txs : Height[k[2]] >= RewindBlocks
    BY <2>2 DEF Mined
  <2> HIDE DEF asked
  <2>5. task'.addrs = task.addrs
    BY <2>1 DEF Tasks
  <2>6. task.addrs # {}
    BY <1>7 DEF GetTransactions, TaskAt
  <2> QED BY <2>3, <2>4, <2>5, <2>6
<1>8. CASE InsertBlocks \/ InsertTxs \/ PrefetchTimestamps \/ StoreElements
  BY <1>8 DEF InsertBlocks, InsertTxs, PrefetchTimestamps, StoreElements,
     Tasks, TaskAt
<1>9. CASE UpdateMonitoredAddresses
  BY <1>0, <1>9 DEF UpdateMonitoredAddresses, Finished, Tasks, TaskAt
<1>10. CASE RaiseException \/ TaskFails
  BY <1>0, <1>10 DEF RaiseException, TaskFails
<1>11. CASE ResetAllToBlock
  BY <1>11 DEF ResetAllToBlock, Tasks
<1>12. CASE RecoverFromReorg
  BY <1>12 DEF RecoverFromReorg, Tasks
<1>13. ASSUME NEW p \in Proc, Crash(p) PROVE TaskInv'
  BY <1>0, <1>1, <1>13 DEF Crash
<1> QED
  BY <1>1, <1>2, <1>3, <1>4, <1>5, <1>6, <1>7, <1>8, <1>9, <1>10, <1>11,
     <1>12, <1>13
  DEF Next, IndexerStep, ReorgStep, MoveHead, CheckReorgs, CompareBlocks,
      ReadCurrentBlockNumber, ReorgTaskFails, vars

(* Rows come from the transactions a task holds, a recovery from a row.    *)
LEMMA RowsAreLateStep ==
  ASSUME TypeOK, TypeOK', TaskInv, RowsAreLate, [Next]_vars
  PROVE  RowsAreLate'
<1> USE TreeType, MaxHeightIsMax DEF TypeOK, RowsAreLate
<1>0. IdleReorg.pc = "idle"
  BY DEF IdleReorg
<1>1. CASE InsertBlocks
  <2> DEFINE blocks == {k[2] : k \in task.txs}
             new == {b \in blocks : dbBlock[Height[b]] = NoBlock}
             numbers == {Height[b] : b \in new}
  <2>1. \A n \in Number : n \notin numbers => dbBlock'[n] = dbBlock[n]
    BY <1>1 DEF InsertBlocks
  <2>2. \A n \in numbers : n >= RewindBlocks
    BY DEF TaskInv
  <2>3. reorg' = reorg
    BY <1>1 DEF InsertBlocks
  <2> HIDE DEF numbers
  <2> QED BY <2>1, <2>2, <2>3
<1>2. ASSUME NEW answered \in SUBSET RowsToCheck, CompareBlocks(answered)
      PROVE  RowsAreLate'
  <2> DEFINE bad == {n \in answered : dbBlock[n] \notin Canonical}
  <2>1. bad \in SUBSET Nat /\ \A n \in bad : n >= RewindBlocks
    BY DEF RowsToCheck
  <2>2. reorg' = IF bad = {} THEN IdleReorg
                 ELSE [reorg EXCEPT !.pc = "reset", !.bad = Least(bad)]
    BY <1>2 DEF CompareBlocks
  <2>3. dbBlock' = dbBlock
    BY <1>2 DEF CompareBlocks
  <2> HIDE DEF bad
  <2>4. bad # {} => Least(bad) >= RewindBlocks
    BY <2>1, LeastIsLeast
  <2>5. CASE bad = {}
    BY <1>0, <2>2, <2>3, <2>5
  <2>6. CASE bad # {}
    BY <2>2, <2>3, <2>4, <2>6 DEF Reorgs
  <2> QED BY <2>5, <2>6
<1>3. CASE RecoverFromReorg
  BY <1>0, <1>3 DEF RecoverFromReorg
<1>4. CASE ResetAllToBlock
  BY <1>4 DEF ResetAllToBlock, database, Reorgs
<1>5. CASE ReadCurrentBlockNumber
  BY <1>5 DEF ReadCurrentBlockNumber, database, Reorgs
<1>6. ASSUME NEW p \in Proc, CheckReorgs(p) PROVE RowsAreLate'
  BY <1>6 DEF CheckReorgs, database, IdleReorg
<1>7. ASSUME NEW p \in Proc, Crash(p) PROVE RowsAreLate'
  BY <1>0, <1>7 DEF Crash, database
<1>8. CASE ReorgTaskFails
  BY <1>0, <1>8 DEF ReorgTaskFails, database
<1>9. CASE UNCHANGED <<dbBlock, reorg>>
  BY <1>9
<1> QED
  BY <1>1, <1>2, <1>3, <1>4, <1>5, <1>6, <1>7, <1>8, <1>9
  DEF Next, IndexerStep, ReorgStep, MoveHead, Start, SelectAddresses, TaskFails,
      GetBlockNumbersForSearch, FindRelevantElements, GetTransactionReceipts,
      GetTransactions, InsertTxs, PrefetchTimestamps, StoreElements,
      UpdateMonitoredAddresses, RaiseException, database, vars

(* The window of a task, once chosen, stays; see ReindexFrom.              *)
LEMMA WindowIsShortStep ==
  ASSUME \A l \in Limits : l <= RewindBlocks,
         TypeOK, TypeOK', TaskInv, WindowIsShort, [Next]_vars
  PROVE  WindowIsShort'
<1> USE DEF TypeOK, WindowIsShort, InWindow
<1>0. IdleTask.pc = "idle"
  BY DEF IdleTask
<1>1. CASE GetBlockNumbersForSearch
  <2> DEFINE from == GetFromBlockNumber(task.addrs)
  <2>0. from \in Nat /\ task.cur \in Nat
    <3> DEFINE S == {txBlockNumber[a] : a \in task.addrs}
    <3>1. task.addrs # {} /\ task.addrs \in SUBSET Addr
      BY <1>1 DEF GetBlockNumbersForSearch, TaskAt, TaskInv, Tasks
    <3>2. S \in SUBSET Nat /\ S # {}
      BY <3>1, MaxHeightIsMax
    <3>3. Least(S) \in Nat
      <4> HIDE DEF S
      <4> QED BY <3>2, LeastIsLeast
    <3> QED BY <3>3, MaxHeightIsMax DEF GetFromBlockNumber, Tasks
  <2>1. CASE task' = Finished(task)
    BY <1>0, <2>1 DEF Finished, Tasks
  <2>2. CASE \E limit \in Limits :
              LET to == Smaller(from + limit - 1, task.cur - Confirmations) IN
              /\ task.cur - from >= Confirmations
              /\ task' = [task EXCEPT !.pc = "logs", !.to = to,
                            !.from = ReindexFrom(from, to, task.cur, limit)]
    <3>1. PICK limit \in Limits :
            LET to == Smaller(from + limit - 1, task.cur - Confirmations) IN
            /\ task.cur - from >= Confirmations
            /\ task' = [task EXCEPT !.pc = "logs", !.to = to,
                          !.from = ReindexFrom(from, to, task.cur, limit)]
      BY <2>2
    <3> DEFINE to == Smaller(from + limit - 1, task.cur - Confirmations)
    <3>2. task'.to = to /\ task'.from = ReindexFrom(from, to, task.cur, limit)
      BY <3>1 DEF Tasks
    <3>3. limit \in Nat \ {0} /\ limit <= RewindBlocks
      BY LimitsType
    <3> HIDE DEF from
    <3>4. task.cur - from >= Confirmations
      BY <3>1
    <3>5. to <= from + limit - 1 /\ to >= from /\ to \in Nat
      BY <2>0, <3>3, <3>4, SettingsType DEF Smaller
    <3> HIDE DEF to
    <3>6. to + 1 <= ReindexFrom(from, to, task.cur, limit) + limit
      BY <2>0, <3>3, <3>5, SettingsType DEF ReindexFrom, Larger, Smaller
    <3>7. ReindexFrom(from, to, task.cur, limit) \in Nat
      BY <2>0, <3>3, <3>5, SettingsType DEF ReindexFrom, Larger, Smaller
    <3> QED BY <3>2, <3>3, <3>5, <3>6, <3>7, SettingsType
  <2>4. task.cur - from < Confirmations \/ task.cur - from >= Confirmations
    <3> HIDE DEF from
    <3> QED BY <2>0, SettingsType
  <2> QED BY <1>1, <2>1, <2>2, <2>4 DEF GetBlockNumbersForSearch
<1>2. ASSUME NEW p \in Proc, Start(p) PROVE WindowIsShort'
  BY <1>2 DEF Start, IdleTask
<1>3. CASE SelectAddresses
  BY <1>0, <1>3 DEF SelectAddresses, Tasks
<1>4. CASE FindRelevantElements \/ GetTransactionReceipts \/ GetTransactions
  BY <1>4 DEF FindRelevantElements, GetTransactionReceipts, GetTransactions,
     Tasks, TaskAt
<1>5. CASE InsertBlocks \/ InsertTxs \/ PrefetchTimestamps \/ StoreElements
  BY <1>5 DEF InsertBlocks, InsertTxs, PrefetchTimestamps, StoreElements,
     Tasks, TaskAt
<1>6. CASE UpdateMonitoredAddresses
  BY <1>0, <1>6 DEF UpdateMonitoredAddresses, Finished, Tasks
<1>7. CASE RaiseException \/ TaskFails
  BY <1>0, <1>7 DEF RaiseException, TaskFails
<1>8. CASE ResetAllToBlock \/ RecoverFromReorg
  BY <1>8 DEF ResetAllToBlock, RecoverFromReorg, Tasks
<1>9. ASSUME NEW p \in Proc, Crash(p) PROVE WindowIsShort'
  BY <1>0, <1>9 DEF Crash
<1>10. CASE UNCHANGED task
  BY <1>10
<1> QED
  BY <1>1, <1>2, <1>3, <1>4, <1>5, <1>6, <1>7, <1>8, <1>9, <1>10
  DEF Next, IndexerStep, ReorgStep, MoveHead, CheckReorgs, CompareBlocks,
      ReadCurrentBlockNumber, ReorgTaskFails, vars

(* Nothing comes between the UPDATE of a recovery and its commit.          *)
LEMMA OthersAreSafeStep ==
  ASSUME ~SlowRecovery, TypeOK, TypeOK', OthersAreSafe, [Next]_vars
  PROVE  OthersAreSafe'
<1> USE DEF TypeOK, OthersAreSafe
<1>0. IdleReorg.pc = "idle"
  BY DEF IdleReorg
<1>1. CASE UpdateMonitoredAddresses
  BY <1>1 DEF UpdateMonitoredAddresses, TaskAt
<1>2. CASE ResetAllToBlock
  <2>1. SafeBlock' = SafeBlock /\ SafeBlock \in Int
    <3>1. reorg'.bad = reorg.bad
      BY <1>2 DEF ResetAllToBlock, Reorgs
    <3>2. reorg.bad \in Nat
      BY MaxHeightIsMax DEF Reorgs
    <3> QED BY <3>1, <3>2, SettingsType DEF SafeBlock, Larger
  <2>2. reorg'.locked = {a \in Addr : txBlockNumber[a] > SafeBlock}
    BY <1>2 DEF ResetAllToBlock, Reorgs
  <2>3. UNCHANGED txBlockNumber
    BY <1>2 DEF ResetAllToBlock, database
  <2>4. \A a \in Addr : txBlockNumber[a] \in Int
    BY MaxHeightIsMax
  <2> QED BY <2>1, <2>2, <2>3, <2>4
<1>3. CASE RecoverFromReorg \/ ReorgTaskFails
  BY <1>0, <1>3 DEF RecoverFromReorg, ReorgTaskFails
<1>4. CASE ReadCurrentBlockNumber
  BY <1>4 DEF ReadCurrentBlockNumber, Reorgs
<1>5. ASSUME NEW answered \in SUBSET RowsToCheck, CompareBlocks(answered)
      PROVE  OthersAreSafe'
  BY <1>0, <1>5 DEF CompareBlocks, Reorgs
<1>6. ASSUME NEW p \in Proc, CheckReorgs(p) PROVE OthersAreSafe'
  BY <1>6 DEF CheckReorgs, IdleReorg
<1>7. ASSUME NEW p \in Proc, Crash(p) PROVE OthersAreSafe'
  BY <1>0, <1>7 DEF Crash, database, SafeBlock
<1>8. CASE UNCHANGED <<txBlockNumber, reorg>>
  BY <1>8 DEF SafeBlock
<1> QED
  BY <1>1, <1>2, <1>3, <1>4, <1>5, <1>6, <1>7, <1>8
  DEF Next, IndexerStep, ReorgStep, MoveHead, Start, SelectAddresses, TaskFails,
      GetBlockNumbersForSearch, FindRelevantElements, GetTransactionReceipts,
      GetTransactions, InsertBlocks, InsertTxs, PrefetchTimestamps,
      StoreElements, RaiseException, database, vars

(* What an update of a task may pass: logs of its window come after any    *)
(* earlier recovery, a later one takes the address back below the window.  *)
LEMMA StaleIsOutsideStep ==
  ASSUME TypeOK, TypeOK', RowsAreLate, WindowIsShort, OthersAreSafe,
         StaleIsOutside, ErasedIsRescanned, [Next]_vars
  PROVE  StaleIsOutside'
<1> USE DEF TypeOK, StaleIsOutside, HasLogs
<1>0. IdleTask.pc = "idle"
  BY DEF IdleTask
<1>1. CASE FindRelevantElements
  <2> SUFFICES ASSUME NEW e \in erased, e[2] \notin task.from .. task.to,
                      task.from <= txBlockNumber[e[1]]
               PROVE  task.to + 1 <= e[2]
    BY <1>1 DEF FindRelevantElements, database, Tasks
  <2>1. txBlockNumber[e[1]] <= e[2] /\ txBlockNumber[e[1]] \in Nat
    BY MaxHeightIsMax DEF ErasedIsRescanned
  <2>2. e[2] \in Nat /\ task.from \in Nat /\ task.to \in Nat
    BY MaxHeightIsMax DEF Tasks
  <2> QED BY <2>1, <2>2
<1>2. CASE RecoverFromReorg
  <2> SUFFICES ASSUME HasLogs, NEW e \in erased', e[2] \notin task'.valid,
                      task.from <= txBlockNumber'[e[1]]
               PROVE  task.to + 1 <= e[2]
    BY <1>2 DEF RecoverFromReorg, Tasks
  <2> DEFINE gone == {n \in Number : n >= reorg.bad /\ dbBlock[n] # NoBlock}
  <2>1. /\ erased' = erased \cup (Addr \X gone)
        /\ task'.valid = task.valid \ gone
        /\ reorg.pc = "commit"
        /\ txBlockNumber' = [a \in Addr |-> IF a \in reorg.locked
                                           THEN SafeBlock ELSE txBlockNumber[a]]
    BY <1>2 DEF RecoverFromReorg, Tasks
  <2>2. /\ task.from \in Nat /\ task.to \in Nat /\ reorg.bad \in Nat
        /\ reorg.bad >= RewindBlocks /\ RewindBlocks \in Nat
        /\ SafeBlock = reorg.bad - RewindBlocks /\ SafeBlock \in Nat
    <3>1. /\ task.from \in Nat /\ task.to \in Nat /\ reorg.bad \in Nat
          /\ reorg.bad >= RewindBlocks
      BY <2>1, MaxHeightIsMax DEF RowsAreLate, Tasks, Reorgs
    <3>2. RewindBlocks \in Nat
      BY SettingsType
    <3>3. SafeBlock = reorg.bad - RewindBlocks
      BY <3>1, <3>2, LargerOfDifference DEF SafeBlock
    <3>4. SafeBlock \in Nat
      BY <3>1, <3>2, LargerOfDifference DEF SafeBlock
    <3> QED BY <3>1, <3>2, <3>3, <3>4
  <2>3. e[1] \in Addr /\ e[2] \in Nat /\ txBlockNumber[e[1]] \in Nat
    <3>1. e \in Addr \X Number
      OBVIOUS
    <3>2. e[1] \in Addr /\ e[2] \in Number
      BY <3>1
    <3>3. txBlockNumber[e[1]] \in 0 .. MaxHeight + 1
      BY <3>2
    <3> QED BY <3>2, <3>3, PositionsAreNat
  <2>4. txBlockNumber'[e[1]] <= SafeBlock /\ txBlockNumber'[e[1]] \in Nat
    BY <2>1, <2>2, <2>3 DEF OthersAreSafe
  <2>5. task.to + 1 <= task.from + RewindBlocks
    BY DEF WindowIsShort, InWindow
  <2>6. CASE e[2] >= reorg.bad
    <3>1. task.from <= SafeBlock
      BY <2>2, <2>4
    <3> QED BY <2>2, <2>3, <2>5, <2>6, <3>1
  <2>7. CASE ~ (e[2] >= reorg.bad)
    <3>1. e \in erased /\ e[2] \notin task.valid
      BY <2>1, <2>7
    <3>2. txBlockNumber'[e[1]] <= txBlockNumber[e[1]]
      BY <2>1, <2>2, <2>3 DEF OthersAreSafe
    <3>3. task.from <= txBlockNumber[e[1]]
      BY <2>2, <2>3, <2>4, <3>2
    <3> QED BY <3>1, <3>3
  <2> QED BY <2>6, <2>7
<1>3. CASE UpdateMonitoredAddresses
  BY <1>0, <1>3 DEF UpdateMonitoredAddresses, Finished, Tasks
<1>4. CASE GetBlockNumbersForSearch
  BY <1>0, <1>4 DEF GetBlockNumbersForSearch, Finished, Tasks
<1>5. CASE SelectAddresses
  <2>1. task'.pc \in {"search", "select", "idle"}
    BY <1>0, <1>5 DEF SelectAddresses, Tasks, TaskAt
  <2> QED BY <2>1
<1>6. ASSUME NEW p \in Proc, Start(p) PROVE StaleIsOutside'
  BY <1>6 DEF Start, IdleTask
<1>7. CASE GetTransactionReceipts \/ GetTransactions \/ PrefetchTimestamps
  BY <1>7 DEF GetTransactionReceipts, GetTransactions, PrefetchTimestamps,
     Tasks, TaskAt, database
<1>8. CASE InsertBlocks \/ InsertTxs \/ StoreElements
  BY <1>8 DEF InsertBlocks, InsertTxs, StoreElements, Tasks, TaskAt
<1>9. CASE RaiseException \/ TaskFails
  BY <1>0, <1>9 DEF RaiseException, TaskFails
<1>10. CASE ResetAllToBlock
  BY <1>10 DEF ResetAllToBlock, Tasks, database
<1>11. ASSUME NEW p \in Proc, Crash(p) PROVE StaleIsOutside'
  BY <1>0, <1>11 DEF Crash, database
<1>12. CASE UNCHANGED <<txBlockNumber, task, erased>>
  BY <1>12
<1> QED
  BY <1>1, <1>2, <1>3, <1>4, <1>5, <1>6, <1>7, <1>8, <1>9, <1>10, <1>11, <1>12
  DEF Next, IndexerStep, ReorgStep, MoveHead, CheckReorgs, CompareBlocks,
      ReadCurrentBlockNumber, ReorgTaskFails, database, vars

(* An update takes from the erased blocks those its task has seen again,   *)
(* and the others lie behind the window.                                   *)
LEMMA ErasedIsRescannedStep ==
  ASSUME TypeOK, TypeOK', RowsAreLate, OthersAreSafe, StaleIsOutside,
         ErasedIsRescanned, [Next]_vars
  PROVE  ErasedIsRescanned'
<1> USE DEF TypeOK, ErasedIsRescanned
<1>1. CASE UpdateMonitoredAddresses
  <2> DEFINE moved == {a \in task.addrs : /\ task.from <= txBlockNumber[a]
                                         /\ txBlockNumber[a] < task.to + 1}
  <2>1. /\ txBlockNumber' = [a \in Addr |-> IF a \in moved THEN task.to + 1
                                            ELSE txBlockNumber[a]]
        /\ erased' = erased \ (moved \X task.valid)
        /\ task.pc = "update"
    BY <1>1 DEF UpdateMonitoredAddresses, TaskAt
  <2> SUFFICES ASSUME NEW e \in erased'
               PROVE  txBlockNumber'[e[1]] <= e[2]
    OBVIOUS
  <2>2. e \in erased /\ e[1] \in Addr /\ e = <<e[1], e[2]>>
    BY <2>1
  <2>3. CASE e[1] \in moved
    <3>1. e[2] \notin task.valid
      BY <2>1, <2>2, <2>3
    <3> QED BY <2>1, <2>2, <2>3, <3>1 DEF StaleIsOutside, HasLogs
  <2>4. CASE e[1] \notin moved
    BY <2>1, <2>2, <2>4
  <2> QED BY <2>3, <2>4
<1>2. CASE RecoverFromReorg
  <2> DEFINE gone == {n \in Number : n >= reorg.bad /\ dbBlock[n] # NoBlock}
  <2>1. /\ erased' = erased \cup (Addr \X gone)
        /\ reorg.pc = "commit"
        /\ txBlockNumber' = [a \in Addr |-> IF a \in reorg.locked
                                           THEN SafeBlock ELSE txBlockNumber[a]]
    BY <1>2 DEF RecoverFromReorg
  <2>2. /\ reorg.bad \in Nat /\ reorg.bad >= RewindBlocks /\ RewindBlocks \in Nat
        /\ SafeBlock = reorg.bad - RewindBlocks /\ SafeBlock \in Nat
    <3>1. reorg.bad \in Nat /\ reorg.bad >= RewindBlocks
      BY <2>1, MaxHeightIsMax DEF RowsAreLate, Reorgs
    <3>2. RewindBlocks \in Nat
      BY SettingsType
    <3>3. SafeBlock = reorg.bad - RewindBlocks
      BY <3>1, <3>2, LargerOfDifference DEF SafeBlock
    <3>4. SafeBlock \in Nat
      BY <3>1, <3>2, LargerOfDifference DEF SafeBlock
    <3> QED BY <3>1, <3>2, <3>3, <3>4
  <2> SUFFICES ASSUME NEW e \in erased'
               PROVE  txBlockNumber'[e[1]] <= e[2]
    OBVIOUS
  <2>3. e[1] \in Addr /\ e[2] \in Nat /\ txBlockNumber[e[1]] \in Nat
    <3>1. e \in Addr \X Number
      OBVIOUS
    <3>2. e[1] \in Addr /\ e[2] \in Number
      BY <3>1
    <3>3. txBlockNumber[e[1]] \in 0 .. MaxHeight + 1
      BY <3>2
    <3> QED BY <3>2, <3>3, PositionsAreNat
  <2>4. txBlockNumber'[e[1]] <= SafeBlock /\ txBlockNumber'[e[1]] \in Nat
    BY <2>1, <2>2, <2>3 DEF OthersAreSafe
  <2>5. CASE e \in erased
    <3>1. txBlockNumber'[e[1]] <= txBlockNumber[e[1]]
      BY <2>1, <2>2, <2>3 DEF OthersAreSafe
    <3> QED BY <2>3, <2>4, <2>5, <3>1
  <2>6. CASE e[2] \in gone
    BY <2>2, <2>3, <2>4, <2>6
  <2> QED BY <2>1, <2>5, <2>6
<1>3. CASE UNCHANGED <<txBlockNumber, erased>>
  BY <1>3
<1> QED
  BY <1>1, <1>2, <1>3
  DEF Next, IndexerStep, ReorgStep, MoveHead, Start, SelectAddresses, TaskFails,
      GetBlockNumbersForSearch, FindRelevantElements, GetTransactionReceipts,
      GetTransactions, InsertBlocks, InsertTxs, PrefetchTimestamps,
      StoreElements, RaiseException, CheckReorgs, ReadCurrentBlockNumber,
      CompareBlocks, ResetAllToBlock, ReorgTaskFails, Crash, database, vars

-----------------------------------------------------------------------------
(* The invariant holds at the start.                                       *)
LEMMA InitIInv == Init => IInv
<1> SUFFICES ASSUME Init PROVE IInv
  OBVIOUS
<1> USE TreeType, MaxHeightIsMax DEF Init
<1>1. TypeOK
  BY IdleTyped, StartType, BoundsType DEF TypeOK, NoTx, Number
<1>2. /\ IdleTask.pc = "idle" /\ IdleReorg.pc = "idle" /\ IdleTask.txs = {}
  BY DEF IdleTask, IdleReorg
<1> QED
  BY <1>1, <1>2 DEF IInv, TaskInv, InWindow, HasLogs, RowsAreLate, WindowIsShort,
     OthersAreSafe, StaleIsOutside, ErasedIsRescanned

(* Every step keeps the types and what a task carries.                     *)
LEMMA TypeInvStep ==
  ASSUME TypeOK, TaskInv, [Next]_vars
  PROVE  TypeOK' /\ TaskInv'
<1>1. TypeOK'
  <2>1. CASE UNCHANGED vars
    BY <2>1 DEF vars, TypeOK
  <2> QED BY <2>1, TaskTyped, OthersTyped DEF Next
<1> QED
  BY <1>1, TaskInvStep

(* The variables have their types, and the data a task carries fits        *)
(* together: the CHOOSEs of InsertTxs always have a choice.                *)
THEOREM TypeCorrect == Spec => [](TypeOK /\ TaskInv)
<1>1. Init => TypeOK /\ TaskInv
  BY InitIInv DEF IInv
<1>2. TypeOK /\ TaskInv /\ [Next]_vars => (TypeOK /\ TaskInv)'
  BY TypeInvStep
<1> QED BY <1>1, <1>2, PTL DEF Spec

(* update_monitored_addresses against recover_from_reorg: as long as no    *)
(* window is longer than the rewind, and the recovery is one step for the  *)
(* indexer, an address does not pass an erased block before the indexer    *)
(* has asked the node for that block again.                                *)
THEOREM NoErasedBlockIsPassed ==
  ASSUME \A l \in Limits : l <= RewindBlocks, ~SlowRecovery
  PROVE  Spec => []ErasedIsRescanned
<1>1. Init => IInv
  BY InitIInv
<1>2. IInv /\ [Next]_vars => IInv'
  <2> SUFFICES ASSUME IInv, [Next]_vars PROVE IInv'
    OBVIOUS
  <2>1. TypeOK' /\ TaskInv'
    BY TypeInvStep DEF IInv
  <2> QED
    BY <2>1, RowsAreLateStep, WindowIsShortStep,
       OthersAreSafeStep, StaleIsOutsideStep, ErasedIsRescannedStep DEF IInv
<1>3. IInv => ErasedIsRescanned
  BY DEF IInv
<1> QED BY <1>1, <1>2, <1>3, PTL DEF Spec

-----------------------------------------------------------------------------
(* Chain is a recursive function: the ancestors of a block, the least set  *)
(* that has the block and the parents of its members, are one.             *)
LEMMA ChainStep ==
  \A b \in Block :
    Chain[b] = IF b = Root THEN {b} ELSE {b} \cup Chain[Parent[b]]
<1> USE TreeType
<1> DEFINE Closed(S) == \A x \in S : x # Root => Parent[x] \in S
           A(b) == {c \in Block : \A S \in SUBSET Block :
                                    b \in S /\ Closed(S) => c \in S}
           f == [b \in Block |-> A(b)]
<1>1. A(Root) = {Root}
  <2>1. {Root} \in SUBSET Block /\ Closed({Root})
    OBVIOUS
  <2> QED
    BY <2>1
<1>2. ASSUME NEW b \in Block, b # Root
      PROVE  A(b) = {b} \cup A(Parent[b])
  <2>1. Parent[b] \in Block
    BY <1>2
  <2>2. \A c \in A(b) : c \in {b} \cup A(Parent[b])
    <3>1. \A x \in A(Parent[b]) : x # Root => Parent[x] \in A(Parent[b])
      OBVIOUS
    <3>2. Parent[b] \in A(Parent[b])
      BY <2>1
    <3>3. Closed({b} \cup A(Parent[b])) /\ {b} \cup A(Parent[b]) \in SUBSET Block
      BY <3>1, <3>2
    <3> QED
      BY <3>3
  <2>3. b \in A(b)
    OBVIOUS
  <2>4. \A c \in A(Parent[b]) : c \in A(b)
    BY <1>2
  <2> QED
    BY <2>2, <2>3, <2>4
<1>3. f = [b \in Block |-> IF b = Root THEN {b} ELSE {b} \cup f[Parent[b]]]
  <2>1. \A b \in Block : A(b) = IF b = Root THEN {b} ELSE {b} \cup f[Parent[b]]
    <3> SUFFICES ASSUME NEW b \in Block
                 PROVE  A(b) = IF b = Root THEN {b} ELSE {b} \cup f[Parent[b]]
      OBVIOUS
    <3>1. b # Root => Parent[b] \in Block
      OBVIOUS
    <3>2. b # Root => f[Parent[b]] = A(Parent[b])
      BY <3>1
    <3> HIDE DEF A, f
    <3> QED
      BY <1>1, <1>2, <3>2
  <2> QED
    BY <2>1
<1> HIDE DEF f
<1>4. Chain = [b \in Block |-> IF b = Root THEN {b} ELSE {b} \cup Chain[Parent[b]]]
  BY <1>3 DEF Chain
<1> QED
  BY <1>4

(* Every block is reached from the root.                                   *)
LEMMA TreeInduct ==
  ASSUME NEW S, Root \in S,
         \A b \in Block \ {Root} : Parent[b] \in S => b \in S
  PROVE  \A b \in Block : b \in S
<1> SUFFICES ASSUME \E b \in Block : b \notin S PROVE FALSE
  OBVIOUS
<1> DEFINE T == {Height[b] : b \in {x \in Block : x \notin S}}
<1>1. T \in SUBSET Nat /\ T # {}
  BY TreeType
<1>2. Least(T) \in T /\ \A m \in T : Least(T) <= m
  <2> HIDE DEF T
  <2> QED
    BY <1>1, LeastIsLeast
<1>3. PICK b \in Block : b \notin S /\ Height[b] = Least(T)
  BY <1>2
<1>4. b # Root /\ Parent[b] \in Block /\ Parent[b] \notin S
  BY <1>3, TreeType
<1>5. Height[Parent[b]] \in T
  BY <1>4
<1>6. Height[b] = Height[Parent[b]] + 1 /\ Height[Parent[b]] \in Nat
  BY <1>3, <1>4, TreeType
<1>7. Height[b] <= Height[Parent[b]]
  BY <1>2, <1>3, <1>5
<1> QED
  BY <1>6, <1>7

(* A chain is finite, ends in its highest block, and has the parents of    *)
(* its blocks.                                                             *)
LEMMA ChainFacts ==
  \A b \in Block :
    /\ Chain[b] \in SUBSET Block
    /\ b \in Chain[b]
    /\ IsFiniteSet(Chain[b])
    /\ \A c \in Chain[b] : Height[c] <= Height[b]
    /\ \A c \in Chain[b] : c # Root => Parent[c] \in Chain[b]
<1> DEFINE P(b) == /\ Chain[b] \in SUBSET Block
                   /\ b \in Chain[b]
                   /\ IsFiniteSet(Chain[b])
                   /\ \A c \in Chain[b] : Height[c] <= Height[b]
                   /\ \A c \in Chain[b] : c # Root => Parent[c] \in Chain[b]
           S == {b \in Block : P(b)}
<1>1. Root \in S
  <2>1. Chain[Root] = {Root} /\ Root \in Block
    BY ChainStep, TreeType
  <2>2. IsFiniteSet({Root})
    BY FS_Singleton
  <2>3. Height[Root] <= Height[Root]
    BY TreeType
  <2> QED
    BY <2>1, <2>2, <2>3
<1>2. ASSUME NEW b \in Block \ {Root}, Parent[b] \in S
      PROVE  b \in S
  <2>1. Chain[b] = {b} \cup Chain[Parent[b]] /\ P(Parent[b]) /\ Parent[b] \in Block
    BY <1>2, ChainStep
  <2>2. Height[b] = Height[Parent[b]] + 1
    BY TreeType
  <2>3. IsFiniteSet(Chain[b])
    <3>1. Chain[b] = Chain[Parent[b]] \cup {b}
      BY <2>1
    <3> QED
      BY <2>1, <3>1, FS_AddElement
  <2>4. \A c \in Chain[b] : Height[c] <= Height[b]
    <3> SUFFICES ASSUME NEW c \in Chain[b] PROVE Height[c] <= Height[b]
      OBVIOUS
    <3>1. c = b \/ c \in Chain[Parent[b]]
      BY <2>1
    <3>2. CASE c = b
      BY <3>2, TreeType
    <3>3. CASE c \in Chain[Parent[b]]
      <4>1. c \in Block /\ Height[c] <= Height[Parent[b]]
        BY <2>1, <3>3
      <4> QED
        BY <2>1, <2>2, <4>1, TreeType
    <3> QED
      BY <3>1, <3>2, <3>3
  <2>5. \A c \in Chain[b] : c # Root => Parent[c] \in Chain[b]
    BY <2>1
  <2>6. Chain[b] \in SUBSET Block /\ b \in Chain[b]
    BY <2>1
  <2> QED
    BY <2>3, <2>4, <2>5, <2>6
<1>3. \A b \in Block : b \in S
  <2> HIDE DEF S
  <2> QED
    BY <1>1, <1>2, TreeInduct
<1> QED
  BY <1>3

(* A set that has the parents of its blocks has their chains.              *)
LEMMA ChainIsLeast ==
  ASSUME NEW D, \A c \in D : c # Root => Parent[c] \in D
  PROVE  \A b \in Block : b \in D => Chain[b] \subseteq D
<1> DEFINE S == {b \in Block : b \in D => Chain[b] \subseteq D}
<1>1. Root \in S
  BY ChainStep, TreeType
<1>2. ASSUME NEW b \in Block \ {Root}, Parent[b] \in S
      PROVE  b \in S
  BY <1>2, ChainStep
<1>3. \A b \in Block : b \in S
  <2> HIDE DEF S
  <2> QED
    BY <1>1, <1>2, TreeInduct
<1> QED
  BY <1>3

(* A chain has one block of each height.                                   *)
LEMMA OneOfEachHeight ==
  ASSUME NEW b \in Block, NEW x \in Chain[b], NEW y \in Chain[b],
         Height[x] = Height[y]
  PROVE  x = y
<1> DEFINE P(c) == \A u, v \in Chain[c] : Height[u] = Height[v] => u = v
           S == {c \in Block : P(c)}
<1>1. Root \in S
  BY ChainStep, TreeType
<1>2. ASSUME NEW c \in Block \ {Root}, Parent[c] \in S
      PROVE  c \in S
  <2>1. Chain[c] = {c} \cup Chain[Parent[c]] /\ Parent[c] \in Block
    BY <1>2, ChainStep
  <2>2. \A u \in Chain[Parent[c]] : u \in Block /\ Height[u] <= Height[Parent[c]]
    BY <2>1, ChainFacts
  <2>3. Height[c] = Height[Parent[c]] + 1 /\ Height[Parent[c]] \in Nat
    BY <2>1, TreeType
  <2>4. \A u \in Chain[Parent[c]] : Height[u] # Height[c]
    <3> SUFFICES ASSUME NEW u \in Chain[Parent[c]], Height[u] = Height[c]
                 PROVE  FALSE
      OBVIOUS
    <3>1. Height[u] <= Height[Parent[c]]
      BY <2>2
    <3> QED
      BY <2>3, <3>1
  <2>5. P(Parent[c])
    BY <1>2
  <2> SUFFICES ASSUME NEW u \in Chain[c], NEW v \in Chain[c],
                      Height[u] = Height[v]
               PROVE  u = v
    OBVIOUS
  <2> QED
    BY <2>1, <2>4, <2>5
<1>3. \A c \in Block : c \in S
  <2> HIDE DEF S
  <2> QED
    BY <1>1, <1>2, TreeInduct
<1> QED
  BY <1>3

(* A block left by the chain takes all the blocks above it along.          *)
LEMMA LeavingIsDeep ==
  ASSUME NEW d \in Block, NEW h \in Block, NEW c \in Chain[h], c \notin Chain[d]
  PROVE  /\ Cardinality(Chain[h] \ Chain[d]) \in Nat
         /\ Height[h] + 1 <= Height[c] + Cardinality(Chain[h] \ Chain[d])
<1> DEFINE Left(b) == Chain[b] \ Chain[d]
           P(b) == \A x \in Chain[b] :
                     x \notin Chain[d] =>
                       Height[b] + 1 <= Height[x] + Cardinality(Left(b))
           S == {b \in Block : P(b)}
<1>0. ASSUME NEW b \in Block
      PROVE  IsFiniteSet(Left(b)) /\ Cardinality(Left(b)) \in Nat
  <2>1. IsFiniteSet(Chain[b])
    BY ChainFacts
  <2>2. IsFiniteSet(Left(b))
    BY <2>1, FS_Difference
  <2> QED
    BY <2>2, FS_CardinalityType
<1>1. Root \in S
  <2> SUFFICES ASSUME NEW x \in Chain[Root], x \notin Chain[d]
               PROVE  Height[Root] + 1 <= Height[x] + Cardinality(Left(Root))
    BY TreeType
  <2>1. Root \in Block /\ Height[Root] \in Nat
    BY TreeType
  <2>2. Chain[Root] = {Root}
    BY <2>1, ChainStep
  <2>3. x = Root /\ Left(Root) = {Root}
    BY <2>2
  <2>4. Cardinality(Left(Root)) = 1
    BY <2>3, FS_Singleton
  <2> HIDE DEF Left
  <2> QED
    BY <2>1, <2>3, <2>4
<1>2. ASSUME NEW b \in Block \ {Root}, Parent[b] \in S
      PROVE  b \in S
  <2>1. Chain[b] = {b} \cup Chain[Parent[b]] /\ Parent[b] \in Block
    BY <1>2, ChainStep
  <2>2. Height[b] = Height[Parent[b]] + 1 /\ Height[Parent[b]] \in Nat
    BY <2>1, TreeType
  <2>3. b \notin Chain[Parent[b]]
    <3> SUFFICES ASSUME b \in Chain[Parent[b]] PROVE FALSE
      OBVIOUS
    <3>1. Height[b] <= Height[Parent[b]]
      BY <2>1, ChainFacts
    <3> QED
      BY <2>2, <3>1
  <2> SUFFICES ASSUME NEW x \in Chain[b], x \notin Chain[d]
               PROVE  Height[b] + 1 <= Height[x] + Cardinality(Left(b))
    OBVIOUS
  <2>4. b \notin Chain[d]
    <3> SUFFICES ASSUME b \in Chain[d] PROVE FALSE
      OBVIOUS
    <3>1. Chain[b] \subseteq Chain[d]
      <4>1. \A y \in Chain[d] : y # Root => Parent[y] \in Chain[d]
        BY ChainFacts
      <4> QED
        BY <4>1, ChainIsLeast
    <3> QED
      BY <3>1
  <2>5. Left(b) = Left(Parent[b]) \cup {b} /\ b \notin Left(Parent[b])
    BY <2>1, <2>3, <2>4
  <2>6. Cardinality(Left(b)) = Cardinality(Left(Parent[b])) + 1
    <3>1. IsFiniteSet(Left(Parent[b]))
      BY <1>0, <2>1
    <3> HIDE DEF Left
    <3> QED
      BY <2>5, <3>1, FS_AddElement
  <2>7. Cardinality(Left(Parent[b])) \in Nat
    BY <1>0, <2>1
  <2>8. CASE x = b
    <3> HIDE DEF Left
    <3> QED
      BY <2>2, <2>6, <2>7, <2>8
  <2>9. CASE x \in Chain[Parent[b]]
    <3>1. Height[Parent[b]] + 1 <= Height[x] + Cardinality(Left(Parent[b]))
      BY <1>2, <2>9
    <3>2. Height[x] \in Nat
      BY <2>1, <2>9, ChainFacts, TreeType
    <3> HIDE DEF Left
    <3> QED
      BY <2>2, <2>6, <2>7, <3>1, <3>2
  <2> QED
    BY <2>1, <2>8, <2>9
<1>3. \A b \in Block : b \in S
  <2> HIDE DEF S
  <2> QED
    BY <1>1, <1>2, TreeInduct
<1>4. P(h)
  BY <1>3
<1> QED
  BY <1>0, <1>4

-----------------------------------------------------------------------------
RowsAreNumbered ==
  \A n \in Number : dbBlock[n] # NoBlock => Height[dbBlock[n]] = n

ConfirmedIsDeep == \A n \in confirmed : n + EthReorgBlocks <= Height[head]

CurIsPast == reorg.cur <= Height[head]

(* What a task is about to store is of the chain, but for blocks that were *)
(* young when it asked for them.                                           *)
TxsAreSettled ==
  task.pc = "blocks" =>
    /\ task.seenAt <= Height[head] /\ Height[head] <= task.seenAt + RpcLag
    /\ \A k \in task.txs :
         Height[k[2]] + MaxReorg <= task.seenAt => k[2] \in Canonical

ConfirmedInv ==
  /\ RowsAreNumbered /\ ConfirmedIsDeep /\ CurIsPast /\ TxsAreSettled
  /\ ConfirmedIsCanonical

(* A reorganisation keeps what is deep enough.                             *)
LEMMA DeepStays ==
  ASSUME TypeOK, NEW b \in Block, MoveHead(b),
         NEW c \in Canonical, Height[c] + MaxReorg <= Height[head]
  PROVE  c \in Chain[b]
<1> SUFFICES ASSUME c \notin Chain[b] PROVE FALSE
  OBVIOUS
<1> DEFINE left == Cardinality(Canonical \ Chain[b])
<1>1. head \in Block /\ Height[head] \in Nat
  BY TreeType DEF TypeOK
<1>2. c \in Block /\ Height[c] \in Nat
  BY <1>1, ChainFacts, TreeType DEF Canonical
<1>3. left \in Nat /\ Height[head] + 1 <= Height[c] + left
  BY <1>1, LeavingIsDeep DEF Canonical
<1>4. left <= MaxReorg
  BY DEF MoveHead
<1> HIDE DEF left
<1> QED
  BY <1>1, <1>2, <1>3, <1>4, BoundsType

(* Rows are stored by the number of their block.                           *)
LEMMA RowsAreNumberedStep ==
  ASSUME TypeOK, RowsAreNumbered, [Next]_vars
  PROVE  RowsAreNumbered'
<1>1. CASE InsertBlocks
  <2> DEFINE blocks == {k[2] : k \in task.txs}
             new == {b \in blocks : dbBlock[Height[b]] = NoBlock}
             numbers == {Height[b] : b \in new}
  <2>1. dbBlock' = [n \in Number |->
                     IF n \in numbers THEN CHOOSE b \in new : Height[b] = n
                                      ELSE dbBlock[n]]
    BY <1>1 DEF InsertBlocks
  <2>2. \A n \in numbers : Height[CHOOSE b \in new : Height[b] = n] = n
    OBVIOUS
  <2> HIDE DEF numbers, new
  <2> QED
    BY <2>1, <2>2 DEF RowsAreNumbered
<1>2. CASE RecoverFromReorg
  BY <1>2 DEF RecoverFromReorg, RowsAreNumbered, TypeOK
<1>3. CASE UNCHANGED dbBlock
  BY <1>3 DEF RowsAreNumbered
<1> QED
  BY <1>1, <1>2, <1>3
  DEF Next, IndexerStep, ReorgStep, MoveHead, Start, SelectAddresses, TaskFails,
      GetBlockNumbersForSearch, FindRelevantElements, GetTransactionReceipts,
      GetTransactions, InsertTxs, PrefetchTimestamps, UpdateMonitoredAddresses,
      StoreElements, RaiseException, CheckReorgs, ReadCurrentBlockNumber,
      CompareBlocks, ResetAllToBlock, ReorgTaskFails, Crash, database, vars

(* The head only rises.                                                    *)
LEMMA HeadRises ==
  ASSUME TypeOK, [Next]_vars
  PROVE  /\ head' # head => \E b \in Block : MoveHead(b)
         /\ Height[head] \in Nat /\ Height[head'] \in Nat
         /\ Height[head] <= Height[head']
<1>1. head' # head => \E b \in Block : MoveHead(b)
  BY DEF Next, IndexerStep, ReorgStep, MoveHead, Start, SelectAddresses, TaskFails,
      GetBlockNumbersForSearch, FindRelevantElements, GetTransactionReceipts,
      GetTransactions, InsertBlocks, InsertTxs, PrefetchTimestamps,
      UpdateMonitoredAddresses, RecoverFromReorg,
      StoreElements, RaiseException, CheckReorgs, ReadCurrentBlockNumber,
      CompareBlocks, ResetAllToBlock, ReorgTaskFails, Crash, database, vars
<1>2. Height[head] \in Nat
  BY TreeType DEF TypeOK
<1>3. CASE head' = head
  BY <1>1, <1>2, <1>3
<1>4. ASSUME NEW b \in Block, MoveHead(b)
      PROVE  Height[head'] \in Nat /\ Height[head] <= Height[head']
  BY <1>2, <1>4 DEF MoveHead
<1> QED
  BY <1>1, <1>2, <1>3, <1>4

LEMMA CurIsPastStep ==
  ASSUME TypeOK, CurIsPast, [Next]_vars
  PROVE  CurIsPast'
<1>1. /\ Height[head] \in Nat /\ Height[head'] \in Nat
      /\ Height[head] <= Height[head']
  BY HeadRises
<1>2. reorg.cur \in Nat /\ IdleReorg.cur = 0 /\ IdleReorg \in Reorgs
  BY MaxHeightIsMax, IdleTyped DEF TypeOK, Reorgs, IdleReorg
<1>3. reorg'.cur \in {reorg.cur, 0, Height[head]}
  <2>1. ASSUME NEW p \in Proc, CheckReorgs(p) PROVE reorg'.cur = 0
    BY <1>2, <2>1 DEF CheckReorgs, Reorgs
  <2>2. ASSUME NEW p \in Proc, Crash(p) PROVE reorg'.cur \in {reorg.cur, 0}
    BY <1>2, <2>2 DEF Crash
  <2>3. CASE ReadCurrentBlockNumber
    BY <2>3 DEF ReadCurrentBlockNumber, TypeOK, Reorgs
  <2>4. ASSUME NEW answered \in SUBSET RowsToCheck, CompareBlocks(answered)
        PROVE  reorg'.cur \in {reorg.cur, 0}
    BY <1>2, <2>4 DEF CompareBlocks, TypeOK, Reorgs
  <2>5. CASE ResetAllToBlock
    BY <2>5 DEF ResetAllToBlock, TypeOK, Reorgs
  <2>6. CASE RecoverFromReorg \/ ReorgTaskFails
    BY <1>2, <2>6 DEF RecoverFromReorg, ReorgTaskFails
  <2>7. CASE UNCHANGED reorg
    BY <2>7
  <2> QED
    BY <2>1, <2>2, <2>3, <2>4, <2>5, <2>6, <2>7
    DEF Next, IndexerStep, ReorgStep, MoveHead, Start, SelectAddresses, TaskFails,
      GetBlockNumbersForSearch, FindRelevantElements, GetTransactionReceipts,
      GetTransactions, InsertBlocks, InsertTxs, PrefetchTimestamps,
      UpdateMonitoredAddresses, StoreElements, RaiseException, vars
<1> QED
  BY <1>1, <1>2, <1>3 DEF CurIsPast

LEMMA TxsAreSettledStep ==
  ASSUME TypeOK, TxsAreSettled, [Next]_vars
  PROVE  TxsAreSettled'
<1> USE DEF TxsAreSettled
<1>0. IdleTask.pc = "idle" /\ Height[head] \in Nat
  BY HeadRises DEF IdleTask
<1>1. ASSUME NEW b \in Block, MoveHead(b) PROVE TxsAreSettled'
  <2> SUFFICES ASSUME task.pc = "blocks" PROVE TxsAreSettled'
    BY <1>1 DEF MoveHead
  <2>1. /\ head' = b /\ task' = task /\ Height[b] = Height[head] + 1
        /\ Height[b] <= task.seenAt + RpcLag
    BY <1>1 DEF MoveHead
  <2>2. task.seenAt \in Nat /\ task.txs \in SUBSET Keys
    BY MaxHeightIsMax DEF TypeOK, Tasks
  <2>3. ASSUME NEW k \in task.txs, Height[k[2]] + MaxReorg <= task.seenAt
        PROVE  k[2] \in Chain[b]
    <3>1. k[2] \in Canonical
      BY <2>3
    <3>2. Height[k[2]] \in Nat
      BY <2>2, TreeType DEF Keys
    <3>3. Height[k[2]] + MaxReorg <= Height[head]
      BY <1>0, <2>2, <2>3, <3>2, BoundsType
    <3> QED
      BY <1>1, <3>1, <3>3, DeepStays
  <2> QED
    BY <1>0, <2>1, <2>2, <2>3 DEF Canonical
<1>2. CASE GetTransactions
  <2> DEFINE asked == {k[1] : k \in task.receipts}
  <2>1. /\ task'.seenAt = Height[head] /\ head' = head
        /\ task'.txs = UNION {{t} \X Mined(t) : t \in asked}
    BY <1>2 DEF GetTransactions, TypeOK, Tasks
  <2>2. \A k \in task'.txs : k[2] \in Canonical
    BY <2>1 DEF Mined
  <2>3. Canonical' = Canonical
    BY <2>1 DEF Canonical
  <2> QED
    BY <1>0, <2>1, <2>2, <2>3, BoundsType
<1>3. CASE InsertBlocks \/ InsertTxs \/ PrefetchTimestamps \/ StoreElements
  BY <1>3 DEF InsertBlocks, InsertTxs, PrefetchTimestamps, StoreElements, TypeOK,
     Tasks
<1>4. CASE FindRelevantElements \/ GetTransactionReceipts
  BY <1>4 DEF FindRelevantElements, GetTransactionReceipts, TypeOK, Tasks
<1>5. CASE SelectAddresses \/ GetBlockNumbersForSearch \/ UpdateMonitoredAddresses
  BY <1>0, <1>5 DEF SelectAddresses, GetBlockNumbersForSearch, Finished,
     UpdateMonitoredAddresses, TypeOK, Tasks, TaskAt
<1>6. CASE RaiseException \/ TaskFails
  BY <1>0, <1>6 DEF RaiseException, TaskFails
<1>7. CASE ResetAllToBlock \/ RecoverFromReorg
  <2>1. /\ task'.pc = task.pc /\ task'.seenAt = task.seenAt /\ task'.txs = task.txs
        /\ head' = head
    BY <1>7 DEF ResetAllToBlock, RecoverFromReorg, TypeOK, Tasks
  <2> QED
    BY <2>1 DEF Canonical
<1>8. ASSUME NEW p \in Proc, Start(p) \/ Crash(p) PROVE TxsAreSettled'
  BY <1>0, <1>8 DEF Start, Crash, TypeOK, Tasks, IdleTask, Canonical
<1>9. CASE UNCHANGED <<head, task>>
  BY <1>9 DEF Canonical
<1> QED
  BY <1>1, <1>2, <1>3, <1>4, <1>5, <1>6, <1>7, <1>8, <1>9
  DEF Next, IndexerStep, ReorgStep, CheckReorgs, ReadCurrentBlockNumber,
      CompareBlocks, ReorgTaskFails, vars

(* Rows are confirmed by InsertBlocks and by CompareBlocks, both only when *)
(* they are deep and of the chain; the depth keeps them there.             *)
LEMMA ConfirmedStep ==
  ASSUME ReorgsAreShallow, TypeOK, ConfirmedInv, [Next]_vars
  PROVE  (ConfirmedIsDeep /\ ConfirmedIsCanonical)'
<1> USE DEF ConfirmedInv
<1>0. /\ Height[head] \in Nat /\ confirmed \in SUBSET Nat /\ confirmed \in SUBSET Number
      /\ EthReorgBlocks \in Nat /\ MaxReorg \in Nat /\ RpcLag \in Nat
      /\ Canonical \in SUBSET Block
  BY HeadRises, MaxHeightIsMax, SettingsType, BoundsType, ChainFacts
     DEF TypeOK, Canonical
<1>1. ASSUME NEW b \in Block, MoveHead(b)
      PROVE  (ConfirmedIsDeep /\ ConfirmedIsCanonical)'
  <2>1. /\ head' = b /\ Height[b] = Height[head] + 1
        /\ dbBlock' = dbBlock /\ confirmed' = confirmed
    BY <1>1 DEF MoveHead, database
  <2>2. ASSUME NEW n \in confirmed PROVE dbBlock[n] \in Chain[b]
    <3>1. dbBlock[n] \in Canonical /\ dbBlock[n] # NoBlock
      BY <1>0, TreeType DEF ConfirmedIsCanonical
    <3>2. Height[dbBlock[n]] = n
      BY <1>0, <3>1 DEF RowsAreNumbered
    <3>3. n + EthReorgBlocks <= Height[head]
      BY DEF ConfirmedIsDeep
    <3>4. n \in Nat
      BY <1>0
    <3>5. n + MaxReorg <= Height[head]
      BY <1>0, <3>3, <3>4 DEF ReorgsAreShallow
    <3> QED
      BY <1>1, <3>1, <3>2, <3>5, DeepStays
  <2> QED
    BY <1>0, <2>1, <2>2 DEF ConfirmedIsDeep, ConfirmedIsCanonical, Canonical
<1>2. CASE InsertBlocks
  <2> DEFINE blocks == {k[2] : k \in task.txs}
             new == {b \in blocks : dbBlock[Height[b]] = NoBlock}
             numbers == {Height[b] : b \in new}
  <2>1. /\ dbBlock' = [n \in Number |->
                     IF n \in numbers THEN CHOOSE b \in new : Height[b] = n
                                      ELSE dbBlock[n]]
        /\ confirmed' = confirmed \cup
             {n \in numbers : Height[head] - n >= EthReorgBlocks}
        /\ head' = head
    BY <1>2 DEF InsertBlocks
  <2>2. task.txs \in SUBSET Keys /\ task.seenAt \in Nat
    BY MaxHeightIsMax DEF TypeOK, Tasks
  <2>3. numbers \in SUBSET Number /\ numbers \in SUBSET Nat
    BY <2>2, MaxHeightIsMax DEF Keys
  <2>4. \A n \in numbers : n \notin confirmed
    BY TreeType, <1>0 DEF ConfirmedIsCanonical
  <2>5. ASSUME NEW n \in numbers, Height[head] - n >= EthReorgBlocks
        PROVE  dbBlock'[n] \in Canonical
    <3>1. (CHOOSE b \in new : Height[b] = n) \in new
      OBVIOUS
    <3>2. Height[CHOOSE b \in new : Height[b] = n] = n
      OBVIOUS
    <3>3. PICK k \in task.txs : k[2] = (CHOOSE b \in new : Height[b] = n)
      BY <3>1
    <3>4. Height[head] <= task.seenAt + RpcLag
      BY <1>2 DEF TxsAreSettled, InsertBlocks, TaskAt
    <3>5. n + MaxReorg <= task.seenAt
      <4> HIDE DEF numbers
      <4> QED
        BY <1>0, <2>2, <2>3, <2>5, <3>4 DEF ReorgsAreShallow
    <3>6. k[2] \in Canonical
      BY <1>2, <3>2, <3>3, <3>5 DEF TxsAreSettled, InsertBlocks, TaskAt
    <3>7. dbBlock'[n] = k[2]
      BY <2>1, <2>3, <3>3
    <3> QED
      BY <3>6, <3>7
  <2>6. Canonical' = Canonical
    BY <2>1 DEF Canonical
  <2> HIDE DEF numbers, new
  <2>7. ASSUME NEW n \in confirmed
        PROVE  dbBlock'[n] \in Canonical /\ n + EthReorgBlocks <= Height[head]
    BY <1>0, <2>1, <2>4, <2>7 DEF ConfirmedIsCanonical, ConfirmedIsDeep
  <2>8. ASSUME NEW n \in numbers, Height[head] - n >= EthReorgBlocks
        PROVE  n + EthReorgBlocks <= Height[head]
    BY <1>0, <2>3, <2>8
  <2> QED
    BY <2>1, <2>5, <2>6, <2>7, <2>8 DEF ConfirmedIsCanonical, ConfirmedIsDeep
<1>3. ASSUME NEW answered \in SUBSET RowsToCheck, CompareBlocks(answered)
      PROVE  (ConfirmedIsDeep /\ ConfirmedIsCanonical)'
  <2> DEFINE bad == {n \in answered : dbBlock[n] \notin Canonical}
             good == {n \in answered : \A m \in bad : n < m}
  <2>1. /\ confirmed' = confirmed \cup {n \in good : n <= reorg.cur - EthReorgBlocks}
        /\ dbBlock' = dbBlock /\ head' = head
    BY <1>3 DEF CompareBlocks
  <2>2. \A n \in good : n \in Nat /\ dbBlock[n] \in Canonical
    <3>1. \A n \in answered : n \in Nat
      BY MaxHeightIsMax DEF RowsToCheck
    <3>2. \A n \in Nat : ~ (n < n)
      OBVIOUS
    <3> QED
      BY <3>1, <3>2
  <2>3. Canonical' = Canonical
    BY <2>1 DEF Canonical
  <2>4. reorg.cur \in Nat /\ reorg.cur <= Height[head]
    BY MaxHeightIsMax DEF TypeOK, Reorgs, CurIsPast
  <2> HIDE DEF good
  <2>5. \A n \in good : n <= reorg.cur - EthReorgBlocks
                          => n + EthReorgBlocks <= Height[head]
    BY <1>0, <2>2, <2>4
  <2> QED
    BY <2>1, <2>2, <2>3, <2>5 DEF ConfirmedIsCanonical, ConfirmedIsDeep
<1>4. CASE RecoverFromReorg
  <2> DEFINE gone == {n \in Number : n >= reorg.bad /\ dbBlock[n] # NoBlock}
  <2>1. /\ dbBlock' = [n \in Number |-> IF n \in gone THEN NoBlock ELSE dbBlock[n]]
        /\ confirmed' = confirmed \ gone /\ head' = head
    BY <1>4 DEF RecoverFromReorg
  <2>2. Canonical' = Canonical
    BY <2>1 DEF Canonical
  <2> HIDE DEF gone
  <2> QED
    BY <1>0, <2>1, <2>2 DEF ConfirmedIsCanonical, ConfirmedIsDeep
<1>5. CASE UNCHANGED <<head, dbBlock, confirmed>>
  BY <1>5 DEF ConfirmedIsCanonical, ConfirmedIsDeep, Canonical
<1> QED
  BY <1>1, <1>2, <1>3, <1>4, <1>5
  DEF Next, IndexerStep, ReorgStep, Start, SelectAddresses, TaskFails,
      GetBlockNumbersForSearch, FindRelevantElements, GetTransactionReceipts,
      GetTransactions, InsertTxs, PrefetchTimestamps, UpdateMonitoredAddresses,
      StoreElements, RaiseException, CheckReorgs, ReadCurrentBlockNumber,
      ResetAllToBlock, ReorgTaskFails, Crash, database, vars

(* confirmed, "safe to rely on".                                           *)
THEOREM ConfirmedRowsStay ==
  ASSUME ReorgsAreShallow
  PROVE  Spec => []ConfirmedIsCanonical
<1>1. Init => TypeOK /\ TaskInv /\ ConfirmedInv
  <2> SUFFICES ASSUME Init PROVE ConfirmedInv
    BY InitIInv DEF IInv
  <2>1. IdleTask.pc = "idle" /\ IdleReorg.cur = 0 /\ Height[head] \in Nat
    BY TreeType DEF IdleTask, IdleReorg, Init
  <2> QED
    BY <2>1 DEF Init, ConfirmedInv, RowsAreNumbered, ConfirmedIsDeep, CurIsPast,
       TxsAreSettled, ConfirmedIsCanonical
<1>2. TypeOK /\ TaskInv /\ ConfirmedInv /\ [Next]_vars
        => (TypeOK /\ TaskInv /\ ConfirmedInv)'
  BY TypeInvStep, RowsAreNumberedStep, CurIsPastStep, TxsAreSettledStep,
     ConfirmedStep DEF ConfirmedInv
<1>3. ConfirmedInv => ConfirmedIsCanonical
  BY DEF ConfirmedInv
<1> QED
  BY <1>1, <1>2, <1>3, PTL DEF Spec

-----------------------------------------------------------------------------
(* A block that is not of the chain and will not be.                       *)
Gone(b) ==
  /\ b \notin Canonical
  /\ \A c \in Block : Weight[c] > Weight[head] => b \notin Chain[c]

Known(b) == b \in Canonical \/ Gone(b)

RowsAreKnown ==
  \A n \in Number : dbBlock[n] # NoBlock => Known(dbBlock[n])

(* A row with the number of a block is the row of the block, or is left    *)
(* from a branch that is gone.                                             *)
RowFits(b) ==
  LET row == dbBlock[Height[b]] IN row = NoBlock \/ row = b \/ Gone(row)

(* What a task is about to store is of the chain as it was.                *)
TxsAreKnown ==
  task.pc \in {"blocks", "insert"} =>
    /\ \A k \in task.txs : /\ k[1] \in TxsIn[k[2]] /\ Known(k[2])
                           /\ RowFits(k[2])
    /\ \A j, k \in task.txs : Height[j[2]] = Height[k[2]] => j[2] = k[2]

(* The block row a transaction refers to includes it, or is gone.          *)
RowsHaveTheirTxs ==
  \A t \in Tx : dbTx[t] # NoTx =>
    LET row == dbBlock[dbTx[t].number] IN
    /\ dbTx[t].number \in Number /\ row # NoBlock
    /\ t \in TxsIn[row] \/ Gone(row)

ElementsHaveTxs == \A t \in Tx : dbElement[t] # NoBlock => dbTx[t] # NoTx

MinedInv ==
  /\ RowsAreNumbered /\ RowsAreKnown /\ TxsAreKnown /\ RowsHaveTheirTxs
  /\ ElementsHaveTxs

(* What is gone stays gone, what is known stays known.                     *)
LEMMA KnownStays ==
  ASSUME NoReturn, TypeOK, [Next]_vars, NEW x
  PROVE  (Gone(x) => Gone(x)') /\ (Known(x) => Known(x)')
<1>1. CASE head' = head
  BY <1>1 DEF Gone, Known, Canonical
<1>2. ASSUME NEW b \in Block, MoveHead(b)
      PROVE  (Gone(x) => Gone(x)') /\ (Known(x) => Known(x)')
  <2>1. head' = b /\ Weight[b] > Weight[head] /\ head \in Block
    BY <1>2 DEF MoveHead, TypeOK
  <2>2. \A c \in Block : Weight[c] \in Nat
    BY TreeType
  <2>3. \A c \in Block : Weight[c] > Weight[b] => Weight[c] > Weight[head]
    BY <2>1, <2>2
  <2>4. Gone(x) => Gone(x)'
    BY <2>1, <2>3 DEF Gone, Canonical
  <2>5. ASSUME x \in Canonical, x \notin Chain[b]
        PROVE  Gone(x)'
    <3>1. \A c \in Block : Weight[c] > Weight[b] => x \notin Chain[c]
      BY <2>1, <2>2, <2>5 DEF NoReturn, Canonical
    <3> QED
      BY <2>1, <2>5, <3>1 DEF Gone, Canonical
  <2> QED
    BY <2>1, <2>4, <2>5 DEF Known, Canonical
<1> QED
  BY <1>1, <1>2, HeadRises

(* The steps that leave the four tables and what is about to be stored.    *)
LEMMA QuietStep ==
  ASSUME NoReturn, TypeOK, MinedInv, [Next]_vars,
         UNCHANGED <<dbBlock, dbTx, dbElement>>,
         \/ task'.pc \notin {"blocks", "insert"}
         \/ task'.txs = task.txs /\ task'.pc = task.pc
  PROVE  RowsAreKnown' /\ TxsAreKnown' /\ RowsHaveTheirTxs' /\ ElementsHaveTxs'
<1>1. \A x : (Gone(x) => Gone(x)') /\ (Known(x) => Known(x)')
  BY KnownStays
<1>2. RowsAreKnown'
  BY <1>1 DEF MinedInv, RowsAreKnown
<1>3. TxsAreKnown'
  BY <1>1 DEF MinedInv, TxsAreKnown, RowFits
<1>4. RowsHaveTheirTxs'
  BY <1>1 DEF MinedInv, RowsHaveTheirTxs
<1>5. ElementsHaveTxs'
  BY DEF MinedInv, ElementsHaveTxs
<1> QED
  BY <1>2, <1>3, <1>4, <1>5

LEMMA MinedStep ==
  ASSUME NoReturn, TypeOK, MinedInv, [Next]_vars
  PROVE  RowsAreKnown' /\ TxsAreKnown' /\ RowsHaveTheirTxs' /\ ElementsHaveTxs'
<1> DEFINE Goal == RowsAreKnown' /\ TxsAreKnown' /\ RowsHaveTheirTxs' /\ ElementsHaveTxs'
<1>0. /\ IdleTask.pc = "idle" /\ task.txs \in SUBSET Keys
      /\ Canonical \in SUBSET Block /\ NoBlock \notin Block
      /\ \A k \in Keys : k[1] \in Tx /\ k[2] \in Block /\ Height[k[2]] \in Number
  BY ChainFacts, TreeType, MaxHeightIsMax
     DEF IdleTask, TypeOK, Tasks, Canonical, Keys
<1>1. CASE GetTransactions
  <2> DEFINE asked == {k[1] : k \in task.receipts}
  <2>1. /\ task'.txs = UNION {{t} \X Mined(t) : t \in asked}
        /\ UNCHANGED <<head, dbBlock, dbTx, dbElement>>
    BY <1>1 DEF GetTransactions, TypeOK, Tasks, database
  <2>2. \A k \in task'.txs : k[2] \in Canonical /\ k[1] \in TxsIn[k[2]]
    BY <2>1 DEF Mined
  <2>3. \A x : (Gone(x)' <=> Gone(x)) /\ (Known(x)' <=> Known(x))
    BY <2>1 DEF Gone, Known, Canonical
  <2>4. \A x, y \in Canonical : Height[x] = Height[y] => x = y
    BY OneOfEachHeight DEF Canonical, TypeOK
  <2>5. ASSUME NEW k \in task'.txs PROVE RowFits(k[2])'
    <3> DEFINE row == dbBlock[Height[k[2]]]
    <3>1. k[2] \in Block /\ Height[k[2]] \in Number /\ k[2] \in Canonical
      BY <1>0, <2>2, MaxHeightIsMax
    <3>2. row # NoBlock => Height[row] = Height[k[2]] /\ Known(row)
      BY <3>1 DEF MinedInv, RowsAreNumbered, RowsAreKnown
    <3>3. row = NoBlock \/ row = k[2] \/ Gone(row)
      BY <2>4, <3>1, <3>2 DEF Known
    <3> QED
      BY <2>1, <2>3, <3>3 DEF RowFits
  <2>6. TxsAreKnown'
    BY <2>2, <2>3, <2>4, <2>5 DEF TxsAreKnown, Known
  <2> QED
    BY <2>1, <2>3, <2>6
       DEF MinedInv, RowsAreKnown, RowsHaveTheirTxs, ElementsHaveTxs
<1>2. CASE InsertBlocks
  <2> DEFINE blocks == {k[2] : k \in task.txs}
             new == {b \in blocks : dbBlock[Height[b]] = NoBlock}
             numbers == {Height[b] : b \in new}
  <2>1. /\ dbBlock' = [n \in Number |->
                     IF n \in numbers THEN CHOOSE b \in new : Height[b] = n
                                      ELSE dbBlock[n]]
        /\ UNCHANGED <<head, dbTx, dbElement>>
    BY <1>2 DEF InsertBlocks
  <2>2. task'.txs = task.txs
    BY <1>2 DEF InsertBlocks, TypeOK, Tasks
  <2>3. TxsAreKnown /\ task.pc = "blocks"
    BY <1>2 DEF MinedInv, InsertBlocks, TaskAt
  <2>4. \A x : (Gone(x)' <=> Gone(x)) /\ (Known(x)' <=> Known(x))
    BY <2>1 DEF Gone, Known, Canonical
  <2>5. ASSUME NEW n \in numbers
        PROVE  /\ n \in Number /\ dbBlock[n] = NoBlock
               /\ \E k \in task.txs : dbBlock'[n] = k[2] /\ Height[k[2]] = n
    <3>1. (CHOOSE b \in new : Height[b] = n) \in new
      OBVIOUS
    <3>2. Height[CHOOSE b \in new : Height[b] = n] = n
      OBVIOUS
    <3>3. PICK k \in task.txs : k[2] = (CHOOSE b \in new : Height[b] = n)
      BY <3>1
    <3>4. n \in Number /\ dbBlock[n] = NoBlock
      BY <1>0
    <3> QED
      BY <2>1, <3>2, <3>3, <3>4
  <2> HIDE DEF numbers
  <2>6. \A n \in Number : n \notin numbers => dbBlock'[n] = dbBlock[n]
    BY <2>1
  <2>7. RowsAreKnown'
    BY <2>3, <2>4, <2>5, <2>6 DEF MinedInv, RowsAreKnown, TxsAreKnown
  <2>8. ASSUME NEW k \in task.txs PROVE RowFits(k[2])'
    <3>1. Height[k[2]] \in Number
      BY <1>0
    <3>2. CASE Height[k[2]] \in numbers
      <4>1. PICK j \in task.txs : /\ dbBlock'[Height[k[2]]] = j[2]
                                  /\ Height[j[2]] = Height[k[2]]
        BY <2>5, <3>2
      <4>2. j[2] = k[2]
        BY <2>3, <4>1 DEF TxsAreKnown
      <4> QED
        BY <4>1, <4>2 DEF RowFits
    <3>3. CASE Height[k[2]] \notin numbers
      <4>1. RowFits(k[2])
        BY <2>3 DEF TxsAreKnown
      <4> QED
        BY <2>4, <2>6, <3>1, <3>3, <4>1 DEF RowFits
    <3> QED
      BY <3>2, <3>3
  <2>9. TxsAreKnown'
    BY <2>2, <2>3, <2>4, <2>8 DEF TxsAreKnown
  <2>10. RowsHaveTheirTxs'
    BY <2>1, <2>4, <2>5, <2>6 DEF MinedInv, RowsHaveTheirTxs
  <2> QED
    BY <2>1, <2>7, <2>9, <2>10 DEF MinedInv, ElementsHaveTxs
<1>3. CASE InsertTxs
  <2>1. /\ UNCHANGED <<head, dbBlock, dbElement>>
        /\ TxsAreKnown /\ task.pc = "insert"
        /\ \A k \in task.txs : dbBlock[Height[k[2]]] # NoBlock
        /\ task'.pc = "timestamps"
    BY <1>3 DEF InsertTxs, MinedInv, TaskAt, TypeOK, Tasks
  <2>2. \A x : (Gone(x)' <=> Gone(x)) /\ (Known(x)' <=> Known(x))
    BY <2>1 DEF Gone, Known, Canonical
  <2>3. ASSUME NEW t \in Tx
        PROVE  \/ dbTx'[t] = dbTx[t]
               \/ \E k \in task.txs : k[1] = t /\ dbTx'[t].number = Height[k[2]]
    <3>1. CASE dbTx[t] = NoTx /\ \E k \in task.txs : k[1] = t
      <4>1. (CHOOSE k \in task.txs : k[1] = t) \in task.txs
        BY <3>1
      <4>2. (CHOOSE k \in task.txs : k[1] = t)[1] = t
        BY <3>1
      <4>3. dbTx'[t].number = Height[(CHOOSE k \in task.txs : k[1] = t)[2]]
        BY <1>3, <3>1 DEF InsertTxs
      <4> QED
        BY <4>1, <4>2, <4>3
    <3>2. CASE ~ (dbTx[t] = NoTx /\ \E k \in task.txs : k[1] = t)
      BY <1>3, <3>2 DEF InsertTxs
    <3> QED
      BY <3>1, <3>2
  <2>4. RowsHaveTheirTxs'
    <3> SUFFICES ASSUME NEW t \in Tx, dbTx'[t] # NoTx
                 PROVE  LET row == dbBlock[dbTx'[t].number] IN
                        /\ dbTx'[t].number \in Number /\ row # NoBlock
                        /\ t \in TxsIn[row] \/ Gone(row)
      BY <2>1, <2>2 DEF RowsHaveTheirTxs, NoTx
    <3>1. CASE dbTx'[t] = dbTx[t]
      BY <3>1 DEF MinedInv, RowsHaveTheirTxs
    <3>2. ASSUME NEW k \in task.txs, k[1] = t, dbTx'[t].number = Height[k[2]]
          PROVE  LET row == dbBlock[dbTx'[t].number] IN
                 /\ dbTx'[t].number \in Number /\ row # NoBlock
                 /\ t \in TxsIn[row] \/ Gone(row)
      BY <1>0, <2>1, <3>2 DEF TxsAreKnown, RowFits
    <3> QED
      BY <2>3, <3>1, <3>2
  <2>5. ElementsHaveTxs'
    <3> SUFFICES ASSUME NEW t \in Tx, dbTx[t] # NoTx PROVE dbTx'[t] # NoTx
      BY <2>1 DEF MinedInv, ElementsHaveTxs, NoTx
    <3> QED
      BY <1>3 DEF InsertTxs
  <2> QED
    BY <2>1, <2>2, <2>4, <2>5 DEF MinedInv, RowsAreKnown, TxsAreKnown
<1>4. CASE StoreElements
  <2> DEFINE new == {k \in task.logs : dbElement[k[1]] = NoBlock
                                     /\ dbTx[k[1]] # NoTx}
  <2>1. /\ UNCHANGED <<head, dbBlock, dbTx>> /\ task'.pc = "update"
        /\ dbElement' = [t \in Tx |->
             IF \E k \in new : k[1] = t THEN (CHOOSE k \in new : k[1] = t)[2]
                                       ELSE dbElement[t]]
    BY <1>4 DEF StoreElements, TypeOK, Tasks
  <2>2. \A x : (Gone(x)' <=> Gone(x)) /\ (Known(x)' <=> Known(x))
    BY <2>1 DEF Gone, Known, Canonical
  <2>3. ElementsHaveTxs'
    <3> SUFFICES ASSUME NEW t \in Tx, dbElement'[t] # NoBlock PROVE dbTx[t] # NoTx
      BY <2>1 DEF ElementsHaveTxs, NoTx
    <3>1. CASE \E k \in new : k[1] = t
      BY <3>1
    <3>2. CASE ~ \E k \in new : k[1] = t
      BY <2>1, <3>2 DEF MinedInv, ElementsHaveTxs
    <3> QED
      BY <3>1, <3>2
  <2> QED
    BY <2>1, <2>2, <2>3 DEF MinedInv, RowsAreKnown, TxsAreKnown, RowsHaveTheirTxs, NoTx
<1>5. CASE RecoverFromReorg
  <2> DEFINE gone == {n \in Number : n >= reorg.bad /\ dbBlock[n] # NoBlock}
             goneTxs == {t \in Tx : dbTx[t].number \in gone}
  <2>1. /\ dbBlock' = [n \in Number |-> IF n \in gone THEN NoBlock ELSE dbBlock[n]]
        /\ dbTx' = [t \in Tx |-> IF t \in goneTxs THEN NoTx ELSE dbTx[t]]
        /\ dbElement' = [t \in Tx |-> IF t \in goneTxs THEN NoBlock ELSE dbElement[t]]
        /\ head' = head
    BY <1>5 DEF RecoverFromReorg
  <2>2. task'.txs = task.txs /\ task'.pc = task.pc
    BY <1>5 DEF RecoverFromReorg, TypeOK, Tasks
  <2>3. \A x : (Gone(x)' <=> Gone(x)) /\ (Known(x)' <=> Known(x))
    BY <2>1 DEF Gone, Known, Canonical
  <2> HIDE DEF gone
  <2>4. RowsAreKnown'
    BY <2>1, <2>3 DEF MinedInv, RowsAreKnown
  <2>5. \A k \in task.txs : RowFits(k[2]) => RowFits(k[2])'
    BY <1>0, <2>1, <2>3 DEF RowFits
  <2>6. TxsAreKnown'
    BY <2>2, <2>3, <2>5 DEF MinedInv, TxsAreKnown
  <2>7. RowsHaveTheirTxs'
    <3> SUFFICES ASSUME NEW t \in Tx, dbTx'[t] # NoTx
                 PROVE  LET row == dbBlock'[dbTx'[t].number] IN
                        /\ dbTx'[t].number \in Number /\ row # NoBlock
                        /\ t \in TxsIn[row] \/ Gone(row)
      BY <2>3 DEF RowsHaveTheirTxs, NoTx
    <3>1. t \notin goneTxs /\ dbTx'[t] = dbTx[t]
      BY <2>1
    <3>2. dbTx[t].number \notin gone /\ dbTx[t].number \in Number
      BY <3>1 DEF MinedInv, RowsHaveTheirTxs
    <3>3. dbBlock'[dbTx[t].number] = dbBlock[dbTx[t].number]
      BY <2>1, <3>2
    <3> QED
      BY <3>1, <3>2, <3>3 DEF MinedInv, RowsHaveTheirTxs
  <2>8. ElementsHaveTxs'
    BY <2>1 DEF MinedInv, ElementsHaveTxs, NoTx
  <2> QED
    BY <2>4, <2>6, <2>7, <2>8
<1>6. CASE FindRelevantElements \/ GetTransactionReceipts \/ PrefetchTimestamps
  <2>1. /\ UNCHANGED <<dbBlock, dbTx, dbElement>>
        /\ task'.pc \notin {"blocks", "insert"}
    BY <1>6 DEF FindRelevantElements, GetTransactionReceipts, PrefetchTimestamps,
       TypeOK, Tasks, database
  <2> QED
    BY <2>1, QuietStep
<1>7. CASE SelectAddresses \/ GetBlockNumbersForSearch \/ UpdateMonitoredAddresses
  <2>1. /\ UNCHANGED <<dbBlock, dbTx, dbElement>>
        /\ task'.pc \notin {"blocks", "insert"}
    BY <1>0, <1>7 DEF SelectAddresses, GetBlockNumbersForSearch, Finished,
       UpdateMonitoredAddresses, TypeOK, Tasks, TaskAt, database
  <2> QED
    BY <2>1, QuietStep
<1>8. CASE RaiseException \/ TaskFails
  <2>1. /\ UNCHANGED <<dbBlock, dbTx, dbElement>>
        /\ task'.pc \notin {"blocks", "insert"}
    BY <1>0, <1>8 DEF RaiseException, TaskFails, database
  <2> QED
    BY <2>1, QuietStep
<1>9. CASE ResetAllToBlock
  <2>1. /\ UNCHANGED <<dbBlock, dbTx, dbElement>>
        /\ task'.txs = task.txs /\ task'.pc = task.pc
    BY <1>9 DEF ResetAllToBlock, TypeOK, Tasks, database
  <2> QED
    BY <2>1, QuietStep
<1>10. ASSUME NEW p \in Proc, Start(p) \/ Crash(p) PROVE Goal
  <2>1. /\ UNCHANGED <<dbBlock, dbTx, dbElement>>
        /\ \/ task'.pc \notin {"blocks", "insert"}
           \/ task'.txs = task.txs /\ task'.pc = task.pc
    BY <1>0, <1>10 DEF Start, Crash, IdleTask, database
  <2> QED
    BY <2>1, QuietStep
<1>11. CASE UNCHANGED <<dbBlock, dbTx, dbElement, task>>
  BY <1>11, QuietStep
<1> QED
  BY <1>1, <1>2, <1>3, <1>4, <1>5, <1>6, <1>7, <1>8, <1>9, <1>10, <1>11
  DEF Next, IndexerStep, ReorgStep, MoveHead, CheckReorgs, ReadCurrentBlockNumber,
      CompareBlocks, ReorgTaskFails, database, vars

(* Events kept are of transactions of the chain, once the rows agree with  *)
(* it: the row a transaction refers to includes it unless that row is left *)
(* from a branch that is gone.                                             *)
THEOREM KeptElementsAreMined ==
  ASSUME NoReturn
  PROVE  Spec => []ElementsAreMined
<1>1. Init => TypeOK /\ TaskInv /\ MinedInv
  <2> SUFFICES ASSUME Init PROVE MinedInv
    BY InitIInv DEF IInv
  <2>1. IdleTask.pc = "idle"
    BY DEF IdleTask
  <2> QED
    BY <2>1 DEF Init, MinedInv, RowsAreNumbered, RowsAreKnown, TxsAreKnown,
       RowsHaveTheirTxs, ElementsHaveTxs
<1>2. TypeOK /\ TaskInv /\ MinedInv /\ [Next]_vars
        => (TypeOK /\ TaskInv /\ MinedInv)'
  BY TypeInvStep, RowsAreNumberedStep, MinedStep DEF MinedInv
<1>3. TypeOK /\ MinedInv => ElementsAreMined
  <2> SUFFICES ASSUME TypeOK, MinedInv, RowsMatch, NEW t \in Tx, dbElement[t] # NoBlock
               PROVE  Mined(t) # {}
    BY DEF ElementsAreMined
  <2> DEFINE row == dbBlock[dbTx[t].number]
  <2>1. /\ dbTx[t].number \in Number /\ row # NoBlock
        /\ t \in TxsIn[row] \/ Gone(row)
    BY DEF MinedInv, ElementsHaveTxs, RowsHaveTheirTxs
  <2>2. row \in Canonical
    BY <2>1 DEF RowsMatch
  <2>3. t \in TxsIn[row] /\ row \in Block
    BY <2>1, <2>2, ChainFacts DEF Gone, Canonical, TypeOK
  <2> QED
    BY <2>2, <2>3 DEF Mined
<1> QED
  BY <1>1, <1>2, <1>3, PTL DEF Spec
=============================================================================
