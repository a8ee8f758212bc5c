---------------------------- MODULE BlockIndexer ----------------------------
(***************************************************************************)
(* Indexing of a chain that reorganises: the events indexer               *)
(* (history/indexers/ethereum_indexer.py, events_indexer.py,               *)
(* safe_events_indexer.py), the part of the index service that stores      *)
(* transactions and blocks (history/services/index_service.py) and the     *)
(* reorg service (history/services/reorg_service.py).                      *)
(*                                                                         *)
(* The indexing task and the reorg task run under a lock each (TaskLock),  *)
(* so there is at most one of either, in any of the worker processes.      *)
(* They interleave at every call to the node and to the database, which    *)
(* is where a greenlet yields: a step below goes from one such call to     *)
(* the next.  The node follows the chain, a finite tree of blocks.         *)
(***************************************************************************)
EXTENDS Integers, FiniteSets

CONSTANTS
  Proc,           \* worker processes; each has its own indexer singleton
  Addr,           \* monitored addresses (SafeMasterCopy rows)
  Tx,             \* transactions that emit one Safe event each
  Block,          \* the blocks of the tree
  Root,           \* the block every chain starts from
  Parent,         \* parent_hash of a block
  Height,         \* number of a block
  Weight,         \* fork choice: the node follows the chain of more weight
  TxsIn,          \* the transactions a block includes
  NoBlock,        \* no row
  NoNumber,       \* no row
  StartBlock,     \* tx_block_number an address is created with
  Limits,         \* the values block_process_limit takes
  Confirmations,  \* confirmations: last blocks left out
  BlocksToReindexAgain,
  UpdatedBlocksBehind,
  EthReorgBlocks, \* depth at which a block is safe
  RewindBlocks,   \* eth_reorg_rewind_blocks
  MaxReorg,       \* bound on the blocks one reorganisation replaces
  RpcLag,         \* bound on the blocks mined while transactions are stored
  SlowRecovery,   \* other steps may come inside the recovery transaction
  MaxFailures     \* bound on failed tasks and killed processes

MaxHeight == CHOOSE n \in {Height[b] : b \in Block} :
               \A b \in Block : Height[b] <= n

Number == 0 .. MaxHeight

ASSUME TreeType ==
  /\ Root \in Block /\ NoBlock \notin Block
  /\ Parent \in [Block \ {Root} -> Block]
  /\ Height \in [Block -> Nat]
  /\ \A b \in Block \ {Root} : Height[b] = Height[Parent[b]] + 1
  /\ \E b \in Block : \A c \in Block : Height[c] <= Height[b]
  /\ Weight \in [Block -> Nat]
  /\ TxsIn \in [Block -> SUBSET Tx]
  /\ NoNumber \notin Nat
ASSUME ProcType == Proc # {}
ASSUME StartType == StartBlock \in [Addr -> Number]
ASSUME LimitsType == Limits \in SUBSET (Nat \ {0})
ASSUME SettingsType ==
  /\ Confirmations \in Nat /\ BlocksToReindexAgain \in Nat
  /\ UpdatedBlocksBehind \in Nat /\ EthReorgBlocks \in Nat
  /\ RewindBlocks \in Nat /\ SlowRecovery \in BOOLEAN
ASSUME BoundsType == MaxReorg \in Nat /\ RpcLag \in Nat /\ MaxFailures \in Nat
(* No Safe event is as old as the first blocks of the network, where the   *)
(* rewind of a recovery would be cut off at block 0.                       *)
ASSUME EventsComeLater == \A b \in Block : TxsIn[b] # {} => Height[b] >= RewindBlocks

VARIABLES
  head,          \* the node's latest block
  dbBlock,       \* history_ethereumblock: number is the primary key
  confirmed,     \* numbers of the rows with confirmed = True
  dbTx,          \* history_ethereumtx: block_id and block of the receipt
  dbElement,     \* history_internaltx: the block whose log was stored
  txBlockNumber, \* tx_block_number of an address: next block to scan
  cache,         \* ElementAlreadyProcessedChecker of the singleton of a process
  task,          \* the running indexing task
  reorg,         \* the running reorg task
  erased,        \* (history) rows a recovery deleted, for whom to scan again
  skipped,       \* (history) events left out as processed, but not stored
  failures       \* failed tasks and killed processes so far

vars == <<head, dbBlock, confirmed, dbTx, dbElement, txBlockNumber, cache,
          task, reorg, erased, skipped, failures>>

(* The blocks of the chain that ends in a block.                           *)
Chain[b \in Block] == IF b = Root THEN {b} ELSE {b} \cup Chain[Parent[b]]

Canonical == Chain[head]

(* What the chain is assumed to do, where a theorem or a run needs it: the *)
(* node does not return to a branch it has left; rows that a check has     *)
(* confirmed are deeper than a reorganisation goes, also when the chain    *)
(* moved on while their transactions were stored.                          *)
NoReturn ==
  \A h, b, c \in Block :
    Weight[h] < Weight[b] /\ Weight[b] < Weight[c]
      => Chain[h] \cap Chain[c] \subseteq Chain[b]
ReorgsAreShallow == MaxReorg + RpcLag <= EthReorgBlocks

Keys == Tx \X Block
NoTx == [number |-> NoNumber, receipt |-> NoBlock]
Larger(m, n) == IF m > n THEN m ELSE n
Smaller(m, n) == IF m < n THEN m ELSE n
Least(S) == CHOOSE n \in S : \A m \in S : n <= m

IdleTask == [pc |-> "idle", stage |-> "almost", proc |-> CHOOSE p \in Proc : TRUE,
             addrs |-> {}, cur |-> 0, from |-> 0, to |-> 0, logs |-> {},
             receipts |-> {}, txs |-> {}, seenAt |-> 0, own |-> {},
             detached |-> FALSE, valid |-> {}]
IdleReorg == [pc |-> "idle", proc |-> CHOOSE p \in Proc : TRUE, first |-> 0,
              cur |-> 0, bad |-> 0, locked |-> {}]

Tasks == [pc : {"idle", "select", "search", "logs", "receipts", "txs",
               "blocks", "insert", "timestamps", "store", "update"},
          stage : {"almost", "rest"}, proc : Proc, addrs : SUBSET Addr,
          cur : Number, from : Number, to : Number, logs : SUBSET Keys,
          receipts : SUBSET Keys, txs : SUBSET Keys, seenAt : Number,
          own : SUBSET Keys, detached : BOOLEAN, valid : SUBSET Number]
Reorgs == [pc : {"idle", "current", "compare", "reset", "commit"},
           proc : Proc, first : Number, cur : Number, bad : Number,
           locked : SUBSET Addr]

TypeOK ==
  /\ head \in Block
  /\ dbBlock \in [Number -> Block \cup {NoBlock}]
  /\ confirmed \in SUBSET Number
  /\ dbTx \in [Tx -> [number : Number \cup {NoNumber},
                      receipt : Block \cup {NoBlock}]]
  /\ dbElement \in [Tx -> Block \cup {NoBlock}]
  /\ txBlockNumber \in [Addr -> 0 .. MaxHeight + 1]
  /\ cache \in [Proc -> SUBSET Keys]
  /\ task \in Tasks
  /\ reorg \in Reorgs
  /\ erased \in SUBSET (Addr \X Number)
  /\ skipped \in SUBSET Keys
  /\ failures \in 0 .. MaxFailures

Init ==
  /\ head = Root
  /\ dbBlock = [n \in Number |-> NoBlock]
  /\ confirmed = {}
  /\ dbTx = [t \in Tx |-> NoTx]
  /\ dbElement = [t \in Tx |-> NoBlock]
  /\ txBlockNumber = StartBlock
  /\ cache = [p \in Proc |-> {}]
  /\ task = IdleTask
  /\ reorg = IdleReorg
  /\ erased = {}
  /\ skipped = {}
  /\ failures = 0

database == <<dbBlock, confirmed, dbTx, dbElement, txBlockNumber>>

-----------------------------------------------------------------------------
(* The chain grows by a block, on top of the head or of an older block     *)
(* that other miners preferred.  While a task stores what the node has     *)
(* told about its transactions the chain grows by RpcLag blocks at most.   *)
MoveHead(b) ==
  /\ Height[b] = Height[head] + 1
  /\ Weight[b] > Weight[head]
  /\ Cardinality(Canonical \ Chain[b]) <= MaxReorg
  /\ task.pc = "blocks" => Height[b] <= task.seenAt + RpcLag
  /\ head' = b
  /\ UNCHANGED <<database, cache, task, reorg, erased, skipped,
                 failures>>

-----------------------------------------------------------------------------
(* A step of the indexing task, which leaves chain and recovery alone.  An *)
(* undivided recovery lets none in before it has committed.                *)
TaskAt(pc) ==
  /\ task.pc = pc
  /\ reorg.pc = "commit" => SlowRecovery

(* start: the node's block number is read, once for the whole run.         *)
Start(p) ==
  /\ TaskAt("idle")
  /\ task' = [IdleTask EXCEPT !.pc = "select", !.proc = p, !.cur = Height[head]]
  /\ UNCHANGED <<head, database, cache, reorg, erased, skipped,
                 failures>>

GetFromBlockNumber(as) == Least({txBlockNumber[a] : a \in as})

GetAlmostUpdatedAddresses(cur) ==
  LET from == Larger(GetFromBlockNumber(Addr), cur - UpdatedBlocksBehind) IN
  {a \in Addr : from <= txBlockNumber[a] /\ txBlockNumber[a] < cur - Confirmations}

GetNotUpdatedAddresses(cur) ==
  {a \in Addr : txBlockNumber[a] <= cur - Confirmations}

(* start: almost updated addresses first, then the ones left behind; a run *)
(* with nothing to scan is over.                                           *)
SelectAddresses ==
  LET almost == GetAlmostUpdatedAddresses(task.cur)
      rest == GetNotUpdatedAddresses(task.cur)
      as == IF task.stage = "almost" THEN almost ELSE rest IN
  /\ TaskAt("select")
  /\ task' = CASE as # {} -> [task EXCEPT !.pc = "search", !.addrs = as]
               [] as = {} /\ task.stage = "almost" -> [task EXCEPT !.stage = "rest"]
               [] as = {} /\ task.stage = "rest" -> IdleTask
  /\ UNCHANGED <<head, database, cache, reorg, erased, skipped,
                 failures>>

(* The task once its addresses are up to date.                             *)
Finished(t) ==
  IF t.stage = "almost" THEN [t EXCEPT !.pc = "select", !.stage = "rest"]
                        ELSE IdleTask

(* get_block_numbers_for_search under a limit: the window goes back a few  *)
(* blocks when it is near the head and the limit leaves room.              *)
ReindexFrom(from, to, cur, limit) ==
  IF from + limit > cur - Confirmations
  THEN Larger(from - Smaller(limit - (to - from + 1), BlocksToReindexAgain), 0)
  ELSE from

(* Mutation of GetBlockNumbersForSearch: the window may pass the head.     *)
SearchPastHead ==
  LET from == GetFromBlockNumber(task.addrs) IN
  /\ TaskAt("search")
  /\ IF task.cur - from < Confirmations
     THEN task' = Finished(task)
     ELSE \E limit \in Limits :
            LET to == from + limit - 1 IN
            task' = [task EXCEPT !.pc = "logs", !.to = to,
                       !.from = ReindexFrom(from, to, task.cur, limit)]
  /\ UNCHANGED <<head, database, cache, reorg, erased, skipped,
                 failures>>

GetBlockNumbersForSearch ==
  LET from == GetFromBlockNumber(task.addrs) IN
  /\ TaskAt("search")
  /\ IF task.cur - from < Confirmations
     THEN task' = Finished(task)
     ELSE \E limit \in Limits :
            LET to == Smaller(from + limit - 1, task.cur - Confirmations) IN
            task' = [task EXCEPT !.pc = "logs", !.to = to,
                       !.from = ReindexFrom(from, to, task.cur, limit)]
  /\ UNCHANGED <<head, database, cache, reorg, erased, skipped,
                 failures>>

(* The keys the indexer of the task remembers: del_singleton leaves a      *)
(* running task with the instance it started with.                         *)
Processed == IF task.detached THEN task.own ELSE cache[task.proc]

(* eth_getLogs for the window; the logs processed recently are left out.   *)
FindRelevantElements ==
  LET window == {b \in Canonical : Height[b] \in task.from .. task.to}
      found == {k \in Keys : k[2] \in window /\ k[1] \in TxsIn[k[2]]}
      logs == found \ Processed IN
  /\ TaskAt("logs")
  /\ task' = [task EXCEPT !.logs = logs, !.valid = task.from .. task.to,
                !.pc = IF logs = {} THEN "update" ELSE "receipts"]
  /\ skipped' = skipped \cup
       {k \in found \cap Processed : dbElement[k[1]] = NoBlock}
  /\ UNCHANGED <<head, database, cache, reorg, erased, failures>>

(* Where the chain of the node includes a transaction.                     *)
Mined(t) == {b \in Block : b \in Canonical /\ t \in TxsIn[b]}
LogTxs == {k[1] : k \in task.logs}

(* txs_create_or_update_from_tx_hashes: only what the database lacks is    *)
(* asked for, receipts first; a receipt the node does not have ends the    *)
(* task, see RaiseException.                                               *)
GetTransactionReceipts ==
  LET missing == {t \in LogTxs : dbTx[t] = NoTx} IN
  /\ TaskAt("receipts")
  /\ \A t \in missing : Mined(t) # {}
  /\ task' = [task EXCEPT
                !.receipts = UNION {{t} \X Mined(t) : t \in missing},
                !.pc = IF missing = {} THEN "timestamps" ELSE "txs"]
  /\ UNCHANGED <<head, database, cache, reorg, erased, skipped,
                 failures>>

(* The transactions of those receipts, by a call of their own.             *)
GetTransactions ==
  LET asked == {k[1] : k \in task.receipts} IN
  /\ TaskAt("txs")
  /\ \A t \in asked : Mined(t) # {}
  /\ task' = [task EXCEPT !.pc = "blocks", !.seenAt = Height[head],
                          !.txs = UNION {{t} \X Mined(t) : t \in asked}]
  /\ UNCHANGED <<head, database, cache, reorg, erased, skipped,
                 failures>>

(* Mutation of InsertBlocks: every new row is confirmed.                   *)
InsertBlocksConfirmed ==
  LET blocks == {k[2] : k \in task.txs}
      new == {b \in blocks : dbBlock[Height[b]] = NoBlock}
      numbers == {Height[b] : b \in new} IN
  /\ TaskAt("blocks")
  /\ dbBlock' = [n \in Number |->
                   IF n \in numbers THEN CHOOSE b \in new : Height[b] = n
                                    ELSE dbBlock[n]]
  /\ confirmed' = confirmed \cup
       numbers
  /\ task' = [task EXCEPT !.pc = "insert"]
  /\ UNCHANGED <<head, dbTx, dbElement, txBlockNumber, cache, reorg, erased,
                 skipped, failures>>

(* Mutation of InsertBlocks: a row in the way is overwritten.              *)
InsertBlocksOverwriting ==
  LET new == {k[2] : k \in task.txs}
      numbers == {Height[b] : b \in new} IN
  /\ TaskAt("blocks")
  /\ dbBlock' = [n \in Number |->
                   IF n \in numbers THEN CHOOSE b \in new : Height[b] = n
                                    ELSE dbBlock[n]]
  /\ confirmed' = (confirmed \ numbers) \cup
       {n \in numbers : Height[head] - n >= EthReorgBlocks}
  /\ task' = [task EXCEPT !.pc = "insert"]
  /\ UNCHANGED <<head, dbTx, dbElement, txBlockNumber, cache, reorg, erased,
                 skipped, failures>>

(* txs_create_or_update_from_block_hashes: blocks by hash (the node may    *)
(* still know one that was replaced), then the current block number; a     *)
(* number that has a row keeps it (ignore_conflicts).                      *)
InsertBlocks ==
  LET blocks == {k[2] : k \in task.txs}
      new == {b \in blocks : dbBlock[Height[b]] = NoBlock}
      numbers == {Height[b] : b \in new} IN
  /\ TaskAt("blocks")
  /\ dbBlock' = [n \in Number |->
                   IF n \in numbers THEN CHOOSE b \in new : Height[b] = n
                                    ELSE dbBlock[n]]
  /\ confirmed' = confirmed \cup
       {n \in numbers : Height[head] - n >= EthReorgBlocks}
  /\ task' = [task EXCEPT !.pc = "insert"]
  /\ UNCHANGED <<head, dbTx, dbElement, txBlockNumber, cache, reorg, erased,
                 skipped, failures>>

(* The rows of the transactions refer to their block by number: whatever   *)
(* row has it will do, none is an IntegrityError.                          *)
InsertTxs ==
  /\ TaskAt("insert")
  /\ \A k \in task.txs : dbBlock[Height[k[2]]] # NoBlock
  /\ dbTx' = [t \in Tx |->
       IF dbTx[t] = NoTx /\ \E k \in task.txs : k[1] = t
       THEN [number |-> Height[(CHOOSE k \in task.txs : k[1] = t)[2]],
             receipt |-> (CHOOSE k \in task.receipts : k[1] = t)[2]]
       ELSE dbTx[t]]
  /\ task' = [task EXCEPT !.pc = "timestamps"]
  /\ UNCHANGED <<head, dbBlock, confirmed, dbElement, txBlockNumber, cache,
                 reorg, erased, skipped,
                 failures>>

(* The timestamp of an event is the one of the row with the block hash of  *)
(* its log; without such a row, DoesNotExist (TaskFails).                  *)
PrefetchTimestamps ==
  /\ TaskAt("timestamps")
  /\ \A k \in task.logs : dbBlock[Height[k[2]]] = k[2]
  /\ task' = [task EXCEPT !.pc = "store"]
  /\ UNCHANGED <<head, database, cache, reorg, erased, skipped,
                 failures>>

(* store_internal_txs_and_decoded_in_db: all in one transaction, which     *)
(* fails on a missing ethereum_tx, or, when some event is in               *)
(* the database, one by one, where any IntegrityError is taken for a       *)
(* repetition.  The events are then marked as processed.                   *)
StoreElements ==
  LET repeated == \E k \in task.logs : dbElement[k[1]] # NoBlock
      new == {k \in task.logs : dbElement[k[1]] = NoBlock /\ dbTx[k[1]] # NoTx} IN
  /\ TaskAt("store")
  /\ repeated \/ \A k \in task.logs : dbTx[k[1]] # NoTx
  /\ dbElement' = [t \in Tx |->
       IF \E k \in new : k[1] = t THEN (CHOOSE k \in new : k[1] = t)[2]
                                 ELSE dbElement[t]]
  /\ cache' = IF task.detached THEN cache
              ELSE [cache EXCEPT ![task.proc] = @ \cup task.logs]
  /\ task' = [task EXCEPT !.pc = "update",
                !.own = IF task.detached THEN @ \cup task.logs ELSE @]
  /\ skipped' = skipped \ task.logs
  /\ UNCHANGED <<head, dbBlock, confirmed, dbTx, txBlockNumber, reorg, erased,
                 failures>>

(* Mutation of UpdateMonitoredAddresses: addresses taken back meanwhile     *)
(* move, too.                                                              *)
UpdateUnprotected ==
  LET moved == {a \in task.addrs : txBlockNumber[a] < task.to + 1} IN
  /\ TaskAt("update")
  /\ task.addrs \cap reorg.locked = {}
  /\ moved # {}
  /\ txBlockNumber' = [a \in Addr |-> IF a \in moved THEN task.to + 1
                                       ELSE txBlockNumber[a]]
  /\ erased' = erased \ (moved \X task.valid)
  /\ LET done == [task EXCEPT !.logs = {}, !.receipts = {}, !.txs = {},
                              !.valid = {}, !.seenAt = 0, !.pc = "search"] IN
     task' = IF task.to = task.cur - Confirmations THEN Finished(done) ELSE done
  /\ UNCHANGED <<head, dbBlock, confirmed, dbTx, dbElement, cache, reorg,
                 skipped, failures>>

(* update_monitored_addresses: one UPDATE, which waits for the rows an     *)
(* uncommitted recovery holds, of the addresses that are neither behind    *)
(* the window (a recovery took them back) nor ahead of it.  No row at all  *)
(* is a ValueError.  process_addresses then goes on with the               *)
(* next window or is done.                                                 *)
UpdateMonitoredAddresses ==
  LET moved == {a \in task.addrs : /\ task.from <= txBlockNumber[a]
                                   /\ txBlockNumber[a] < task.to + 1} IN
  /\ TaskAt("update")
  /\ task.addrs \cap reorg.locked = {}
  /\ moved # {}
  /\ txBlockNumber' = [a \in Addr |-> IF a \in moved THEN task.to + 1
                                       ELSE txBlockNumber[a]]
  /\ erased' = erased \ (moved \X task.valid)
  /\ LET done == [task EXCEPT !.logs = {}, !.receipts = {}, !.txs = {},
                              !.valid = {}, !.seenAt = 0, !.pc = "search"] IN
     task' = IF task.to = task.cur - Confirmations THEN Finished(done) ELSE done
  /\ UNCHANGED <<head, dbBlock, confirmed, dbTx, dbElement, cache, reorg,
                 skipped, failures>>

(* The exceptions the code itself raises: TransactionNotFoundException for *)
(* a transaction no longer mined, BlockNotFoundException for a block that  *)
(* was replaced, an IntegrityError for a missing row, DoesNotExist for the *)
(* timestamp, ValueError for an update of no row.                          *)
Raises ==
  \/ /\ TaskAt("receipts")
     /\ \E t \in LogTxs : dbTx[t] = NoTx /\ Mined(t) = {}
  \/ TaskAt("txs") /\ \E k \in task.receipts : Mined(k[1]) = {}
  \/ TaskAt("blocks") /\ \E k \in task.txs : k[2] \notin Canonical
  \/ TaskAt("insert") /\ \E k \in task.txs : dbBlock[Height[k[2]]] = NoBlock
  \/ TaskAt("timestamps") /\ \E k \in task.logs : dbBlock[Height[k[2]]] # k[2]
  \/ /\ TaskAt("store")
     /\ \A k \in task.logs : dbElement[k[1]] = NoBlock
     /\ \E k \in task.logs : dbTx[k[1]] = NoTx
  \/ /\ TaskAt("update")
     /\ task.addrs \cap reorg.locked = {}
     /\ \A a \in task.addrs : txBlockNumber[a] \notin task.from .. task.to

(* An exception ends the task; what has been stored stays, the cache too.  *)
RaiseException ==
  /\ Raises
  /\ task' = IdleTask
  /\ UNCHANGED <<head, database, cache, reorg, erased, skipped,
                 failures>>

(* The node or the database refuses a call, or the timer of the task fires.*)
TaskFails ==
  /\ task.pc # "idle"
  /\ reorg.pc = "commit" => SlowRecovery
  /\ failures < MaxFailures
  /\ failures' = failures + 1
  /\ task' = IdleTask
  /\ UNCHANGED <<head, database, cache, reorg, erased, skipped>>

-----------------------------------------------------------------------------
(* check_reorgs: the first row not confirmed.                              *)
CheckReorgs(p) ==
  LET unconfirmed == {n \in Number \ confirmed : dbBlock[n] # NoBlock} IN
  /\ reorg.pc = "idle"
  /\ unconfirmed # {}
  /\ reorg' = [IdleReorg EXCEPT !.pc = "current", !.proc = p,
                               !.first = Least(unconfirmed)]
  /\ UNCHANGED <<head, database, cache, task, erased, skipped,
                 failures>>

(* check_reorgs: the node's block number.                                  *)
ReadCurrentBlockNumber ==
  /\ reorg.pc = "current"
  /\ reorg' = [reorg EXCEPT !.pc = "compare", !.cur = Height[head]]
  /\ UNCHANGED <<head, database, cache, task, erased, skipped,
                 failures>>

(* The rows from the first unconfirmed one on.                             *)
RowsToCheck == {n \in Number : n >= reorg.first /\ dbBlock[n] # NoBlock}

(* Mutation of CompareBlocks: every row that matches is confirmed.         *)
CompareBlocksConfirmingAll(answered) ==
  LET bad == {n \in answered : dbBlock[n] \notin Canonical}
      good == {n \in answered : \A m \in bad : n < m} IN
  /\ reorg.pc = "compare"
  /\ confirmed' = confirmed \cup good
  /\ reorg' = IF bad = {} THEN IdleReorg
              ELSE [reorg EXCEPT !.pc = "reset", !.bad = Least(bad)]
  /\ UNCHANGED <<head, dbBlock, dbTx, dbElement, txBlockNumber, cache, task,
                 erased, skipped,
                 failures>>

(* check_reorgs: the rows to check (one page) against the                  *)
(* blocks of the node, which may not give some of them.  Rows that match   *)
(* are confirmed when they are deep enough, up to the first that does not. *)
CompareBlocks(answered) ==
  LET bad == {n \in answered : dbBlock[n] \notin Canonical}
      good == {n \in answered : \A m \in bad : n < m} IN
  /\ reorg.pc = "compare"
  /\ confirmed' = confirmed \cup {n \in good : n <= reorg.cur - EthReorgBlocks}
  /\ reorg' = IF bad = {} THEN IdleReorg
              ELSE [reorg EXCEPT !.pc = "reset", !.bad = Least(bad)]
  /\ UNCHANGED <<head, dbBlock, dbTx, dbElement, txBlockNumber, cache, task,
                 erased, skipped,
                 failures>>

(* Mutation of SafeBlock: the indexers go on from the bad block.           *)
SafeBlockNotRewound == reorg.bad

SafeBlock == Larger(reorg.bad - RewindBlocks, 0)

(* recover_from_reorg, reset_all_to_block: the UPDATE locks the addresses  *)
(* ahead of the safe block until the commit; the singletons of this        *)
(* process are dropped at once.                                            *)
ResetAllToBlock ==
  /\ reorg.pc = "reset"
  /\ reorg' = [reorg EXCEPT !.pc = "commit",
                 !.locked = {a \in Addr : txBlockNumber[a] > SafeBlock}]
  /\ cache' = [cache EXCEPT ![reorg.proc] = {}]
  /\ task' = IF task.pc # "idle" /\ task.proc = reorg.proc /\ ~task.detached
             THEN [task EXCEPT !.detached = TRUE, !.own = cache[reorg.proc]]
             ELSE task
  /\ UNCHANGED <<head, database, erased, skipped,
                 failures>>

(* recover_from_reorg: the rows from the bad block on are deleted, with    *)
(* their transactions and events, and the transaction commits.             *)
RecoverFromReorg ==
  LET gone == {n \in Number : n >= reorg.bad /\ dbBlock[n] # NoBlock}
      goneTxs == {t \in Tx : dbTx[t].number \in gone} IN
  /\ reorg.pc = "commit"
  /\ txBlockNumber' = [a \in Addr |-> IF a \in reorg.locked THEN SafeBlock
                                       ELSE txBlockNumber[a]]
  /\ dbBlock' = [n \in Number |-> IF n \in gone THEN NoBlock ELSE dbBlock[n]]
  /\ confirmed' = confirmed \ gone
  /\ dbTx' = [t \in Tx |-> IF t \in goneTxs THEN NoTx ELSE dbTx[t]]
  /\ dbElement' = [t \in Tx |-> IF t \in goneTxs THEN NoBlock ELSE dbElement[t]]
  /\ erased' = erased \cup (Addr \X gone)
  /\ task' = [task EXCEPT !.valid = @ \ gone]
  /\ reorg' = IdleReorg
  /\ UNCHANGED <<head, cache, skipped, failures>>

(* The node or the database refuses a call of the reorg task: its          *)
(* transaction is rolled back, the singletons stay dropped.                *)
ReorgTaskFails ==
  /\ reorg.pc # "idle"
  /\ failures < MaxFailures
  /\ failures' = failures + 1
  /\ reorg' = IdleReorg
  /\ UNCHANGED <<head, database, cache, task, erased, skipped>>

(* A process is killed: its tasks end where they are, its cache is gone.   *)
Crash(p) ==
  /\ failures < MaxFailures
  /\ failures' = failures + 1
  /\ cache' = [cache EXCEPT ![p] = {}]
  /\ task' = IF task.proc = p THEN IdleTask ELSE task
  /\ reorg' = IF reorg.proc = p THEN IdleReorg ELSE reorg
  /\ UNCHANGED <<head, database, erased, skipped>>

IndexerStep ==
  \/ SelectAddresses \/ GetBlockNumbersForSearch \/ FindRelevantElements
  \/ GetTransactionReceipts \/ GetTransactions \/ InsertBlocks \/ InsertTxs
  \/ PrefetchTimestamps \/ StoreElements \/ UpdateMonitoredAddresses
  \/ RaiseException

ReorgStep ==
  \/ ReadCurrentBlockNumber
  \/ \E answered \in SUBSET RowsToCheck : CompareBlocks(answered)
  \/ ResetAllToBlock
  \/ RecoverFromReorg

Next ==
  \/ \E b \in Block : MoveHead(b)
  \/ \E p \in Proc : Start(p) \/ CheckReorgs(p) \/ Crash(p)
  \/ IndexerStep
  \/ ReorgStep
  \/ TaskFails
  \/ ReorgTaskFails

Spec == Init /\ [][Next]_vars

(* The beat sends both tasks again and again, calls return, and the node   *)
(* has all the blocks in the end; the chain need not grow.                 *)
Fairness ==
  /\ WF_vars(\E p \in Proc : Start(p))
  /\ WF_vars(IndexerStep)
  /\ WF_vars(\E p \in Proc : CheckReorgs(p))
  /\ WF_vars(ReorgStep)
  /\ SF_vars(CompareBlocks(RowsToCheck))

FairSpec == Spec /\ Fairness

-----------------------------------------------------------------------------
(* update_monitored_addresses, "Make sure that no reorg has happened": an  *)
(* address never passes a block whose row a recovery deleted before the    *)
(* block has been asked for again.                                         *)
ErasedIsRescanned ==
  \A e \in erased : txBlockNumber[e[1]] <= e[2]

(* confirmed, "safe to rely on": a row that no later check looks at is a   *)
(* block of the chain.                                                     *)
ConfirmedIsCanonical ==
  \A n \in confirmed : dbBlock[n] \in Canonical

RowsMatch == \A n \in Number : dbBlock[n] \in Canonical \cup {NoBlock}

(* An event of the chain is stored once an address has passed its block.   *)
Missing ==
  {k \in Keys : /\ k[2] \in Canonical /\ k[1] \in TxsIn[k[2]]
               /\ \E a \in Addr :
                    Height[k[2]] \in StartBlock[a] .. (txBlockNumber[a] - 1)
               /\ dbElement[k[1]] = NoBlock}

(* recover_from_reorg, "Reset database fields to a block to start          *)
(* reindexing from that block": when the rows agree with the chain, no     *)
(* event is missing behind the addresses.                                  *)
HoleFree == RowsMatch => Missing = {}

(* Heights at which a reorganisation may leave no trace: a task left an    *)
(* event out because the cache it kept across a recovery has it as         *)
(* processed, or a block has no event and so gets no row.                  *)
Blind == {Height[k[2]] : k \in skipped}
           \cup {Height[b] : b \in {x \in Block : TxsIn[x] = {}}}

(* The same up to what neither check_reorgs nor the indexer can see: the   *)
(* only events missing are at such heights.  Where a block has two         *)
(* transactions it can fail: one that StoreElements leaves out, as stored *)
(* under a replaced block, goes with the recovery of that block.           *)
HolesAreBlind ==
  RowsMatch => \A k \in Missing : Height[k[2]] \in Blind

(* An event kept when the rows agree with the chain is of a transaction of *)
(* the chain: recover_from_reorg, "Reset", deletes blocks and with them    *)
(* whatever a replaced block had.                                          *)
ElementsAreMined ==
  RowsMatch => \A t \in Tx : dbElement[t] # NoBlock => Mined(t) # {}

(* The stronger claim that it is the event of that very block.             *)
ElementsAreCanonical ==
  RowsMatch => \A t \in Tx : dbElement[t] \in Canonical \cup {NoBlock}

(* txs_create_or_update_from_tx_hashes, "First get the receipts as they    *)
(* guarantee tx is mined and confirmed": the receipt stored with a         *)
(* transaction is the one of its block.                                    *)
ReceiptMatchesBlock ==
  \A t \in Tx : dbTx[t] # NoTx => Height[dbTx[t].receipt] = dbTx[t].number

InSync ==
  /\ \A b \in Canonical : \A t \in TxsIn[b] :
       dbElement[t] = b \/ <<t, b>> \in skipped
  /\ \A a \in Addr : txBlockNumber[a] > Height[head]
  /\ RowsMatch

(* Once the chain no longer changes the index catches up with it.          *)
EventuallySynced == <>[]InSync
=============================================================================
