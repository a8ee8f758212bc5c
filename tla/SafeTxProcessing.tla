-------------------------- MODULE SafeTxProcessing --------------------------
(***************************************************************************)
(* Processing the decoded calls of a Safe (process_decoded_txs_for_safe    *)
(* and process_all_decoded_txs in history/services/index_service.py, and   *)
(* history/indexers/tx_processor.py): batches of pending rows, each in a   *)
(* database transaction, turn into SafeStatus rows and a SafeLastStatus.   *)
(* Meanwhile the indexer adds rows, in an order that need not be that of   *)
(* the chain, a recovery from a reorg deletes them, and an operator has    *)
(* them processed again.                                                   *)
(*                                                                         *)
(* The lock of the task (TaskLock) leaves one run per Safe.  A step goes   *)
(* from one access to the database to the next; what a transaction has     *)
(* written is in tx until it commits.                                      *)
(***************************************************************************)
EXTENDS SafeStatus, FiniteSets

CONSTANTS
  BatchSize,   \* eth_internal_tx_decoded_process_batch
  Together,    \* PROCESSING_ALL_SAFES_TOGETHER
  Overlap,     \* earlier rows and reprocessing may come while a run is on
  SplitBlocks, \* the rows of a block may come apart
  MaxUpsets    \* bound on recoveries, reprocessings and failures

ASSUME ProcessingType ==
  /\ BatchSize \in Nat \ {0}
  /\ Together \in BOOLEAN /\ Overlap \in BOOLEAN /\ SplitBlocks \in BOOLEAN
  /\ MaxUpsets \in Nat

VARIABLES
  decoded,  \* history_internaltxdecoded: the row is there, and processed
  statuses, \* history_safestatus, by internal_tx
  last,     \* history_safelaststatus
  run,      \* the running task
  tx,       \* its transaction: rows written and safe_last_status_cache
  upsets

vars == <<decoded, statuses, last, run, tx, upsets>>

Pending == {r \in Row : decoded[r] = "pending"}
Processed == {r \in Row : decoded[r] = "processed"}
Present == Pending \cup Processed

NoRow == 0
IdleRun == [pc |-> "idle", batch |-> {}, todo |-> {}, checked |-> FALSE,
            fixFrom |-> NoRow, gone |-> {}]
NoTx == [cache |-> NoStatus, last |-> NoStatus, new |-> [r \in Row |-> NoStatus]]

Init ==
  /\ decoded = [r \in Row |-> "absent"]
  /\ statuses = [r \in Row |-> NoStatus]
  /\ last = NoStatus
  /\ run = IdleRun
  /\ tx = NoTx
  /\ upsets = 0

-----------------------------------------------------------------------------
(* Rows stored by an indexer.  Those of one block come together unless     *)
(* SplitBlocks; a row earlier than another comes from a reindexing.        *)
StoreRows(rows) ==
  /\ rows # {} /\ rows \cap Present = {}
  /\ Overlap \/ run.pc = "idle" \/ \A r \in rows, q \in Present : q < r
  /\ SplitBlocks \/ \A r \in rows, q \in Row :
                      Timestamp[q] = Timestamp[r] => q \in rows \cup Present
  /\ decoded' = [r \in Row |-> IF r \in rows THEN "pending" ELSE decoded[r]]
  /\ UNCHANGED <<statuses, last, run, tx, upsets>>

(* recover_from_reorg deletes the rows from a block on, their statuses by  *)
(* cascade; it waits for a SafeLastStatus row the run has changed.         *)
DeleteRows(t) ==
  LET deleted == {r \in Present : Timestamp[r] >= t} IN
  /\ upsets < MaxUpsets
  /\ deleted # {}
  /\ ~ (tx.last # NoStatus /\ last # NoStatus /\ last.row \in deleted)
  /\ upsets' = upsets + 1
  /\ decoded' = [r \in Row |-> IF r \in deleted THEN "absent" ELSE decoded[r]]
  /\ statuses' = [r \in Row |-> IF r \in deleted THEN NoStatus ELSE statuses[r]]
  /\ last' = IF last # NoStatus /\ last.row \in deleted THEN NoStatus ELSE last
  /\ run' = IF run.batch # {} THEN [run EXCEPT !.gone = @ \cup deleted] ELSE run
  /\ UNCHANGED tx

(* reprocess_addresses, from a command or the admin site.                  *)
Reprocess ==
  /\ upsets < MaxUpsets
  /\ Overlap \/ run.pc = "idle"
  /\ tx.last = NoStatus \/ last = NoStatus
  /\ Processed # {}
  /\ upsets' = upsets + 1
  /\ decoded' = [r \in Row |-> IF r \in Present THEN "pending" ELSE "absent"]
  /\ statuses' = [r \in Row |-> NoStatus]
  /\ last' = NoStatus
  /\ UNCHANGED <<run, tx>>

-----------------------------------------------------------------------------
(* process_decoded_internal_txs_task sends a task for a Safe with pending  *)
(* rows.                                                                   *)
StartRun ==
  /\ run.pc = "idle"
  /\ Pending # {}
  /\ run' = [IdleRun EXCEPT !.pc = IF Together THEN "fetch" ELSE "check"]
  /\ UNCHANGED <<decoded, statuses, last, tx, upsets>>

(* Mutation of OutOfOrder: against the oldest processed row, not the       *)
(* latest (an order_by the other way round).                               *)
OutOfOrderByOldest ==
  \E r \in Pending : /\ Processed # {}
                     /\ \A q \in Processed : Timestamp[r] < Timestamp[q]

(* out_of_order_for_safe: a pending row older than a processed one.        *)
OutOfOrder ==
  \E r \in Pending, q \in Processed : Timestamp[r] < Timestamp[q]

FirstPending == CHOOSE r \in Pending : \A q \in Pending : r <= q

AfterCheck == IF Together THEN "process" ELSE "fetch"

(* The check, once in a run, before the first batch is fetched, or, with   *)
(* all the Safes together, after.                                          *)
CheckOutOfOrder ==
  /\ run.pc = "check"
  /\ run' = IF OutOfOrder
            THEN [run EXCEPT !.pc = "fix", !.fixFrom = FirstPending]
            ELSE [run EXCEPT !.pc = AfterCheck, !.checked = TRUE]
  /\ UNCHANGED <<decoded, statuses, last, tx, upsets>>

(* Mutation of FixOutOfOrder: the statuses are kept.                       *)
FixKeepingStatuses ==
  LET t == Timestamp[run.fixFrom] IN
  /\ run.pc = "fix"
  /\ decoded' = [r \in Row |-> IF r \in Present /\ Timestamp[r] >= t
                              THEN "pending" ELSE decoded[r]]
  /\ last' = NoStatus
  /\ run' = [run EXCEPT !.pc = AfterCheck, !.checked = TRUE, !.fixFrom = NoRow]
  /\ UNCHANGED <<statuses, tx, upsets>>

(* fix_out_of_order: from the first pending row on, all is pending again.  *)
FixOutOfOrder ==
  LET t == Timestamp[run.fixFrom] IN
  /\ run.pc = "fix"
  /\ decoded' = [r \in Row |-> IF r \in Present /\ Timestamp[r] >= t
                              THEN "pending" ELSE decoded[r]]
  /\ statuses' = [r \in Row |-> IF Timestamp[r] >= t THEN NoStatus
                                                    ELSE statuses[r]]
  /\ last' = NoStatus
  /\ run' = [run EXCEPT !.pc = AfterCheck, !.checked = TRUE, !.fixFrom = NoRow]
  /\ UNCHANGED <<tx, upsets>>

(* pending_for_safe, a batch of it.                                        *)
FetchBatch ==
  LET batch == {r \in Pending :
                  Cardinality({q \in Pending : q < r}) < BatchSize} IN
  /\ run.pc = "fetch"
  /\ run' = IF batch = {} THEN IdleRun
            ELSE [run EXCEPT !.batch = batch, !.todo = batch, !.gone = {},
                    !.pc = IF Together /\ ~run.checked THEN "check" ELSE "process"]
  /\ UNCHANGED <<decoded, statuses, last, tx, upsets>>

-----------------------------------------------------------------------------
(* What the transaction reads: its own writes, else what is committed.     *)
SeenStatus(r) == IF tx.new[r] # NoStatus THEN tx.new[r] ELSE statuses[r]
SeenLast == IF tx.last # NoStatus THEN tx.last ELSE last

(* sorted_by_mined: the nonce counts before the place on the chain.        *)
Latest(seen) ==
  LET rows == {r \in Row : seen[r] # NoStatus} IN
  IF rows = {} THEN NoStatus
  ELSE seen[CHOOSE r \in rows : \A q \in rows :
              \/ seen[q].nonce < seen[r].nonce
              \/ seen[q].nonce = seen[r].nonce /\ q <= r]

(* get_or_generate: a SafeLastStatus that is missing is made again from    *)
(* the latest SafeStatus.                                                  *)
GetOrGenerate ==
  IF SeenLast # NoStatus THEN SeenLast
  ELSE Latest([r \in Row |-> SeenStatus(r)])

(* The SafeLastStatus the transaction has written once it has looked.      *)
LastOnceRead == IF SeenLast # NoStatus THEN tx.last ELSE GetOrGenerate

(* get_last_safe_status_for_address: the object stored before in the same  *)
(* batch, the database otherwise.                                          *)
LastSafeStatus == IF tx.cache # NoStatus THEN tx.cache ELSE GetOrGenerate

FieldsOf == [setup |-> {"owners", "threshold", "nonce", "row"},
             addOwner |-> {"owners", "threshold", "row"},
             removeOwner |-> {"owners", "threshold", "row"},
             swapOwner |-> {"owners", "row"},
             changeThreshold |-> {"threshold", "row"},
             execTransaction |-> {"nonce", "row"}]

At(r, s) == [owners |-> s.owners, threshold |-> s.threshold, nonce |-> s.nonce,
             row |-> r]

(* store_new_safe_status: the modified fields go to SafeLastStatus, the    *)
(* whole object to SafeStatus (add_to_historical_table).                   *)
StoreNewSafeStatus(r, s) ==
  LET fields == FieldsOf[Call[r].fn]
      db == IF Call[r].fn = "setup" THEN s ELSE GetOrGenerate IN
  tx' = [cache |-> s, new |-> [tx.new EXCEPT ![r] = s],
         last |-> [f \in {"owners", "threshold", "nonce", "row"} |->
                     IF f \in fields THEN s[f] ELSE db[f]]]

(* A removal that fails has set the threshold of the object, which stays   *)
(* when the object is the one of the cache.                                *)
LeaveHalfModified(r, s) ==
  tx' = [tx EXCEPT !.last = LastOnceRead,
           !.cache = IF @ = NoStatus \/ Call[r].fn = "swapOwner" THEN @
                     ELSE [@ EXCEPT !.threshold = ThresholdOr(Call[r], s)]]

(* The next row of the batch.  Without a status only setup does anything.  *)
ProcessRow ==
  /\ run.pc = "process"
  /\ run.todo # {}
  /\ LET r == CHOOSE q \in run.todo : \A p \in run.todo : q <= p
         c == Call[r]
         s == LastSafeStatus IN
     /\ run' = [run EXCEPT !.todo = @ \ {r}]
     /\ \/ /\ \/ c.fn = "setup"
              \/ s # NoStatus /\ c.fn # "approveHash" /\ ~OwnerCannotBeRemoved(c, s)
           /\ StoreNewSafeStatus(r, At(r, Modified(c, s)))
        \/ /\ c.fn # "setup" /\ s = NoStatus
           /\ UNCHANGED tx
        \/ /\ c.fn = "approveHash" /\ s # NoStatus \* no status either
           /\ tx' = [tx EXCEPT !.last = LastOnceRead]
        \/ /\ s # NoStatus /\ OwnerCannotBeRemoved(c, s)
           /\ LeaveHalfModified(r, s)
  /\ UNCHANGED <<decoded, statuses, last, upsets>>

StoredRows == {r \in Row : tx.new[r] # NoStatus}
Referenced == StoredRows \cup (IF tx.last = NoStatus THEN {} ELSE {tx.last.row})

(* Mutation of CommitBatch: the batch is processed though it is undone.    *)
CommitMarkingOnly ==
  /\ run.pc = "process" /\ run.todo = {}
  /\ decoded' = [r \in Row |-> IF r \in run.batch \ run.gone /\ r \in Present
                              THEN "processed" ELSE decoded[r]]
  /\ IF Referenced \cap run.gone = {}
     THEN /\ statuses' = [r \in Row |-> SeenStatus(r)]
          /\ last' = SeenLast
          /\ run' = [run EXCEPT !.pc = "fetch", !.batch = {}, !.gone = {}]
     ELSE run' = IdleRun /\ UNCHANGED <<statuses, last>>
  /\ tx' = NoTx
  /\ UNCHANGED upsets

(* Mutation of CommitBatch: the rows are not marked.                       *)
CommitUnmarked ==
  /\ run.pc = "process" /\ run.todo = {}
  /\ IF Referenced \cap run.gone = {}
     THEN /\ statuses' = [r \in Row |-> SeenStatus(r)]
          /\ last' = SeenLast
          /\ run' = [run EXCEPT !.pc = "fetch", !.batch = {}, !.gone = {}]
     ELSE run' = IdleRun /\ UNCHANGED <<statuses, last>>
  /\ tx' = NoTx
  /\ UNCHANGED <<decoded, upsets>>

(* The whole batch is marked as processed, and the transaction commits; a  *)
(* reference to a row deleted meanwhile is an IntegrityError.              *)
CommitBatch ==
  /\ run.pc = "process" /\ run.todo = {}
  /\ IF Referenced \cap run.gone = {}
     THEN /\ decoded' = [r \in Row |->
                           IF r \in run.batch \ run.gone THEN "processed"
                                                         ELSE decoded[r]]
          /\ statuses' = [r \in Row |-> SeenStatus(r)]
          /\ last' = SeenLast
          /\ run' = [run EXCEPT !.pc = "fetch", !.batch = {}, !.gone = {}]
     ELSE run' = IdleRun /\ UNCHANGED <<decoded, statuses, last>>
  /\ tx' = NoTx
  /\ UNCHANGED upsets

(* Mutation of RunFails: the cached objects outlive the transaction.       *)
RunFailsKeepingCache ==
  /\ run.pc # "idle"
  /\ upsets < MaxUpsets
  /\ upsets' = upsets + 1
  /\ run' = IdleRun
  /\ tx' = [NoTx EXCEPT !.cache = tx.cache]
  /\ UNCHANGED <<decoded, statuses, last>>

(* CannotFindPreviousTrace, an error of the node or of the database, the   *)
(* timer of the task, the end of the process: the transaction is rolled    *)
(* back, clear_cache drops the objects.                                    *)
RunFails ==
  /\ run.pc # "idle"
  /\ upsets < MaxUpsets
  /\ upsets' = upsets + 1
  /\ run' = IdleRun
  /\ tx' = NoTx
  /\ UNCHANGED <<decoded, statuses, last>>

ProcessingStep ==
  \/ StartRun \/ CheckOutOfOrder \/ FixOutOfOrder \/ FetchBatch
  \/ ProcessRow \/ CommitBatch

Next ==
  \/ \E rows \in SUBSET Row : StoreRows(rows)
  \/ \E r \in Row : DeleteRows(Timestamp[r])
  \/ Reprocess
  \/ ProcessingStep
  \/ RunFails

Spec == Init /\ [][Next]_vars

(* The beat starts the task again and again, and database and node answer. *)
FairSpec == Spec /\ WF_vars(ProcessingStep)

-----------------------------------------------------------------------------
TypeOK ==
  LET Status == StatusRows \cup {NoStatus} IN
  /\ decoded \in [Row -> {"absent", "pending", "processed"}]
  /\ statuses \in [Row -> Status]
  /\ last \in Status
  /\ run \in [pc : {"idle", "check", "fix", "fetch", "process"},
              batch : SUBSET Row, todo : SUBSET Row, checked : BOOLEAN,
              fixFrom : Row \cup {NoRow}, gone : SUBSET Row]
  /\ run.todo \subseteq run.batch
  /\ tx \in [cache : Status, last : Status, new : [Row -> Status]]
  /\ StoredRows \subseteq run.batch \ run.todo
  /\ run.pc # "process" => tx = NoTx
  /\ upsets \in 0 .. MaxUpsets

(* The setting the run checks: the order is checked before the batches,    *)
(* rows of a block are stored together, and late ones between the runs.    *)
InOrder == ~Together /\ ~Overlap /\ ~SplitBlocks

(* A Safe is set up once, before anything else, and its contract counts    *)
(* the transactions it executes.                                           *)
NoncesGrow ==
  /\ \A r \in Row : Call[r].fn = "setup" => r = 1
  /\ \A r, q \in Row :
       r < q /\ Call[r].fn = "execTransaction" /\ Call[q].fn = "execTransaction"
         => Call[r].nonce <= Call[q].nonce

(* The calls of a Safe that is indexed by its events: that of a removal    *)
(* has no threshold, a change of it is a call of its own.                  *)
EventsOnly == \A r \in Row : Call[r].fn = "removeOwner" => Call[r].threshold = 0

Setting == InOrder /\ NoncesGrow /\ EventsOnly

(* A status without its row.                                               *)
Config(s) == IF s = NoStatus THEN NoStatus
             ELSE [owners |-> s.owners, threshold |-> s.threshold,
                   nonce |-> s.nonce]

(* The status the API shows: SafeLastStatus, made again when missing.      *)
Current == IF last # NoStatus THEN last ELSE Latest(statuses)

(* store_new_safe_status, "Updates SafeLastStatus. An entry to SafeStatus  *)
(* is added too": the two tables agree on the row they share.              *)
LastIsItsStatus == last # NoStatus => last = statuses[last.row]

(* The history of a Safe is that of the calls: each SafeStatus is what the *)
(* processed calls up to its own make, and SafeLastStatus is one of them.  *)
HistoryIsReplay ==
  /\ \A r \in Row : statuses[r] # NoStatus =>
       /\ r \in Processed
       /\ Config(statuses[r]) = Replay({q \in Processed : q <= r})
  /\ LastIsItsStatus

(* fix_out_of_order, "Fix a Safe that has transactions out of order": when *)
(* nothing is left to process the Safe is what its calls make of it.       *)
SettledIsReplay ==
  run.pc = "idle" /\ Pending = {} => Config(Current) = Replay(Present)

(* The processing implements the ledger: rows are processed in order, or   *)
(* taken back first.                                                       *)
Ledger == INSTANCE SafeLedger WITH applied <- Processed,
                                   status <- Config(Current)
ImplementsLedger == Ledger!Spec

(* All the rows are processed in the end, and the Safe is what they make.  *)
EventuallySettled ==
  <>[](Pending = {} /\ Config(Current) = Replay(Present))
=============================================================================
