---------------------------- MODULE Erc20Indexer ----------------------------
(***************************************************************************)
(* The indexer of token transfers (history/indexers/                       *)
(* erc20_events_indexer.py).  One number, its IndexingStatus, says how far *)
(* it got for every Safe, and Safes come while it runs: from the other     *)
(* indexers, blocks after they were created.  The periodic task has a      *)
(* lock; the command index_erc20 (history/tasks.py) runs beside it without *)
(* one, on the same singleton if it is in the same process.  What both     *)
(* leave out, the task that repeats the last hours may still find.         *)
(*                                                                         *)
(* The chain grows; BlockIndexer is about reorganisations.  Without them   *)
(* the cache of processed events holds only events that are stored, and is *)
(* left out here.                                                          *)
(***************************************************************************)
EXTENDS Integers, FiniteSetsExt

CONSTANTS
  Procs,               \* worker processes; each has its own singleton
  Safes,
  Transfers,           \* records [block, safe]
  CreatedIn,           \* block of the creation of a Safe
  KnownSafes,          \* have their rows from the beginning
  Regular, Command,    \* index_erc20_events_task, ..._out_of_sync_task
  Limits,              \* what block_process_limit may be set to
  BlockProcessLimitMax,
  BlocksToReindexAgain,
  LoadChunk,           \* ETH_ERC20_LOAD_ADDRESSES_CHUNK_SIZE
  NumberOfAddresses,   \* of the command, 100 by default
  EthReorgBlocks,      \* distance to the head that counts as synced
  Hours,               \* the last hours, in blocks
  ReindexLimit,        \* blocks per request of the repetition
  LateCommits,         \* rows may be committed after rows created later
  MaxHead,             \* bound on the chain
  MaxBusy,             \* bound on the tasks that run at the same time
  MaxTroubles          \* bound on the commands, failures and crashes

Tasks == {Regular, Command}

ASSUME Erc20Type ==
  /\ Transfers \subseteq [block : 1 .. MaxHead, safe : Safes]
  /\ CreatedIn \in [Safes -> 0 .. MaxHead]
  /\ KnownSafes \subseteq {s \in Safes : CreatedIn[s] = 0}
  /\ Limits \subseteq 1 .. BlockProcessLimitMax /\ Limits # {}
  /\ BlockProcessLimitMax \in Nat /\ BlocksToReindexAgain \in Nat
  /\ LoadChunk \in Nat \ {0} /\ NumberOfAddresses \in Nat \ {0}
  /\ EthReorgBlocks \in Nat /\ Hours \in Nat /\ ReindexLimit \in Nat \ {0}
  /\ LateCommits \in BOOLEAN /\ Regular # Command
  /\ MaxHead \in Nat /\ MaxBusy \in Nat /\ MaxTroubles \in Nat

VARIABLES
  head,     \* the node's latest block
  rows,     \* EthereumBlock rows of the Safes and of their transfers
  created,  \* SafeContract.created, in blocks, once the row is inserted
  since,    \* the head when that was committed
  stored,   \* ERC20Transfer and ERC721Transfer
  status,   \* IndexingStatus: the next block to scan
  cache,    \* addresses_cache of the singleton of a process
  watch,    \* the set objects that a task has made in a process
  limit,    \* block_process_limit of the singleton
  task,
  reindex,  \* reindex_erc20_events_task
  troubles  \* counted for the bound

safeVars == <<created, since>>
vars == <<head, rows, safeVars, stored, status, cache, watch, limit, task,
          reindex, troubles>>

NotYet == -1
Idle == [at |-> "idle"]
NoCache == [last |-> NotYet]
Committed == {s \in Safes : since[s] # NotYet}

(* A task goes on with the set object it has, which others may add to; the *)
(* command has a copy.                                                     *)
Addresses(t) ==
  IF t = Command THEN task[t].addresses ELSE watch[task[t].known]

Between(from, to, safes) ==
  {x \in Transfers : x.block \in from .. to /\ x.safe \in safes}

TypeOK ==
  /\ status \in 0 .. head + 1 /\ head \in 0 .. MaxHead
  /\ rows \subseteq 0 .. head /\ \A x \in stored : x.block \in rows
  /\ \A s \in Committed : created[s] \in CreatedIn[s] .. since[s]
  /\ \A p \in Procs :
       /\ limit[p] \in 1 .. BlockProcessLimitMax
       /\ cache[p] # NoCache =>
            watch[cache[p].known] \subseteq Committed /\ cache[p].last \in 0 .. head
  /\ \A t \in Tasks : task[t] # Idle =>
       /\ task[t].at \in {"select", "load", "window", "query", "update"}
       /\ task[t].current <= head /\ task[t].to <= task[t].current
       /\ task[t].todo \cup Addresses(t) \subseteq Committed
  /\ reindex.at \in {"idle", "sent", "run"}

Init ==
  /\ head = 0 /\ rows = {0} /\ stored = {} /\ status = 0
  /\ created = [s \in Safes |-> IF s \in KnownSafes THEN 0 ELSE NotYet]
  /\ since = created
  /\ cache = [p \in Procs |-> NoCache]
  /\ watch = [o \in Tasks \X Procs |-> {}]
  /\ limit \in [Procs -> Limits]
  /\ task = [t \in Tasks |-> Idle] /\ reindex = Idle
  /\ troubles = 0

-----------------------------------------------------------------------------
(***************************************************************************)
(* The node, and what the other indexers store.                            *)
(***************************************************************************)
Mine ==
  /\ head < MaxHead /\ head' = head + 1
  /\ UNCHANGED <<rows, safeVars, stored, status, cache, watch, limit, task,
                 reindex, troubles>>

(* The transaction of the creation is stored first.  created is the time   *)
(* of the INSERT, which may be in a long transaction.                      *)
InsertSafe(s) ==
  /\ created[s] = NotYet /\ CreatedIn[s] <= head
  /\ created' = [created EXCEPT ![s] = head]
  /\ rows' = rows \cup {CreatedIn[s]}
  /\ UNCHANGED <<head, since, stored, status, cache, watch, limit, task,
                 reindex, troubles>>

CommitSafe(s) ==
  /\ created[s] # NotYet /\ since[s] = NotYet
  /\ LateCommits \/ \A r \in Committed : created[r] <= created[s]
  /\ since' = [since EXCEPT ![s] = head]
  /\ UNCHANGED <<head, rows, created, stored, status, cache, watch, limit, task,
                 reindex, troubles>>

-----------------------------------------------------------------------------
(***************************************************************************)
(* start and index_erc20_events_out_of_sync_task up to the first window.   *)
(***************************************************************************)
Trouble == troubles < MaxTroubles /\ troubles' = troubles + 1

Busy == Cardinality({t \in Tasks : task[t] # Idle})
        + (IF reindex = Idle THEN 0 ELSE 1)

(* Both ask for the latest block before they look at the addresses.        *)
Start(t, p) ==
  /\ task[t] = Idle /\ Busy < MaxBusy
  /\ IF t = Command THEN Trouble ELSE UNCHANGED troubles
  /\ \E l \in Limits \cup {limit[p]} :
       /\ t = Regular => l = limit[p]
       /\ limit' = [limit EXCEPT ![p] = l]
  /\ task' = [task EXCEPT ![t] =
       [at |-> "select", proc |-> p, current |-> head, known |-> <<t, p>>,
        todo |-> {}, addresses |-> {},
        from |-> 0, to |-> 0]]
  /\ UNCHANGED <<head, rows, safeVars, stored, status, cache, watch, reindex>>

(* Mutation of NewRows: rows of the same time are not looked at again.     *)
LaterRows(last) == {s \in Committed : created[s] > last}

(* get_almost_updated_addresses: only the rows since the last check.       *)
NewRows(last) == {s \in Committed : created[s] >= last}

(* What a task has once it has its addresses: the command, some of them.   *)
Loaded(t, r, found) ==
  {[r EXCEPT !.at = "window", !.todo = {},
             !.known = IF t = Command THEN <<t, r.proc>> ELSE @,
             !.addresses = some] :
     some \in IF t = Command
              THEN kSubset(Min({NumberOfAddresses, Cardinality(found)}), found)
              ELSE {{}}}

Select(t) ==
  /\ task[t] # Idle /\ task[t].at = "select"
  /\ LET r == task[t]  c == cache[r.proc] IN
       IF c = NoCache
         THEN /\ watch' = [watch EXCEPT ![r.known] = {}]
              /\ task' = [task EXCEPT ![t] =
                   IF Committed = {} THEN Idle
                   ELSE [@ EXCEPT !.at = "load", !.todo = Committed]]
         ELSE /\ task' = [task EXCEPT ![t].at = "load", ![t].known = c.known,
                            ![t].todo = NewRows(c.last)]
              /\ UNCHANGED watch
  /\ UNCHANGED <<head, rows, safeVars, stored, status, cache, limit, reindex,
                 troubles>>

(* The rows come in chunks, by created; the first of a chunk is where the  *)
(* next load starts if this one is interrupted, the last of all where it   *)
(* starts otherwise.                                                       *)
LoadRows(t) ==
  /\ task[t] # Idle /\ task[t].at = "load"
  /\ LET r == task[t] IN
     \E chunk \in kSubset(Min({LoadChunk, Cardinality(r.todo)}), r.todo) :
       LET times == {created[s] : s \in chunk}  found == watch[r.known] \cup chunk IN
       /\ \A s \in r.todo \ chunk : created[s] >= Max(times)
       /\ watch' = [watch EXCEPT ![r.known] = found]
       /\ cache' = IF chunk = {} THEN cache ELSE [cache EXCEPT ![r.proc] =
            [known |-> r.known,
             last |-> IF chunk = r.todo THEN Max(times) ELSE Min(times)]]
       /\ \E next \in IF chunk = r.todo THEN Loaded(t, r, found)
                      ELSE {[r EXCEPT !.todo = @ \ chunk]} :
            task' = [task EXCEPT ![t] = next]
  /\ UNCHANGED <<head, rows, safeVars, stored, status, limit, reindex,
                 troubles>>

-----------------------------------------------------------------------------
(***************************************************************************)
(* process_addresses, again and again up to the block read at the start.   *)
(* confirmations is 0 for this indexer.                                    *)
(***************************************************************************)
(* Mutation of NothingNew: the latest block is left for later.             *)
NothingNewYet(current, from) == current - from < 1

NothingNew(current, from) == current - from < 0

(* Mutation of ToBlock: not beyond the limit, but beyond the chain.        *)
ToLimit(current, from, size) == from + size - 1

ToBlock(current, from, size) == Min({from + size - 1, current})

GetBlockNumbersForSearch(t) ==
  /\ task[t] # Idle /\ task[t].at = "window"
  /\ LET r == task[t]  size == limit[r.proc]
         to == ToBlock(r.current, status, size)
         again == IF status + size > r.current
                  THEN Min({size - (to - status + 1), BlocksToReindexAgain})
                  ELSE 0
     IN IF NothingNew(r.current, status)
          THEN task' = [task EXCEPT ![t] = Idle]
          ELSE task' = [task EXCEPT ![t].at = "query",
                          ![t].from = Max({status - again, 0}), ![t].to = to]
  /\ UNCHANGED <<head, rows, safeVars, stored, status, cache, watch, limit,
                 reindex, troubles>>

(* auto_adjust_block_limit, by how long the request took.                  *)
Adjusted(size) ==
  {Max({size \div 2, 1}), Max({size - 20, 1}), size} \cup
  {Min({n, BlockProcessLimitMax}) : n \in {size * 2, size + 20}}

Store(logs) ==
  stored' = stored \cup logs /\ rows' = rows \cup {x.block : x \in logs}

(* find_relevant_elements and process_elements: between the answer and its *)
(* rows nothing is read that others change.                                *)
ProcessElements(t) ==
  /\ task[t] # Idle /\ task[t].at = "query"
  /\ LET r == task[t]  size == limit[r.proc] IN
       /\ \E n \in IF 1 + r.to - r.from = size THEN Adjusted(size) ELSE {size} :
            limit' = [limit EXCEPT ![r.proc] = n]
       /\ Store(Between(r.from, r.to, Addresses(t)))
       /\ task' = [task EXCEPT ![t].at = "update"]
  /\ UNCHANGED <<head, safeVars, status, cache, watch, reindex, troubles>>

(* set_erc20_721_indexing_status moves it back too; when it is behind the  *)
(* window the task fails.                                                  *)
UpdateMonitoredAddresses(t) ==
  /\ task[t] # Idle /\ task[t].at = "update"
  /\ LET r == task[t] IN
       IF status >= r.from
         THEN /\ status' = r.to + 1
              /\ task' = [task EXCEPT ![t] =
                   IF r.to = r.current THEN Idle
                   ELSE [r EXCEPT !.at = "window", !.from = 0, !.to = 0]]
         ELSE task' = [task EXCEPT ![t] = Idle] /\ UNCHANGED status
  /\ UNCHANGED <<head, rows, safeVars, stored, cache, watch, limit, reindex,
                 troubles>>

(* FindRelevantElementsException: the command tries again.                 *)
NodeFails(t) ==
  /\ task[t] # Idle /\ task[t].at = "query"
  /\ Trouble
  /\ limit' = [limit EXCEPT ![task[t].proc] = 1]
  /\ task' = [task EXCEPT ![t] =
       IF t = Command THEN [@ EXCEPT !.at = "window", !.from = 0, !.to = 0]
       ELSE Idle]
  /\ UNCHANGED <<head, rows, safeVars, stored, status, cache, watch, reindex>>

(* Any other exception, or the timeout; of several rows some are stored.   *)
TaskFails(t) ==
  /\ task[t] # Idle
  /\ Trouble
  /\ LET r == task[t]  asked == r.at = "query" IN
       /\ \E some \in SUBSET (IF asked THEN Between(r.from, r.to, Addresses(t)) ELSE {}) :
            Store(some)
       /\ \E n \in {limit[r.proc]} \cup IF asked THEN {1} ELSE {} :
            limit' = [limit EXCEPT ![r.proc] = n]
  /\ task' = [task EXCEPT ![t] = Idle]
  /\ UNCHANGED <<head, safeVars, status, cache, watch, reindex>>

(* A worker dies, and with it its singleton and its tasks.                 *)
Crash(p) ==
  /\ Trouble
  /\ cache' = [cache EXCEPT ![p] = NoCache]
  /\ \E n \in Limits : limit' = [limit EXCEPT ![p] = n]
  /\ task' = [t \in Tasks |->
       IF task[t] # Idle /\ task[t].proc = p THEN Idle ELSE task[t]]
  /\ UNCHANGED <<head, rows, safeVars, stored, status, watch, reindex>>

-----------------------------------------------------------------------------
(***************************************************************************)
(* reindex_erc20_erc721_last_hours_task sends reindex_erc20_events_task,   *)
(* one at a time.  Its bounds are blocks that have a row.                  *)
(***************************************************************************)
Synced == head - Min({Max({status - 1, 0}), head}) <= EthReorgBlocks
OldRows == {b \in rows : b <= head - Hours}

ReindexLastHours ==
  /\ reindex = Idle /\ Busy < MaxBusy /\ Synced
  /\ OldRows # {} /\ Max(OldRows) # Max(rows)
  /\ reindex' = [at |-> "sent", from |-> Max(OldRows), to |-> Max(rows)]
  /\ UNCHANGED <<head, rows, safeVars, stored, status, cache, watch, limit,
                 task, troubles>>

(* _reindex: all the addresses there are, and a new indexer.               *)
StartReindex ==
  /\ reindex.at = "sent"
  /\ reindex' = IF Committed = {} THEN Idle ELSE
                [at |-> "run", addresses |-> Committed, next |-> reindex.from,
                 stop |-> Min({head, reindex.to})]
  /\ UNCHANGED <<head, rows, safeVars, stored, status, cache, watch, limit,
                 task, troubles>>

ReindexWindow ==
  /\ reindex.at = "run"
  /\ LET to == Min({reindex.next + ReindexLimit - 1, reindex.stop}) IN
       /\ Store(Between(reindex.next, to, reindex.addresses))
       /\ reindex' = IF to = reindex.stop THEN Idle
                     ELSE [reindex EXCEPT !.next = to + 1]
  /\ UNCHANGED <<head, safeVars, status, cache, watch, limit, task, troubles>>

ReindexFails ==
  /\ reindex # Idle /\ reindex' = Idle
  /\ Trouble
  /\ UNCHANGED <<head, rows, safeVars, stored, status, cache, watch, limit,
                 task>>

-----------------------------------------------------------------------------
Step(t) ==
  \/ Select(t) \/ LoadRows(t)
  \/ GetBlockNumbersForSearch(t) \/ ProcessElements(t) \/ UpdateMonitoredAddresses(t)

Next ==
  \/ Mine
  \/ \E s \in Safes : InsertSafe(s) \/ CommitSafe(s)
  \/ \E t \in Tasks : \/ \E p \in Procs : Start(t, p)
                      \/ Step(t) \/ NodeFails(t) \/ TaskFails(t)
  \/ \E p \in Procs : Crash(p)
  \/ ReindexLastHours \/ StartReindex \/ ReindexWindow \/ ReindexFails

(* The beat sends the two periodic tasks, and requests return.             *)
Fairness ==
  /\ WF_vars(\E p \in Procs : Start(Regular, p))
  /\ \A t \in Tasks : WF_vars(Step(t))
  /\ WF_vars(ReindexLastHours) /\ WF_vars(StartReindex \/ ReindexWindow)

Spec == Init /\ [][Next]_vars /\ Fairness

-----------------------------------------------------------------------------
(* The setting the run checks: rows of Safes are committed in the order of *)
(* their creation, and the command has room for all the addresses.         *)
Setting ==
  ~LateCommits /\ IsFiniteSet(Safes) /\ Cardinality(Safes) <= NumberOfAddresses

InTime(x) == x.safe \in Committed /\ since[x.safe] < x.block

(* No block is passed with a transfer of a Safe missing that was in the    *)
(* database before the block was mined: whichever process scans it, with a *)
(* cache of addresses of whatever age, and whatever the command does       *)
(* beside it.                                                              *)
PassedIsStored ==
  \A x \in Transfers : InTime(x) /\ x.block < status => x \in stored

(* What the repetition of the last hours would find from now on.           *)
Repeated(x) ==
  /\ x.safe \in Committed /\ x.block <= head
  /\ OldRows # {} /\ x.block \in Max(OldRows) .. Max(rows)

(* A transfer of a Safe that was known in time is stored in the end, and   *)
(* one of a Safe that came late too if it stays within the rows of the     *)
(* last hours.                                                             *)
EventuallyStored ==
  \A x \in Transfers :
    /\ (InTime(x) /\ x.block <= head) ~> (x \in stored)
    /\ <>[]Repeated(x) => <>(x \in stored)

(* The command "forces indexing of ERC20/721 if transfers are not updated  *)
(* for a Safe" (index_erc20.py): once it has ended without an exception,   *)
(* the transfers of its addresses are there.                               *)
CommandUpdates ==
  [][task[Command] # Idle /\ task'[Command] = Idle
       /\ (task[Command].at = "update" => status' = task[Command].current + 1)
       /\ task[Command].at \in {"window", "update"} /\ troubles' = troubles
     => Between(0, task[Command].current, task[Command].addresses) \subseteq stored']_vars
=============================================================================
