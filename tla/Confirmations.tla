---------------------------- MODULE Confirmations ----------------------------
(***************************************************************************)
(* Multisig transactions and their confirmations (history/models.py,       *)
(* signals.py, serializers.py), for one Safe.  Both tables have two        *)
(* writers: requests of the API, each statement of which commits by        *)
(* itself, and the processing of the calls that were mined                 *)
(* (tx_processor.py), a batch of which is one READ COMMITTED transaction.  *)
(* Neither sees what the other has not committed, and a row that a batch   *)
(* has written is locked until its end.  A reorg takes calls back.         *)
(***************************************************************************)
EXTENDS Integers, Sequences, FiniteSetsExt

CONSTANTS
  Owners,      \* the owners of the Safe at first
  NonceOf,     \* the nonce of each transaction hash
  Threshold,   \* signers of an execution
  Clients,     \* requests the API serves at once
  BatchSize,   \* ETH_INTERNAL_TX_DECODED_PROCESS_BATCH
  MaxCalls,    \* bound on the length of the chain
  MaxReorgs,   \* bound on the reorgs
  MaxRequests  \* bound on the requests

Hashes == DOMAIN NonceOf

ASSUME ConfirmationsType ==
  /\ NonceOf \in [Hashes -> Nat]
  /\ Threshold \in 1 .. Cardinality(Owners) /\ BatchSize \in Nat \ {0}
  /\ MaxCalls \in Nat /\ MaxReorgs \in Nat /\ MaxRequests \in Nat

VARIABLES
  chain,    \* the calls of the Safe that the node has
  log,      \* the calls that are indexed (EthereumTx, InternalTxDecoded)
  done,     \* how many of them are processed
  tx,       \* MultisigTransaction; eth is the call it was executed by
  conf,     \* MultisigConfirmation; eth is the call it was approved by
  batch,    \* process_decoded_transactions, with the rows it has written
  request,  \* what each client of the API is doing
  reorgs, requests  \* counters for the bounds

vars == <<chain, log, done, tx, conf, batch, request, reorgs, requests>>

None == [row |-> FALSE]
Idle == [at |-> "idle"]
Keys == Owners \X Hashes

(* The state of the contract after the calls s.                            *)
OwnersAfter(s) ==
  {o \in Owners :
     \A i \in DOMAIN s : s[i] = [kind |-> "remove", owner |-> o] =>
       \E j \in i + 1 .. Len(s) : s[j] = [kind |-> "add", owner |-> o]}
NonceAfter(s) == Cardinality({i \in DOMAIN s : s[i].kind = "exec"})
Before(i) == SubSeq(log, 1, i - 1)

Executed(h) == tx[h] # None /\ tx[h].eth # 0
Approves(c, o, h) == c = [kind |-> "approve", owner |-> o, hash |-> h]
Executes(c, h) == c.kind = "exec" /\ c.hash = h

TypeOK ==
  /\ done \in 0 .. Len(log) /\ Len(log) <= MaxCalls
  /\ \A h \in Hashes : tx[h] # None =>
       tx[h].eth \in 0 .. done /\ {tx[h].trusted, tx[h].proposed} \subseteq BOOLEAN
  /\ \A k \in Keys : conf[k] # None =>
       conf[k].eth \in 0 .. done /\ conf[k].bound \in BOOLEAN
  /\ batch = Idle \/ batch.at \in done .. batch.upto
  /\ \A c \in Clients : request[c].at \in {"idle", "tx", "conf", "delete"}

Init ==
  /\ chain = <<>> /\ log = <<>> /\ done = 0
  /\ tx = [h \in Hashes |-> None] /\ conf = [k \in Keys |-> None]
  /\ batch = Idle /\ request = [c \in Clients |-> Idle]
  /\ reorgs = 0 /\ requests = 0

-----------------------------------------------------------------------------
(***************************************************************************)
(* The node and the indexer.                                               *)
(***************************************************************************)
NextCalls ==
  LET owners == OwnersAfter(chain) IN
  [kind : {"approve"}, owner : owners, hash : Hashes] \cup
  [kind : {"exec"}, hash : {h \in Hashes : NonceOf[h] = NonceAfter(chain)},
   signers : kSubset(Threshold, owners)] \cup
  [kind : {"remove"},
   owner : IF Cardinality(owners) > Threshold THEN owners ELSE {}] \cup
  [kind : {"add"}, owner : Owners \ owners]

(* After a reorg the new calls come once the old ones are taken back.      *)
Mine ==
  /\ Len(log) <= Len(chain) /\ Len(chain) < MaxCalls
  /\ \E c \in NextCalls : chain' = Append(chain, c)
  /\ UNCHANGED <<log, done, tx, conf, batch, request, reorgs, requests>>

Reorg ==
  /\ reorgs < MaxReorgs /\ reorgs' = reorgs + 1
  /\ \E k \in 0 .. Len(chain) - 1 : chain' = SubSeq(chain, 1, k)
  /\ UNCHANGED <<log, done, tx, conf, batch, request, requests>>

Index ==
  /\ Len(log) < Len(chain) /\ log' = chain
  /\ UNCHANGED <<chain, done, tx, conf, batch, request, reorgs, requests>>

(* Mutation of TakenBack: the transaction keeps the call that is gone.     *)
StillThere(row, k) == row

(* MultisigTransaction.ethereum_tx is SET NULL.                            *)
TakenBack(row, k) ==
  IF row # None /\ row.eth > k THEN [row EXCEPT !.eth = 0] ELSE row

(* recover_from_reorg: MultisigConfirmation.ethereum_tx CASCADEs.  The     *)
(* deletion waits for a batch that refers to the calls.                    *)
Recover ==
  /\ Len(chain) < Len(log) /\ batch = Idle
  /\ LET k == Len(chain) IN
       /\ log' = chain /\ done' = Min({done, k})
       /\ tx' = [h \in Hashes |-> TakenBack(tx[h], k)]
       /\ conf' = [c \in Keys |-> IF conf[c] # None /\ conf[c].eth > k
                                  THEN None ELSE conf[c]]
  /\ UNCHANGED <<chain, batch, request, reorgs, requests>>

-----------------------------------------------------------------------------
(***************************************************************************)
(* bind_confirmation, on the rows t and c that its transaction sees.       *)
(***************************************************************************)
Unbound(c, h) == {k \in Keys : k[2] = h /\ c[k] # None /\ ~c[k].bound}

(* A transaction has been created: its confirmations are bound to it.      *)
BindAll(c, h) ==
  [k \in Keys |-> IF k \in Unbound(c, h) THEN [c[k] EXCEPT !.bound = TRUE]
                  ELSE c[k]]

Trust(row) == IF row = None THEN None ELSE [row EXCEPT !.trusted = TRUE]

-----------------------------------------------------------------------------
(***************************************************************************)
(* __process_decoded_transaction, call by call.                            *)
(***************************************************************************)
TxRows ==
  [h \in Hashes |-> IF h \in DOMAIN batch.tx THEN batch.tx[h] ELSE tx[h]]
ConfRows ==
  [k \in Keys |-> IF k \in DOMAIN batch.conf THEN batch.conf[k] ELSE conf[k]]

(* The rows written so far, the ones that differ now and those in rows.    *)
Written(new, old, before, rows) ==
  [k \in {q \in DOMAIN new : new[q] # old[q]} \cup DOMAIN before \cup rows
   |-> new[k]]

StartBatch ==
  /\ batch = Idle /\ done < Len(log)
  /\ batch' = [at |-> done, upto |-> Min({done + BatchSize, Len(log)}),
               tx |-> <<>>, conf |-> <<>>]
  /\ UNCHANGED <<chain, log, done, tx, conf, request, reorgs, requests>>

(* The transactions in hs are updated, or a new confirmation refers to     *)
(* them: both keep their rows from being deleted.                          *)
Write(hs, t, c) ==
  batch' = [batch EXCEPT !.at = @ + 1,
                         !.tx = Written(t, tx, batch.tx, hs),
                         !.conf = Written(c, conf, batch.conf, {})]

Approve(o, h) ==
  LET i == batch.at + 1  k == <<o, h>>  row == ConfRows[k] IN
  IF row = None
    THEN LET bound == TxRows[h] # None IN
         Write(IF bound THEN {h} ELSE {}, [TxRows EXCEPT ![h] = Trust(@)],
               [ConfRows EXCEPT ![k] =
                  [row |-> TRUE, bound |-> bound, eth |-> i]])
    ELSE Write({}, TxRows,
               IF row.eth = 0 THEN [ConfRows EXCEPT ![k].eth = i]
               ELSE ConfRows)

(* Mutation of Signed: only rows that are new are looked at.               *)
SignedIfNew(c, h, signers) ==
  IF TxRows[h] # None THEN c ELSE
  [k \in Keys |-> IF k[2] = h /\ k[1] \in signers /\ c[k] = None
                  THEN [row |-> TRUE, bound |-> TRUE, eth |-> 0] ELSE c[k]]

(* The signatures of the call become confirmations.                        *)
Signed(c, h, signers) ==
  [k \in Keys |-> IF k[2] = h /\ k[1] \in signers /\ c[k] = None
                  THEN [row |-> TRUE, bound |-> TRUE, eth |-> 0] ELSE c[k]]

Execute(h, signers) ==
  LET i == batch.at + 1  row == TxRows[h] IN
  IF row = None
    THEN Write({h},
               [TxRows EXCEPT ![h] = [row |-> TRUE, eth |-> i,
                                      trusted |-> TRUE, proposed |-> FALSE]],
               Signed(BindAll(ConfRows, h), h, signers))
    ELSE Write({h}, [TxRows EXCEPT ![h] =
                  IF row.eth = 0 THEN [row EXCEPT !.eth = i, !.trusted = TRUE]
                  ELSE row],
               Signed(ConfRows, h, signers))

(* swap_owner: remove_unused_confirmations.                                *)
RemoveOwner(o) ==
  LET nonce == NonceAfter(Before(batch.at + 1))
      unused == {k \in Keys : /\ k[1] = o /\ ConfRows[k] # None
                              /\ ConfRows[k].bound /\ TxRows[k[2]].eth = 0
                              /\ NonceOf[k[2]] >= nonce}
  IN Write({}, TxRows, [k \in Keys |-> IF k \in unused THEN None ELSE ConfRows[k]])

Process ==
  /\ batch # Idle /\ batch.at < batch.upto
  /\ LET c == log[batch.at + 1] IN
       \/ c.kind = "approve" /\ Approve(c.owner, c.hash)
       \/ c.kind = "exec" /\ Execute(c.hash, c.signers)
       \/ c.kind = "remove" /\ RemoveOwner(c.owner)
       \/ c.kind = "add" /\ Write({}, TxRows, ConfRows)
  /\ UNCHANGED <<chain, log, done, tx, conf, request, reorgs, requests>>

Commit ==
  /\ batch # Idle /\ batch.at = batch.upto
  /\ tx' = TxRows /\ conf' = ConfRows /\ done' = batch.upto
  /\ batch' = Idle
  /\ UNCHANGED <<chain, log, request, reorgs, requests>>

Rollback ==
  /\ batch # Idle /\ batch' = Idle
  /\ UNCHANGED <<chain, log, done, tx, conf, request, reorgs, requests>>

-----------------------------------------------------------------------------
(***************************************************************************)
(* The API.                                                                *)
(***************************************************************************)
Accept(c, r) ==
  /\ request[c] = Idle
  /\ requests < MaxRequests /\ requests' = requests + 1
  /\ request' = [request EXCEPT ![c] = r]
  /\ UNCHANGED <<chain, log, done, tx, conf, batch, reorgs>>

(* SafeMultisigTransactionSerializer.validate, with or without a signature.*)
Propose(c) ==
  \E h \in Hashes, o \in OwnersAfter(chain), signed \in BOOLEAN :
    /\ \A g \in Hashes : NonceOf[g] = NonceOf[h] => ~Executed(g)
    /\ Accept(c, [at |-> "tx", hash |-> h, owner |-> o, signed |-> signed,
                 confirms |-> FALSE])

(* SafeMultisigConfirmationSerializer.validate_signature.                  *)
Confirm(c) ==
  \E h \in Hashes, o \in OwnersAfter(chain) :
    /\ tx[h] # None /\ ~Executed(h)
    /\ Accept(c, [at |-> "conf", hash |-> h, owner |-> o, signed |-> TRUE,
                 confirms |-> TRUE])

(* SafeMultisigTransactionDeleteSerializer.validate, and the rows that     *)
(* remove_not_trusted_multisig_txs_task selects.                           *)
Delete(c) ==
  \E h \in Hashes :
    /\ tx[h] # None
    /\ (tx[h].proposed /\ ~Executed(h)) \/ ~tx[h].trusted
    /\ Accept(c, [at |-> "delete", hash |-> h])

(* A statement waits for the rows that a batch has written.                *)
Unlocked(h, keys) ==
  batch # Idle =>
    h \notin DOMAIN batch.tx /\ keys \cap DOMAIN batch.conf = {}

(* get_or_create of the transaction and, if it is new, bind_confirmation.  *)
StoreTx(c) ==
  /\ request[c].at = "tx"
  /\ LET h == request[c].hash  signed == request[c].signed
         waiting == Unbound(conf, h) IN
       /\ Unlocked(h, waiting)
       /\ IF tx[h] = None
            THEN /\ tx' = [tx EXCEPT ![h] =
                      [row |-> TRUE, eth |-> 0, proposed |-> TRUE,
                       trusted |-> signed \/ waiting # {}]]
                 /\ conf' = BindAll(conf, h)
            ELSE /\ tx' = IF signed THEN [tx EXCEPT ![h] = Trust(@)] ELSE tx
                 /\ UNCHANGED conf
       /\ request' = [request EXCEPT ![c] =
                        IF signed THEN [@ EXCEPT !.at = "conf"] ELSE Idle]
  /\ UNCHANGED <<chain, log, done, batch, reorgs, requests>>

(* get_or_create of the confirmation; it refers to the transaction, so     *)
(* without one the insertion fails.  A request that only confirms sets     *)
(* trusted also when the confirmation was there.                           *)
StoreConf(c) ==
  /\ request[c].at = "conf"
  /\ LET h == request[c].hash  k == <<request[c].owner, h>>
         new == conf[k] = None /\ tx[h] # None IN
       /\ Unlocked(h, {k})
       /\ conf' = IF new THEN [conf EXCEPT ![k] =
                               [row |-> TRUE, bound |-> TRUE, eth |-> 0]]
                  ELSE conf
       /\ tx' = IF new \/ request[c].confirms THEN [tx EXCEPT ![h] = Trust(@)]
                ELSE tx
  /\ request' = [request EXCEPT ![c] = Idle]
  /\ UNCHANGED <<chain, log, done, batch, reorgs, requests>>

(* Mutation of Orphans: the confirmations stay.                            *)
NoOrphans(h) == {}

(* MultisigConfirmation.multisig_transaction CASCADEs.                     *)
Orphans(h) == {k \in Keys : k[2] = h /\ conf[k] # None /\ conf[k].bound}

Drop(c) ==
  /\ request[c].at = "delete"
  /\ LET h == request[c].hash IN
       /\ Unlocked(h, Orphans(h))
       /\ tx' = [tx EXCEPT ![h] = None]
       /\ conf' = [k \in Keys |-> IF k \in Orphans(h) THEN None ELSE conf[k]]
  /\ request' = [request EXCEPT ![c] = Idle]
  /\ UNCHANGED <<chain, log, done, batch, reorgs, requests>>

Next ==
  \/ Mine \/ Reorg \/ Index \/ Recover
  \/ StartBatch \/ Process \/ Commit \/ Rollback
  \/ \E c \in Clients : \/ Propose(c) \/ Confirm(c) \/ Delete(c)
                        \/ StoreTx(c) \/ StoreConf(c) \/ Drop(c)

Spec == Init /\ [][Next]_vars

-----------------------------------------------------------------------------
(* Whatever order the two writers come in, a transaction that a            *)
(* confirmation is bound to is there and is trusted, so that it is shown   *)
(* and never purged as spam.                                               *)
BoundIsTrusted ==
  \A k \in Keys : conf[k] # None /\ conf[k].bound =>
    tx[k[2]] # None /\ tx[k[2]].trusted

(* A transaction counts as executed, and a confirmation as approved, by a  *)
(* call that is processed and does just that: a reorg leaves nothing of    *)
(* the calls it takes back, and an execution comes in the order of nonces. *)
RowsAreOnChain ==
  /\ \A h \in Hashes : Executed(h) =>
       tx[h].eth <= done /\ Executes(log[tx[h].eth], h)
  /\ \A k \in Keys : conf[k] # None /\ conf[k].eth # 0 =>
       conf[k].eth <= done /\ Approves(log[conf[k].eth], k[1], k[2])

(* Every signer of an execution has a confirmation from then on, also one  *)
(* that was proposed or approved before and one whose owner is removed     *)
(* later; only an approval after the execution, which a reorg takes back,  *)
(* takes the confirmation it was written to along.                         *)
SignersConfirmed ==
  [][\A h \in Hashes : Executed(h)' =>
       \A o \in log'[tx'[h].eth].signers :
         LET k == <<o, h>> IN
         \/ conf'[k] # None
         \/ Executed(h) /\ (conf[k] = None \/ conf[k].eth > tx[h].eth)]_vars

(* The view says that it removes a transaction that is queued but not      *)
(* executed (views.py:604), the serializer that executed transactions      *)
(* cannot be deleted (serializers.py:589).                                 *)
ExecutedIsKept ==
  \A i \in 1 .. done : log[i].kind = "exec" => tx[log[i].hash] # None

(* remove_unused_confirmations (models.py:1848) removes what an owner has  *)
(* confirmed and is not executed when the owner is removed.                *)
RemovedOwnersHaveNone ==
  \A k \in Keys :
    /\ conf[k] # None /\ conf[k].bound /\ ~Executed(k[2])
    /\ NonceOf[k[2]] >= NonceAfter(Before(done + 1))
    /\ \A c \in Clients : request[c] = Idle
    => k[1] \in OwnersAfter(Before(done + 1)) \cup OwnersAfter(chain)
=============================================================================
