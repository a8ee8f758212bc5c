------------------------ MODULE Confirmations_proofs ------------------------
(***************************************************************************)
(* Proofs about Confirmations for any owners, transactions and nonces, any *)
(* number of concurrent requests and any size of the batches.              *)
(***************************************************************************)
EXTENDS Confirmations, SequenceTheorems, TLAPS

-----------------------------------------------------------------------------
(***************************************************************************)
(* The inductive invariant.                                                *)
(***************************************************************************)
Calls ==
  [kind : {"approve"}, owner : Owners, hash : Hashes] \cup
  [kind : {"exec"}, hash : Hashes, signers : SUBSET Owners] \cup
  [kind : {"remove", "add"}, owner : Owners]

TxRow ==
  {None} \cup [row : {TRUE}, eth : Nat, trusted : BOOLEAN, proposed : BOOLEAN]
ConfRow == {None} \cup [row : {TRUE}, bound : BOOLEAN, eth : Nat]

Requests ==
  {Idle} \cup
  [at : {"tx", "conf"}, hash : Hashes, owner : Owners, signed : BOOLEAN,
   confirms : BOOLEAN] \cup
  [at : {"delete"}, hash : Hashes]

(* A batch, and the rows it has written so far.                            *)
BatchTyped ==
  /\ batch = [at |-> batch.at, upto |-> batch.upto,
              tx |-> batch.tx, conf |-> batch.conf]
  /\ batch.upto \in 0 .. Len(log) /\ batch.at \in done .. batch.upto
  /\ DOMAIN batch.tx \subseteq Hashes /\ DOMAIN batch.conf \subseteq Keys
  /\ \A h \in DOMAIN batch.tx : batch.tx[h] \in TxRow
  /\ \A k \in DOMAIN batch.conf : batch.conf[k] \in ConfRow

Types ==
  /\ chain \in Seq(Calls) /\ Len(chain) <= MaxCalls
  /\ log \in Seq(Calls) /\ Len(log) <= MaxCalls
  /\ done \in 0 .. Len(log)
  /\ tx \in [Hashes -> TxRow] /\ conf \in [Keys -> ConfRow]
  /\ request \in [Clients -> Requests]
  /\ batch # Idle => BatchTyped

(* The node and the index agree as far as both go.                         *)
SameCalls ==
  \A i \in 1 .. Len(log) : i <= Len(chain) => log[i] = chain[i]

Trusts(t, c) ==
  \A k \in Keys : c[k] # None /\ c[k].bound => t[k[2]] # None /\ t[k[2]].trusted

(* What the batch will commit has the property, and a confirmation it      *)
(* binds keeps its transaction from being deleted: the batch has written   *)
(* the transaction, or the committed row is bound to it already.           *)
BatchTrusts ==
  batch # Idle =>
    /\ Trusts(TxRows, ConfRows)
    /\ \A k \in DOMAIN batch.conf :
         batch.conf[k] # None /\ batch.conf[k].bound =>
           \/ k[2] \in DOMAIN batch.tx
           \/ conf[k] # None /\ conf[k].bound

(* The calls that rows refer to, among the first n.  A transaction that is *)
(* executed is trusted, which its signers' confirmations need.             *)
TxOnChain(row, h, n) ==
  row # None /\ row.eth # 0 =>
    row.eth <= n /\ Executes(log[row.eth], h) /\ row.trusted
ConfOnChain(row, k, n) ==
  row # None /\ row.eth # 0 => row.eth <= n /\ Approves(log[row.eth], k[1], k[2])

AllOnChain ==
  /\ \A h \in Hashes : TxOnChain(tx[h], h, done)
  /\ \A k \in Keys : ConfOnChain(conf[k], k, done)
  /\ batch # Idle =>
       /\ \A h \in DOMAIN batch.tx : TxOnChain(batch.tx[h], h, batch.at)
       /\ \A k \in DOMAIN batch.conf : ConfOnChain(batch.conf[k], k, batch.at)

IInv == Types /\ SameCalls /\ BoundIsTrusted /\ BatchTrusts /\ AllOnChain

-----------------------------------------------------------------------------
LEMMA MinOfTwo ==
  ASSUME NEW a \in Int, NEW b \in Int
  PROVE  Min({a, b}) = IF a <= b THEN a ELSE b
<1> DEFINE m == IF a <= b THEN a ELSE b
<1>1. m \in {a, b} /\ \A y \in {a, b} : m <= y
  OBVIOUS
<1>2. Min({a, b}) \in {a, b} /\ \A y \in {a, b} : Min({a, b}) <= y
  BY <1>1 DEF Min
<1> QED
  BY <1>1, <1>2

LEMMA RowTypes ==
  /\ \A row \in TxRow : row # None =>
       row.row = TRUE /\ row.eth \in Nat /\ row.trusted \in BOOLEAN
         /\ row.proposed \in BOOLEAN
  /\ \A row \in ConfRow : row # None =>
       row.row = TRUE /\ row.bound \in BOOLEAN /\ row.eth \in Nat
BY DEF TxRow, ConfRow

LEMMA InitIInv == Init => IInv
<1> SUFFICES ASSUME Init PROVE IInv
  OBVIOUS
<1> USE ConfirmationsType DEF Init
<1>1. Types
  BY DEF Types, TxRow, ConfRow, Requests
<1>2. SameCalls /\ BoundIsTrusted /\ BatchTrusts /\ AllOnChain
  BY DEF SameCalls, BoundIsTrusted, BatchTrusts, AllOnChain, TxOnChain,
         ConfOnChain
<1> QED
  BY <1>1, <1>2 DEF IInv

-----------------------------------------------------------------------------
(***************************************************************************)
(* The node and the indexer.                                               *)
(***************************************************************************)
LEMMA NextCallsTyped == NextCalls \subseteq Calls
BY DEF NextCalls, Calls, OwnersAfter, kSubset

LEMMA MineKeeps == IInv /\ Mine => IInv'
<1> SUFFICES ASSUME IInv, Mine PROVE IInv'
  OBVIOUS
<1>1. PICK c \in NextCalls : chain' = Append(chain, c)
  BY DEF Mine
<1>2. /\ chain' \in Seq(Calls) /\ Len(chain') = Len(chain) + 1
      /\ \A i \in 1 .. Len(chain) : chain'[i] = chain[i]
  BY <1>1, NextCallsTyped DEF IInv, Types
<1>3. Types'
  BY <1>2, ConfirmationsType DEF IInv, Types, Mine, BatchTyped
<1>4. SameCalls'
  BY <1>2 DEF IInv, Types, SameCalls, Mine
<1>5. (BoundIsTrusted /\ BatchTrusts /\ AllOnChain)'
  BY DEF IInv, BoundIsTrusted, BatchTrusts, Trusts, TxRows, ConfRows,
         AllOnChain, TxOnChain, ConfOnChain, Mine
<1> QED
  BY <1>3, <1>4, <1>5 DEF IInv

LEMMA ReorgKeeps == IInv /\ Reorg => IInv'
<1> SUFFICES ASSUME IInv, Reorg PROVE IInv'
  OBVIOUS
<1>1. PICK n \in 0 .. Len(chain) - 1 : chain' = SubSeq(chain, 1, n)
  BY DEF Reorg
<1>2. /\ chain' \in Seq(Calls) /\ Len(chain') = n
      /\ \A i \in 1 .. n : chain'[i] = chain[i]
  BY <1>1 DEF IInv, Types
<1>3. Types'
  BY <1>2, ConfirmationsType DEF IInv, Types, Reorg, BatchTyped
<1>4. SameCalls'
  BY <1>2 DEF IInv, Types, SameCalls, Reorg
<1>5. (BoundIsTrusted /\ BatchTrusts /\ AllOnChain)'
  BY DEF IInv, BoundIsTrusted, BatchTrusts, Trusts, TxRows, ConfRows,
         AllOnChain, TxOnChain, ConfOnChain, Reorg
<1> QED
  BY <1>3, <1>4, <1>5 DEF IInv

LEMMA IndexKeeps == IInv /\ Index => IInv'
<1> SUFFICES ASSUME IInv, Index PROVE IInv'
  OBVIOUS
<1>1. /\ Len(log') > Len(log) /\ log' = chain
      /\ \A i \in 1 .. Len(log) : log'[i] = log[i]
  BY DEF IInv, Types, SameCalls, Index
<1>2. Types'
  BY <1>1, ConfirmationsType DEF IInv, Types, Index, BatchTyped
<1>3. SameCalls'
  BY <1>1 DEF IInv, Types, SameCalls, Index
<1>4. (BoundIsTrusted /\ BatchTrusts)'
  BY DEF IInv, BoundIsTrusted, BatchTrusts, Trusts, TxRows, ConfRows, Index
<1>5. AllOnChain'
  <2>0. Len(log) \in Nat
    BY DEF IInv, Types
  <2>1. ASSUME NEW row \in TxRow, NEW h, NEW n \in 0 .. Len(log),
               TxOnChain(row, h, n)
        PROVE  TxOnChain(row, h, n)'
    <3>1. row # None /\ row.eth # 0 /\ row.eth <= n => row.eth \in 1 .. Len(log)
      <4>1. row # None => row.eth \in Nat
        BY RowTypes
      <4> QED
        BY <2>0, <4>1
    <3> QED
      BY <1>1, <2>1, <3>1 DEF TxOnChain, Executes
  <2>2. ASSUME NEW row \in ConfRow, NEW k, NEW n \in 0 .. Len(log),
               ConfOnChain(row, k, n)
        PROVE  ConfOnChain(row, k, n)'
    <3>1. row # None /\ row.eth # 0 /\ row.eth <= n => row.eth \in 1 .. Len(log)
      <4>1. row # None => row.eth \in Nat
        BY RowTypes
      <4> QED
        BY <2>0, <4>1
    <3> QED
      BY <1>1, <2>2, <3>1 DEF ConfOnChain, Approves
  <2> QED
    BY <2>1, <2>2 DEF AllOnChain, IInv, Types, BatchTyped, Index
<1> QED
  BY <1>2, <1>3, <1>4, <1>5 DEF IInv

LEMMA RecoverKeeps == IInv /\ Recover => IInv'
<1> SUFFICES ASSUME IInv, Recover PROVE IInv'
  OBVIOUS
<1> DEFINE n == Len(chain)
<1>1. /\ n \in Nat /\ n < Len(log) /\ done \in Nat /\ Len(log) \in Nat
      /\ batch = Idle /\ batch' = Idle
      /\ log' = chain /\ Len(log') = n /\ \A i \in 1 .. n : log'[i] = log[i]
  BY DEF IInv, Types, SameCalls, Recover
<1>2. done' = IF done <= n THEN done ELSE n
  <2>1. done' = Min({done, n})
    BY DEF Recover
  <2>2. Min({done, n}) = IF done <= n THEN done ELSE n
    BY <1>1, MinOfTwo
  <2> QED
    BY <2>1, <2>2
<1>3. /\ tx' \in [Hashes -> TxRow]
      /\ \A h \in Hashes :
           /\ tx'[h] = None <=> tx[h] = None
           /\ tx[h] # None => /\ tx'[h].trusted = tx[h].trusted
                              /\ tx'[h].eth = 0 \/ (tx'[h].eth = tx[h].eth /\ tx[h].eth <= n)
  <2>1. ASSUME NEW row \in TxRow
        PROVE  LET r == TakenBack(row, n) IN
               /\ r \in TxRow /\ (r = None <=> row = None)
               /\ row # None => /\ r.trusted = row.trusted
                                /\ r.eth = 0 \/ (r.eth = row.eth /\ row.eth <= n)
    <3>1. CASE row = None
      BY <3>1 DEF TakenBack
    <3>2. CASE row # None /\ ~(row.eth > n)
      <4>1. row.eth \in Nat
        BY <3>2, RowTypes
      <4> QED
        BY <1>1, <3>2, <4>1 DEF TakenBack
    <3>3. CASE row # None /\ row.eth > n
      BY <3>3 DEF TakenBack, TxRow, None
    <3> QED
      BY <3>1, <3>2, <3>3
  <2>2. tx' = [h \in Hashes |-> TakenBack(tx[h], n)]
    BY DEF Recover
  <2> QED
    BY <2>1, <2>2 DEF IInv, Types
<1>4. /\ conf' \in [Keys -> ConfRow]
      /\ \A k \in Keys : conf'[k] # None => conf'[k] = conf[k] /\ ~(conf[k].eth > n)
  BY DEF Recover, IInv, Types, ConfRow
<1>5. Types'
  BY <1>1, <1>2, <1>3, <1>4 DEF IInv, Types, Recover
<1>6. SameCalls'
  BY <1>1 DEF SameCalls, Recover
<1>7. BoundIsTrusted' /\ BatchTrusts'
  BY <1>1, <1>3, <1>4 DEF IInv, BoundIsTrusted, BatchTrusts, Keys
<1>8. AllOnChain'
  <2>1. ASSUME NEW h \in Hashes PROVE TxOnChain(tx[h], h, done)'
    <3>1. SUFFICES ASSUME tx'[h] # None, tx'[h].eth # 0
                   PROVE  /\ tx'[h].eth <= done' /\ Executes(log[tx[h].eth], h)'
                          /\ tx'[h].trusted
      BY DEF TxOnChain
    <3>2. tx[h] # None /\ tx'[h].eth = tx[h].eth /\ tx[h].eth <= n
            /\ tx[h].eth \in Nat /\ tx'[h].trusted = tx[h].trusted
      BY <1>3, <3>1, RowTypes DEF IInv, Types
    <3>3. tx[h].eth <= done /\ Executes(log[tx[h].eth], h) /\ tx[h].trusted
      BY <3>1, <3>2 DEF IInv, AllOnChain, TxOnChain
    <3> QED
      BY <1>1, <1>2, <3>1, <3>2, <3>3 DEF Executes
  <2>2. ASSUME NEW k \in Keys PROVE ConfOnChain(conf[k], k, done)'
    <3>1. SUFFICES ASSUME conf'[k] # None, conf'[k].eth # 0
                   PROVE  conf'[k].eth <= done' /\ Approves(log[conf[k].eth], k[1], k[2])'
      BY DEF ConfOnChain
    <3>2. conf[k] # None /\ conf'[k].eth = conf[k].eth /\ conf[k].eth \in Nat
            /\ conf[k].eth <= n
      BY <1>1, <1>4, <3>1, RowTypes DEF IInv, Types
    <3>3. conf[k].eth <= done /\ Approves(log[conf[k].eth], k[1], k[2])
      BY <3>1, <3>2 DEF IInv, AllOnChain, ConfOnChain
    <3> QED
      BY <1>1, <1>2, <3>1, <3>2, <3>3 DEF Approves
  <2> QED
    BY <1>1, <2>1, <2>2 DEF AllOnChain
<1> QED
  BY <1>5, <1>6, <1>7, <1>8 DEF IInv

-----------------------------------------------------------------------------
(***************************************************************************)
(* The batch.                                                              *)
(***************************************************************************)
LEMMA RowsTyped ==
  ASSUME Types, batch # Idle
  PROVE  /\ TxRows \in [Hashes -> TxRow]
         /\ ConfRows \in [Keys -> ConfRow]
BY DEF Types, BatchTyped, TxRows, ConfRows

LEMMA StartBatchKeeps == IInv /\ StartBatch => IInv'
<1> SUFFICES ASSUME IInv, StartBatch PROVE IInv'
  OBVIOUS
<1>1. /\ batch' = [at |-> done, upto |-> Min({done + BatchSize, Len(log)}),
                   tx |-> <<>>, conf |-> <<>>]
      /\ DOMAIN batch'.tx = {} /\ DOMAIN batch'.conf = {}
  BY DEF StartBatch
<1>2. /\ Len(log) \in Nat /\ done \in Nat /\ done <= Len(log)
      /\ BatchSize \in Nat
  BY ConfirmationsType DEF IInv, Types
<1>3. Min({done + BatchSize, Len(log)}) \in done .. Len(log)
  BY <1>2, MinOfTwo
<1>4. Types'
  BY <1>1, <1>2, <1>3 DEF IInv, Types, BatchTyped, StartBatch
<1>5. (SameCalls /\ BoundIsTrusted /\ AllOnChain)'
  BY <1>1 DEF IInv, SameCalls, BoundIsTrusted, AllOnChain, TxOnChain,
              ConfOnChain, StartBatch
<1>6. BatchTrusts'
  <2>1. TxRows' = [h \in Hashes |-> tx[h]] /\ ConfRows' = [k \in Keys |-> conf[k]]
    BY <1>1 DEF TxRows, ConfRows, StartBatch
  <2> QED
    BY <1>1, <2>1 DEF IInv, BoundIsTrusted, BatchTrusts, Trusts, StartBatch, Keys
<1> QED
  BY <1>4, <1>5, <1>6 DEF IInv

LEMMA RollbackKeeps == IInv /\ Rollback => IInv'
BY DEF IInv, Types, SameCalls, BoundIsTrusted, BatchTrusts, AllOnChain,
       TxOnChain, ConfOnChain, Rollback

LEMMA CommitKeeps == IInv /\ Commit => IInv'
<1> SUFFICES ASSUME IInv, Commit PROVE IInv'
  OBVIOUS
<1>1. /\ tx' = TxRows /\ conf' = ConfRows /\ done' = batch.upto
      /\ batch # Idle /\ batch' = Idle /\ batch.at = batch.upto
  BY DEF Commit
<1>2. Types'
  BY <1>1, RowsTyped DEF IInv, Types, BatchTyped, Commit
<1>3. (SameCalls /\ BatchTrusts)'
  BY <1>1 DEF IInv, SameCalls, BatchTrusts, Commit
<1>4. BoundIsTrusted'
  BY <1>1 DEF IInv, BatchTrusts, Trusts, BoundIsTrusted
<1>5. AllOnChain'
  <2>1. /\ done \in Nat /\ batch.at \in Nat /\ done <= batch.at
        /\ log' = log
    BY <1>1 DEF IInv, Types, BatchTyped, Commit
  <2>2. ASSUME NEW h \in Hashes PROVE TxOnChain(tx[h], h, done)'
    BY <1>1, <2>1, RowTypes
       DEF IInv, Types, AllOnChain, TxOnChain, TxRows
  <2>3. ASSUME NEW k \in Keys PROVE ConfOnChain(conf[k], k, done)'
    BY <1>1, <2>1, RowTypes
       DEF IInv, Types, AllOnChain, ConfOnChain, ConfRows
  <2> QED
    BY <1>1, <2>2, <2>3 DEF AllOnChain
<1> QED
  BY <1>2, <1>3, <1>4, <1>5 DEF IInv

-----------------------------------------------------------------------------
(***************************************************************************)
(* The API.  A statement writes the row of a transaction h and rows K of   *)
(* its confirmations, none of which a batch has written.                   *)
(***************************************************************************)
LEMMA StatementKeeps ==
  ASSUME IInv, UNCHANGED <<chain, log, done, batch>>,
         NEW h \in Hashes, NEW K \in SUBSET Keys, \A k \in K : k[2] = h,
         Unlocked(h, K),
         tx' \in [Hashes -> TxRow], conf' \in [Keys -> ConfRow],
         request' \in [Clients -> Requests],
         \A g \in Hashes \ {h} : tx'[g] = tx[g],
         \A k \in Keys \ K : conf'[k] = conf[k],
         BoundIsTrusted',
         TxOnChain(tx'[h], h, done),
         \A k \in K : ConfOnChain(conf'[k], k, done)
  PROVE  IInv'
<1>1. Types'
  BY DEF IInv, Types, BatchTyped
<1>2. SameCalls'
  BY DEF IInv, SameCalls
<1>3. BatchTrusts'
  <2>1. SUFFICES ASSUME batch # Idle
                 PROVE  /\ Trusts(TxRows, ConfRows)'
                        /\ \A k \in DOMAIN batch.conf :
                             batch.conf[k] # None /\ batch.conf[k].bound =>
                               \/ k[2] \in DOMAIN batch.tx
                               \/ conf'[k] # None /\ conf'[k].bound
    BY DEF BatchTrusts
  <2>2. /\ h \notin DOMAIN batch.tx
        /\ \A k \in DOMAIN batch.conf : k \in Keys \ K /\ conf'[k] = conf[k]
    BY <2>1 DEF Unlocked, IInv, Types, BatchTyped
  <2>3. \A k \in DOMAIN batch.conf :
          batch.conf[k] # None /\ batch.conf[k].bound =>
            \/ k[2] \in DOMAIN batch.tx
            \/ conf'[k] # None /\ conf'[k].bound
    BY <2>1, <2>2 DEF IInv, BatchTrusts
  <2>4. ASSUME NEW k \in Keys, ConfRows'[k] # None, ConfRows'[k].bound
        PROVE  TxRows'[k[2]] # None /\ TxRows'[k[2]].trusted
    <3>1. k[2] \in Hashes
      BY DEF Keys
    <3>2. CASE k \notin K /\ k[2] \in DOMAIN batch.tx
      <4>1. ConfRows'[k] = ConfRows[k] /\ TxRows'[k[2]] = TxRows[k[2]]
        BY <3>1, <3>2 DEF ConfRows, TxRows
      <4> QED
        BY <2>1, <2>4, <4>1 DEF IInv, BatchTrusts, Trusts
    <3>3. CASE k[2] \notin DOMAIN batch.tx
      <4>1. conf'[k] # None /\ conf'[k].bound
        BY <2>3, <2>4, <3>3 DEF ConfRows
      <4>2. tx'[k[2]] # None /\ tx'[k[2]].trusted
        BY <4>1 DEF BoundIsTrusted
      <4> QED
        BY <3>1, <3>3, <4>2 DEF TxRows
    <3>4. k \in K => k[2] \notin DOMAIN batch.tx
      BY <2>2
    <3> QED
      BY <3>2, <3>3, <3>4
  <2> QED
    BY <2>3, <2>4 DEF Trusts
<1>4. AllOnChain'
  <2>1. ASSUME NEW g \in Hashes PROVE TxOnChain(tx[g], g, done)'
    BY DEF IInv, AllOnChain, TxOnChain
  <2>2. ASSUME NEW k \in Keys PROVE ConfOnChain(conf[k], k, done)'
    BY DEF IInv, AllOnChain, ConfOnChain
  <2>3. batch # Idle =>
          /\ \A g \in DOMAIN batch.tx : TxOnChain(batch.tx[g], g, batch.at)'
          /\ \A k \in DOMAIN batch.conf : ConfOnChain(batch.conf[k], k, batch.at)'
    BY DEF IInv, AllOnChain, TxOnChain, ConfOnChain
  <2> QED
    BY <2>1, <2>2, <2>3 DEF AllOnChain
<1> QED
  BY <1>1, <1>2, <1>3, <1>4 DEF IInv

LEMMA AcceptKeeps ==
  ASSUME IInv, NEW c \in Clients, NEW r \in Requests, Accept(c, r)
  PROVE  IInv'
<1>1. Types'
  BY DEF IInv, Types, BatchTyped, Accept
<1>2. (SameCalls /\ BoundIsTrusted /\ BatchTrusts /\ AllOnChain)'
  BY DEF IInv, SameCalls, BoundIsTrusted, BatchTrusts, Trusts, TxRows,
         ConfRows, AllOnChain, TxOnChain, ConfOnChain, Accept
<1> QED
  BY <1>1, <1>2 DEF IInv

LEMMA RequestsKeep ==
  ASSUME IInv, NEW c \in Clients, Propose(c) \/ Confirm(c) \/ Delete(c)
  PROVE  IInv'
<1>1. CASE Propose(c)
  BY <1>1, AcceptKeeps DEF Propose, OwnersAfter, Requests
<1>2. CASE Confirm(c)
  BY <1>2, AcceptKeeps DEF Confirm, OwnersAfter, Requests
<1>3. CASE Delete(c)
  BY <1>3, AcceptKeeps DEF Delete, Requests
<1> QED
  BY <1>1, <1>2, <1>3

LEMMA DropKeeps ==
  ASSUME IInv, NEW c \in Clients, Drop(c)
  PROVE  IInv'
<1> DEFINE h == request[c].hash
<1>1. h \in Hashes /\ request' \in [Clients -> Requests]
  BY DEF IInv, Types, Requests, Idle, Drop
<1>2. /\ Unlocked(h, Orphans(h)) /\ tx' = [tx EXCEPT ![h] = None]
      /\ conf' = [k \in Keys |-> IF k \in Orphans(h) THEN None ELSE conf[k]]
      /\ UNCHANGED <<chain, log, done, batch>>
  BY DEF Drop
<1>3. /\ tx' \in [Hashes -> TxRow] /\ conf' \in [Keys -> ConfRow]
      /\ tx'[h] = None /\ \A g \in Hashes \ {h} : tx'[g] = tx[g]
      /\ \A k \in Keys \ Orphans(h) : conf'[k] = conf[k]
      /\ \A k \in Orphans(h) : conf'[k] = None
  BY <1>1, <1>2 DEF IInv, Types, TxRow, ConfRow, Orphans
<1>4. Orphans(h) \in SUBSET Keys /\ \A k \in Orphans(h) : k[2] = h
  BY DEF Orphans
<1>5. BoundIsTrusted'
  <2>1. SUFFICES ASSUME NEW k \in Keys, conf'[k] # None, conf'[k].bound
                 PROVE  tx'[k[2]] # None /\ tx'[k[2]].trusted
    BY DEF BoundIsTrusted
  <2>2. k \notin Orphans(h) /\ conf'[k] = conf[k] /\ k[2] \in Hashes
    BY <1>3, <2>1 DEF Keys
  <2>3. k[2] # h
    BY <2>1, <2>2 DEF Orphans
  <2> QED
    BY <1>3, <2>1, <2>2, <2>3 DEF IInv, BoundIsTrusted
<1>6. /\ TxOnChain(tx'[h], h, done)
      /\ \A k \in Orphans(h) : ConfOnChain(conf'[k], k, done)
  BY <1>3 DEF TxOnChain, ConfOnChain
<1> QED
  BY <1>1, <1>2, <1>3, <1>4, <1>5, <1>6, StatementKeeps

(* What Trust and the binding make of a row.                               *)
LEMMA TrustedRow ==
  ASSUME NEW row \in TxRow
  PROVE  /\ Trust(row) \in TxRow /\ (Trust(row) = None <=> row = None)
         /\ row # None => Trust(row).trusted /\ Trust(row).eth = row.eth
<1>1. CASE row = None
  BY <1>1 DEF Trust
<1>2. CASE row # None
  BY <1>2 DEF Trust, TxRow, None
<1> QED
  BY <1>1, <1>2

LEMMA BoundRows ==
  ASSUME NEW c \in [Keys -> ConfRow], NEW h \in Hashes
  PROVE  /\ BindAll(c, h) \in [Keys -> ConfRow]
         /\ \A k \in Keys :
              /\ BindAll(c, h)[k] = None <=> c[k] = None
              /\ k \notin Unbound(c, h) => BindAll(c, h)[k] = c[k]
              /\ k \in Unbound(c, h) => BindAll(c, h)[k].eth = c[k].eth
<1>1. ASSUME NEW k \in Unbound(c, h)
      PROVE  LET r == [c[k] EXCEPT !.bound = TRUE] IN
             r \in ConfRow /\ r # None /\ r.eth = c[k].eth
  BY DEF Unbound, ConfRow, None
<1> QED
  BY <1>1 DEF BindAll, Unbound

LEMMA StoreTxKeeps ==
  ASSUME IInv, NEW c \in Clients, StoreTx(c)
  PROVE  IInv'
<1> DEFINE h == request[c].hash
           signed == request[c].signed
           waiting == Unbound(conf, h)
<1>1. h \in Hashes /\ signed \in BOOLEAN /\ request' \in [Clients -> Requests]
  <2>1. /\ request[c] \in [at : {"tx", "conf"}, hash : Hashes, owner : Owners,
                           signed : BOOLEAN, confirms : BOOLEAN]
        /\ request \in [Clients -> Requests]
    BY DEF IInv, Types, Requests, Idle, StoreTx
  <2>2. [request[c] EXCEPT !.at = "conf"] \in Requests /\ Idle \in Requests
    BY <2>1 DEF Requests
  <2>3. request' = [request EXCEPT ![c] =
                      IF signed THEN [request[c] EXCEPT !.at = "conf"] ELSE Idle]
    BY DEF StoreTx
  <2> QED
    BY <2>1, <2>2, <2>3
<1>2. /\ Unlocked(h, waiting) /\ UNCHANGED <<chain, log, done, batch>>
      /\ waiting \in SUBSET Keys /\ \A k \in waiting : k[2] = h
  BY DEF StoreTx, Unbound
<1>3. CASE tx[h] = None
  <2>1. /\ tx' = [tx EXCEPT ![h] =
                    [row |-> TRUE, eth |-> 0, proposed |-> TRUE,
                     trusted |-> signed \/ waiting # {}]]
        /\ conf' = BindAll(conf, h)
    BY <1>3 DEF StoreTx
  <2>2. /\ tx' \in [Hashes -> TxRow] /\ tx'[h] # None /\ tx'[h].eth = 0
        /\ tx'[h].trusted = (signed \/ waiting # {})
        /\ \A g \in Hashes \ {h} : tx'[g] = tx[g]
    BY <1>1, <2>1 DEF IInv, Types, TxRow, None
  <2>3. /\ conf' \in [Keys -> ConfRow]
        /\ \A k \in Keys : conf'[k] = None <=> conf[k] = None
        /\ \A k \in Keys \ waiting : conf'[k] = conf[k]
        /\ \A k \in waiting : conf'[k].eth = conf[k].eth
    <3>1. conf \in [Keys -> ConfRow]
      BY DEF IInv, Types
    <3>2. /\ BindAll(conf, h) \in [Keys -> ConfRow]
          /\ \A k \in Keys :
               /\ BindAll(conf, h)[k] = None <=> conf[k] = None
               /\ k \notin waiting => BindAll(conf, h)[k] = conf[k]
               /\ k \in waiting => BindAll(conf, h)[k].eth = conf[k].eth
      BY <1>1, <3>1, BoundRows
    <3> HIDE DEF waiting
    <3> QED
      BY <1>2, <2>1, <3>2
  <2>4. BoundIsTrusted'
    <3>1. SUFFICES ASSUME NEW k \in Keys, conf'[k] # None, conf'[k].bound
                   PROVE  tx'[k[2]] # None /\ tx'[k[2]].trusted
      BY DEF BoundIsTrusted
    <3>2. k[2] \in Hashes
      BY DEF Keys
    <3>3. CASE k \in waiting
      BY <1>2, <2>2, <3>3
    <3>4. CASE k \notin waiting
      <4>1. conf'[k] = conf[k]
        BY <2>3, <3>4
      <4>2. tx[k[2]] # None /\ tx[k[2]].trusted
        BY <3>1, <4>1 DEF IInv, BoundIsTrusted
      <4> QED
        BY <1>3, <2>2, <3>2, <4>2
    <3> QED
      BY <3>3, <3>4
  <2>5. /\ TxOnChain(tx'[h], h, done)
        /\ \A k \in waiting : ConfOnChain(conf'[k], k, done)
    BY <1>2, <2>2, <2>3 DEF TxOnChain, ConfOnChain, IInv, AllOnChain
  <2> QED
    BY <1>1, <1>2, <2>2, <2>3, <2>4, <2>5, StatementKeeps
<1>4. CASE tx[h] # None
  <2>1. /\ tx' = IF signed THEN [tx EXCEPT ![h] = Trust(@)] ELSE tx
        /\ conf' = conf
    BY <1>4 DEF StoreTx
  <2>2. /\ tx' \in [Hashes -> TxRow]
        /\ tx'[h] # None /\ tx'[h].eth = tx[h].eth
        /\ tx[h].trusted => tx'[h].trusted
        /\ \A g \in Hashes \ {h} : tx'[g] = tx[g]
    BY <1>1, <1>4, <2>1, TrustedRow DEF IInv, Types
  <2>3. BoundIsTrusted'
    BY <2>1, <2>2 DEF IInv, BoundIsTrusted, Keys
  <2>4. /\ TxOnChain(tx'[h], h, done)
        /\ \A k \in waiting : ConfOnChain(conf'[k], k, done)
    BY <1>1, <1>2, <1>4, <2>1, <2>2
       DEF TxOnChain, ConfOnChain, IInv, AllOnChain
  <2> QED
    BY <1>1, <1>2, <2>1, <2>2, <2>3, <2>4, StatementKeeps DEF IInv, Types
<1> QED
  BY <1>3, <1>4

LEMMA StoreConfKeeps ==
  ASSUME IInv, NEW c \in Clients, StoreConf(c)
  PROVE  IInv'
<1> DEFINE h == request[c].hash
           k == <<request[c].owner, h>>
           new == conf[k] = None /\ tx[h] # None
<1>1. h \in Hashes /\ k \in Keys /\ k[2] = h /\ request' \in [Clients -> Requests]
  BY DEF IInv, Types, Requests, Idle, StoreConf, Keys
<1>2. /\ Unlocked(h, {k}) /\ UNCHANGED <<chain, log, done, batch>>
      /\ conf' = IF new THEN [conf EXCEPT ![k] =
                               [row |-> TRUE, bound |-> TRUE, eth |-> 0]]
                  ELSE conf
      /\ tx' = [tx EXCEPT ![h] = Trust(@)] \/ (tx' = tx /\ ~new)
  BY DEF StoreConf
<1>3. /\ tx' \in [Hashes -> TxRow]
      /\ tx'[h] = None <=> tx[h] = None
      /\ tx[h] # None => /\ tx'[h].eth = tx[h].eth
                         /\ tx[h].trusted \/ new => tx'[h].trusted
      /\ \A g \in Hashes \ {h} : tx'[g] = tx[g]
  BY <1>1, <1>2, TrustedRow DEF IInv, Types
<1>4. /\ conf' \in [Keys -> ConfRow]
      /\ new => conf'[k] # None /\ conf'[k].eth = 0
      /\ ~new => conf'[k] = conf[k]
      /\ \A q \in Keys \ {k} : conf'[q] = conf[q]
  BY <1>1, <1>2 DEF IInv, Types, ConfRow, None
<1>5. BoundIsTrusted'
  <2>1. SUFFICES ASSUME NEW q \in Keys, conf'[q] # None, conf'[q].bound
                 PROVE  tx'[q[2]] # None /\ tx'[q[2]].trusted
    BY DEF BoundIsTrusted
  <2>2. CASE q = k /\ new
    BY <1>1, <1>3, <2>2
  <2>3. CASE ~(q = k /\ new)
    <3>1. conf'[q] = conf[q] /\ q[2] \in Hashes
      BY <1>4, <2>3 DEF Keys
    <3>2. tx[q[2]] # None /\ tx[q[2]].trusted
      BY <2>1, <3>1 DEF IInv, BoundIsTrusted
    <3> QED
      BY <1>3, <3>1, <3>2
  <2> QED
    BY <2>2, <2>3
<1>6. TxOnChain(tx'[h], h, done) /\ ConfOnChain(conf'[k], k, done)
  BY <1>1, <1>3, <1>4 DEF TxOnChain, ConfOnChain, IInv, AllOnChain
<1> QED
  BY <1>1, <1>2, <1>3, <1>4, <1>5, <1>6, StatementKeeps

-----------------------------------------------------------------------------
(***************************************************************************)
(* The calls of a batch.                                                   *)
(***************************************************************************)
LEMMA WriteResult ==
  ASSUME Types, batch # Idle, NEW hs \in SUBSET Hashes,
         NEW t \in [Hashes -> TxRow], NEW c \in [Keys -> ConfRow],
         Write(hs, t, c), UNCHANGED <<tx, conf>>
  PROVE  /\ batch' = [at |-> batch.at + 1, upto |-> batch.upto,
                      tx |-> batch'.tx, conf |-> batch'.conf]
         /\ DOMAIN batch'.tx =
              {h \in Hashes : t[h] # tx[h]} \cup DOMAIN batch.tx \cup hs
         /\ DOMAIN batch'.conf =
              {k \in Keys : c[k] # conf[k]} \cup DOMAIN batch.conf
         /\ \A h \in DOMAIN batch'.tx : batch'.tx[h] = t[h]
         /\ \A k \in DOMAIN batch'.conf : batch'.conf[k] = c[k]
         /\ TxRows' = t /\ ConfRows' = c
<1>1. batch = [at |-> batch.at, upto |-> batch.upto,
               tx |-> batch.tx, conf |-> batch.conf]
  BY DEF Types, BatchTyped
<1>2. batch' = [at |-> batch.at + 1, upto |-> batch.upto,
                tx |-> Written(t, tx, batch.tx, hs),
                conf |-> Written(c, conf, batch.conf, {})]
  BY <1>1 DEF Write
<1>3. /\ DOMAIN batch'.tx =
           {h \in Hashes : t[h] # tx[h]} \cup DOMAIN batch.tx \cup hs
      /\ \A h \in DOMAIN batch'.tx : batch'.tx[h] = t[h]
  BY <1>2 DEF Written
<1>4. /\ DOMAIN batch'.conf =
           {k \in Keys : c[k] # conf[k]} \cup DOMAIN batch.conf
      /\ \A k \in DOMAIN batch'.conf : batch'.conf[k] = c[k]
  BY <1>2 DEF Written
<1>5. TxRows' = t
  BY <1>3 DEF TxRows
<1>6. ConfRows' = c
  BY <1>4 DEF ConfRows
<1> QED
  BY <1>2, <1>3, <1>4, <1>5, <1>6

(* What a call may write: rows that refer to the calls up to this one, and *)
(* a new binding only with a lock on its transaction.                      *)
LEMMA WriteKeeps ==
  ASSUME IInv, batch # Idle, batch.at < batch.upto,
         UNCHANGED <<chain, log, done, tx, conf, request>>,
         NEW hs \in SUBSET Hashes,
         NEW t \in [Hashes -> TxRow], NEW c \in [Keys -> ConfRow],
         Write(hs, t, c), Trusts(t, c),
         \A k \in Keys : c[k] # None /\ c[k].bound =>
           k[2] \in hs \/ (ConfRows[k] # None /\ ConfRows[k].bound),
         \A h \in Hashes : TxOnChain(t[h], h, batch.at + 1),
         \A k \in Keys : ConfOnChain(c[k], k, batch.at + 1)
  PROVE  IInv'
<1>1. /\ batch' = [at |-> batch.at + 1, upto |-> batch.upto,
                   tx |-> batch'.tx, conf |-> batch'.conf]
      /\ DOMAIN batch'.tx =
           {h \in Hashes : t[h] # tx[h]} \cup DOMAIN batch.tx \cup hs
      /\ DOMAIN batch'.conf =
           {k \in Keys : c[k] # conf[k]} \cup DOMAIN batch.conf
      /\ \A h \in DOMAIN batch'.tx : batch'.tx[h] = t[h]
      /\ \A k \in DOMAIN batch'.conf : batch'.conf[k] = c[k]
      /\ TxRows' = t /\ ConfRows' = c
  BY WriteResult DEF IInv
<1>2. /\ batch.at \in Nat /\ batch.upto \in Nat /\ done \in Nat
      /\ Len(log) \in Nat /\ done <= batch.at /\ batch.upto <= Len(log)
      /\ DOMAIN batch.tx \subseteq Hashes /\ DOMAIN batch.conf \subseteq Keys
  BY DEF IInv, Types, BatchTyped
<1>3. batch'.at = batch.at + 1 /\ batch'.upto = batch.upto
  BY <1>1
<1>4. BatchTyped'
  <2>1. /\ DOMAIN batch'.tx \subseteq Hashes /\ DOMAIN batch'.conf \subseteq Keys
        /\ \A h \in DOMAIN batch'.tx : batch'.tx[h] \in TxRow
        /\ \A k \in DOMAIN batch'.conf : batch'.conf[k] \in ConfRow
    BY <1>1, <1>2
  <2>2. batch'.upto \in 0 .. Len(log) /\ batch'.at \in done .. batch'.upto
    BY <1>2, <1>3
  <2>3. batch' = [at |-> batch'.at, upto |-> batch'.upto,
                  tx |-> batch'.tx, conf |-> batch'.conf]
    BY <1>1, <1>3
  <2> QED
    BY <2>1, <2>2, <2>3 DEF BatchTyped
<1>5. Types'
  BY <1>4 DEF IInv, Types
<1>6. SameCalls' /\ BoundIsTrusted'
  BY DEF IInv, SameCalls, BoundIsTrusted
<1>7. BatchTrusts'
  <2>1. Trusts(TxRows, ConfRows)'
    BY <1>1 DEF Trusts
  <2>2. ASSUME NEW k \in DOMAIN batch'.conf,
               batch'.conf[k] # None, batch'.conf[k].bound
        PROVE  k[2] \in DOMAIN batch'.tx \/ (conf[k] # None /\ conf[k].bound)
    <3>1. k \in Keys /\ c[k] # None /\ c[k].bound
      BY <1>1, <1>2, <2>2
    <3>2. CASE k[2] \in hs
      BY <1>1, <3>2
    <3>3. CASE ConfRows[k] # None /\ ConfRows[k].bound
      <4>1. CASE k \in DOMAIN batch.conf
        <5>1. batch.conf[k] # None /\ batch.conf[k].bound
          BY <3>1, <3>3, <4>1 DEF ConfRows
        <5>2. k[2] \in DOMAIN batch.tx \/ (conf[k] # None /\ conf[k].bound)
          BY <4>1, <5>1 DEF IInv, BatchTrusts
        <5> QED
          BY <1>1, <5>2
      <4>2. CASE k \notin DOMAIN batch.conf
        BY <3>1, <3>3, <4>2 DEF ConfRows
      <4> QED
        BY <4>1, <4>2
    <3> QED
      BY <3>1, <3>2, <3>3
  <2> QED
    BY <2>1, <2>2 DEF BatchTrusts
<1>8. AllOnChain'
  <2>1. /\ \A h \in Hashes : TxOnChain(tx[h], h, done)'
        /\ \A k \in Keys : ConfOnChain(conf[k], k, done)'
    BY DEF IInv, AllOnChain, TxOnChain, ConfOnChain
  <2>2. ASSUME NEW h \in DOMAIN batch'.tx
        PROVE  TxOnChain(batch.tx[h], h, batch.at)'
    BY <1>1, <1>2, <1>3 DEF TxOnChain, Executes
  <2>3. ASSUME NEW k \in DOMAIN batch'.conf
        PROVE  ConfOnChain(batch.conf[k], k, batch.at)'
    BY <1>1, <1>2, <1>3 DEF ConfOnChain, Approves
  <2> QED
    BY <2>1, <2>2, <2>3 DEF AllOnChain
<1> QED
  BY <1>5, <1>6, <1>7, <1>8 DEF IInv

(* The rows that the next call of a batch finds.                           *)
LEMMA RowsBefore ==
  ASSUME IInv, batch # Idle
  PROVE  /\ TxRows \in [Hashes -> TxRow] /\ ConfRows \in [Keys -> ConfRow]
         /\ Trusts(TxRows, ConfRows)
         /\ \A h \in Hashes : TxOnChain(TxRows[h], h, batch.at + 1)
         /\ \A k \in Keys : ConfOnChain(ConfRows[k], k, batch.at + 1)
<1>1. TxRows \in [Hashes -> TxRow] /\ ConfRows \in [Keys -> ConfRow]
  BY RowsTyped DEF IInv
<1>2. batch.at \in Nat /\ done \in Nat /\ done <= batch.at
  BY DEF IInv, Types, BatchTyped
<1>3. ASSUME NEW h \in Hashes PROVE TxOnChain(TxRows[h], h, batch.at + 1)
  <2>1. SUFFICES ASSUME TxRows[h] # None, TxRows[h].eth # 0
                 PROVE  /\ TxRows[h].eth <= batch.at + 1
                        /\ Executes(log[TxRows[h].eth], h) /\ TxRows[h].trusted
    BY DEF TxOnChain
  <2>2. TxRows[h].eth \in Nat
    BY <1>1, <2>1, RowTypes
  <2>3. TxOnChain(TxRows[h], h, done) \/ TxOnChain(TxRows[h], h, batch.at)
    BY DEF IInv, AllOnChain, TxRows
  <2>4. /\ TxRows[h].eth <= done \/ TxRows[h].eth <= batch.at
        /\ Executes(log[TxRows[h].eth], h) /\ TxRows[h].trusted
    BY <2>1, <2>3 DEF TxOnChain
  <2> QED
    BY <1>2, <2>2, <2>4
<1>4. ASSUME NEW k \in Keys PROVE ConfOnChain(ConfRows[k], k, batch.at + 1)
  <2>1. SUFFICES ASSUME ConfRows[k] # None, ConfRows[k].eth # 0
                 PROVE  /\ ConfRows[k].eth <= batch.at + 1
                        /\ Approves(log[ConfRows[k].eth], k[1], k[2])
    BY DEF ConfOnChain
  <2>2. ConfRows[k].eth \in Nat
    BY <1>1, <2>1, RowTypes
  <2>3. ConfOnChain(ConfRows[k], k, done) \/ ConfOnChain(ConfRows[k], k, batch.at)
    BY DEF IInv, AllOnChain, ConfRows
  <2>4. /\ ConfRows[k].eth <= done \/ ConfRows[k].eth <= batch.at
        /\ Approves(log[ConfRows[k].eth], k[1], k[2])
    BY <2>1, <2>3 DEF ConfOnChain
  <2> QED
    BY <1>2, <2>2, <2>4
<1> QED
  BY <1>1, <1>3, <1>4 DEF IInv, BatchTrusts

LEMMA ApproveKeeps ==
  ASSUME IInv, batch # Idle, batch.at < batch.upto,
         UNCHANGED <<chain, log, done, tx, conf, request>>,
         NEW o \in Owners, NEW h \in Hashes,
         log[batch.at + 1] = [kind |-> "approve", owner |-> o, hash |-> h],
         Approve(o, h)
  PROVE  IInv'
<1> DEFINE i == batch.at + 1
           k == <<o, h>>
           row == ConfRows[k]
<1>1. /\ k \in Keys /\ k[1] = o /\ k[2] = h /\ i \in Nat \ {0}
      /\ Approves(log[i], k[1], k[2])
  BY DEF Keys, IInv, Types, BatchTyped, Approves
<1>2. /\ TxRows \in [Hashes -> TxRow] /\ ConfRows \in [Keys -> ConfRow]
      /\ Trusts(TxRows, ConfRows)
      /\ \A g \in Hashes : TxOnChain(TxRows[g], g, i)
      /\ \A q \in Keys : ConfOnChain(ConfRows[q], q, i)
  BY RowsBefore
<1>3. CASE row = None
  <2> DEFINE bound == TxRows[h] # None
             hs == IF bound THEN {h} ELSE {}
             new == [row |-> TRUE, bound |-> bound, eth |-> i]
             t == [TxRows EXCEPT ![h] = Trust(@)]
             c == [ConfRows EXCEPT ![k] = new]
  <2>1. Write(hs, t, c)
    BY <1>3 DEF Approve
  <2>2. new \in ConfRow /\ new # None
    BY <1>1 DEF ConfRow, None
  <2>3. /\ t \in [Hashes -> TxRow] /\ t[h] = Trust(TxRows[h])
        /\ \A g \in Hashes \ {h} : t[g] = TxRows[g]
        /\ t[h] = None <=> TxRows[h] = None
        /\ TxRows[h] # None => t[h].trusted /\ t[h].eth = TxRows[h].eth
    BY <1>2, TrustedRow
  <2>4. /\ c \in [Keys -> ConfRow] /\ c[k] = new
        /\ \A q \in Keys \ {k} : c[q] = ConfRows[q]
    BY <1>1, <1>2, <2>2
  <2>5. Trusts(t, c)
    <3>1. SUFFICES ASSUME NEW q \in Keys, c[q] # None, c[q].bound
                   PROVE  t[q[2]] # None /\ t[q[2]].trusted
      BY DEF Trusts
    <3>2. CASE q = k
      BY <1>1, <2>3, <2>4, <3>1, <3>2
    <3>3. CASE q # k
      <4>1. c[q] = ConfRows[q] /\ q[2] \in Hashes
        BY <2>4, <3>3 DEF Keys
      <4>2. TxRows[q[2]] # None /\ TxRows[q[2]].trusted
        BY <1>2, <3>1, <4>1 DEF Trusts
      <4> QED
        BY <2>3, <4>1, <4>2
    <3> QED
      BY <3>2, <3>3
  <2>6. \A q \in Keys : c[q] # None /\ c[q].bound =>
          q[2] \in hs \/ (ConfRows[q] # None /\ ConfRows[q].bound)
    BY <1>1, <2>4
  <2>7. \A g \in Hashes : TxOnChain(t[g], g, i)
    BY <1>2, <2>3 DEF TxOnChain
  <2>8. \A q \in Keys : ConfOnChain(c[q], q, i)
    BY <1>1, <1>2, <2>4 DEF ConfOnChain
  <2>9. hs \in SUBSET Hashes
    OBVIOUS
  <2> HIDE DEF hs, t, c
  <2> QED
    BY <2>1, <2>3, <2>4, <2>5, <2>6, <2>7, <2>8, <2>9, WriteKeeps
<1>4. CASE row # None
  <2> DEFINE c == IF row.eth = 0 THEN [ConfRows EXCEPT ![k].eth = i] ELSE ConfRows
  <2>1. Write({}, TxRows, c)
    BY <1>4 DEF Approve
  <2>2. /\ [row EXCEPT !.eth = i] \in ConfRow /\ [row EXCEPT !.eth = i] # None
        /\ [row EXCEPT !.eth = i].eth = i
        /\ [row EXCEPT !.eth = i].bound = row.bound
    BY <1>1, <1>2, <1>4 DEF ConfRow, None
  <2>3. /\ c \in [Keys -> ConfRow]
        /\ c[k] # None /\ c[k].bound = row.bound
        /\ c[k] = row \/ c[k].eth = i
        /\ \A q \in Keys \ {k} : c[q] = ConfRows[q]
    BY <1>1, <1>2, <1>4, <2>2
  <2>4. \A q \in Keys : c[q] # None /\ c[q].bound =>
          ConfRows[q] # None /\ ConfRows[q].bound
    BY <1>4, <2>3
  <2>5. Trusts(TxRows, c)
    BY <1>2, <2>4 DEF Trusts
  <2>6. \A q \in Keys : ConfOnChain(c[q], q, i)
    <3>1. \A q \in Keys \ {k} : ConfOnChain(c[q], q, i)
      BY <1>2, <2>3
    <3>2. ConfOnChain(c[k], k, i)
      BY <1>1, <1>2, <2>3 DEF ConfOnChain
    <3> QED
      BY <3>1, <3>2
  <2> HIDE DEF c
  <2> QED
    BY <1>2, <2>1, <2>3, <2>4, <2>5, <2>6, WriteKeeps
<1> QED
  BY <1>3, <1>4

(* The signatures of an execution of h only add rows, approved by no call. *)
LEMMA SignedRows ==
  ASSUME NEW c \in [Keys -> ConfRow], NEW h \in Hashes, NEW signers
  PROVE  /\ Signed(c, h, signers) \in [Keys -> ConfRow]
         /\ \A k \in Keys :
              \/ Signed(c, h, signers)[k] = c[k]
              \/ /\ k[2] = h /\ Signed(c, h, signers)[k] # None
                 /\ Signed(c, h, signers)[k].eth = 0
<1> DEFINE new == [row |-> TRUE, bound |-> TRUE, eth |-> 0]
<1>1. new \in ConfRow /\ new # None /\ new.eth = 0
  BY DEF ConfRow, None
<1> QED
  BY <1>1 DEF Signed

LEMMA ExecutedRow ==
  ASSUME NEW row \in TxRow, row # None, NEW i \in Nat
  PROVE  LET r == [row EXCEPT !.eth = i, !.trusted = TRUE] IN
         r \in TxRow /\ r # None /\ r.trusted /\ r.eth = i
BY DEF TxRow, None

LEMMA ExecuteKeeps ==
  ASSUME IInv, batch # Idle, batch.at < batch.upto,
         UNCHANGED <<chain, log, done, tx, conf, request>>,
         NEW h \in Hashes, NEW signers \in SUBSET Owners,
         log[batch.at + 1] = [kind |-> "exec", hash |-> h, signers |-> signers],
         Execute(h, signers)
  PROVE  IInv'
<1> DEFINE i == batch.at + 1
           row == TxRows[h]
<1>1. i \in Nat \ {0} /\ Executes(log[i], h)
  BY DEF IInv, Types, BatchTyped, Executes
<1>2. /\ TxRows \in [Hashes -> TxRow] /\ ConfRows \in [Keys -> ConfRow]
      /\ Trusts(TxRows, ConfRows)
      /\ \A g \in Hashes : TxOnChain(TxRows[g], g, i)
      /\ \A q \in Keys : ConfOnChain(ConfRows[q], q, i)
  BY RowsBefore
<1>3. ASSUME NEW t \in [Hashes -> TxRow], NEW c \in [Keys -> ConfRow],
             Write({h}, t, c),
             t[h] # None, t[h].trusted, TxOnChain(t[h], h, i),
             \A g \in Hashes \ {h} : t[g] = TxRows[g],
             \A q \in Keys : \/ c[q] = ConfRows[q]
                             \/ /\ q[2] = h /\ c[q] # None
                                /\ c[q].eth = 0 \/ (ConfRows[q] # None /\ c[q].eth = ConfRows[q].eth)
      PROVE  IInv'
  <2>1. Trusts(t, c)
    <3>1. SUFFICES ASSUME NEW q \in Keys, c[q] # None, c[q].bound
                   PROVE  t[q[2]] # None /\ t[q[2]].trusted
      BY DEF Trusts
    <3>2. CASE q[2] = h
      BY <1>3, <3>2
    <3>3. CASE q[2] # h
      <4>1. c[q] = ConfRows[q] /\ q[2] \in Hashes
        BY <1>3, <3>3 DEF Keys
      <4>2. TxRows[q[2]] # None /\ TxRows[q[2]].trusted
        BY <1>2, <3>1, <4>1 DEF Trusts
      <4> QED
        BY <1>3, <3>3, <4>1, <4>2
    <3> QED
      BY <3>2, <3>3
  <2>2. \A q \in Keys : c[q] # None /\ c[q].bound =>
          q[2] \in {h} \/ (ConfRows[q] # None /\ ConfRows[q].bound)
    BY <1>3
  <2>3. \A g \in Hashes : TxOnChain(t[g], g, i)
    BY <1>2, <1>3 DEF TxOnChain
  <2>4. \A q \in Keys : ConfOnChain(c[q], q, i)
    BY <1>2, <1>3 DEF ConfOnChain
  <2> QED
    BY <1>3, <2>1, <2>2, <2>3, <2>4, WriteKeeps
<1>4. CASE row = None
  <2> DEFINE new == [row |-> TRUE, eth |-> i, trusted |-> TRUE, proposed |-> FALSE]
             t == [TxRows EXCEPT ![h] = new]
             b == BindAll(ConfRows, h)
             c == Signed(b, h, signers)
  <2>1. Write({h}, t, c)
    BY <1>4 DEF Execute
  <2>2. new \in TxRow /\ new # None /\ new.eth = i /\ new.trusted
    BY <1>1 DEF TxRow, None
  <2>3. /\ t \in [Hashes -> TxRow] /\ t[h] = new
        /\ \A g \in Hashes \ {h} : t[g] = TxRows[g]
    BY <1>2, <2>2
  <2>4. TxOnChain(t[h], h, i)
    BY <1>1, <2>2, <2>3 DEF TxOnChain
  <2>5. /\ b \in [Keys -> ConfRow]
        /\ \A q \in Keys :
             /\ b[q] = None <=> ConfRows[q] = None
             /\ q \notin Unbound(ConfRows, h) => b[q] = ConfRows[q]
             /\ q \in Unbound(ConfRows, h) => b[q].eth = ConfRows[q].eth
    BY <1>2, BoundRows
  <2>6. \A q \in Unbound(ConfRows, h) : q[2] = h /\ ConfRows[q] # None
    BY DEF Unbound
  <2> HIDE DEF b
  <2>7. /\ c \in [Keys -> ConfRow]
        /\ \A q \in Keys : \/ c[q] = b[q]
                           \/ q[2] = h /\ c[q] # None /\ c[q].eth = 0
    BY <2>5, SignedRows
  <2> HIDE DEF t, c
  <2>8. ASSUME NEW q \in Keys
        PROVE  \/ c[q] = ConfRows[q]
               \/ /\ q[2] = h /\ c[q] # None
                  /\ c[q].eth = 0 \/ (ConfRows[q] # None /\ c[q].eth = ConfRows[q].eth)
    BY <2>5, <2>6, <2>7
  <2> QED
    BY <1>3, <2>1, <2>2, <2>3, <2>4, <2>7, <2>8
<1>5. CASE row # None
  <2> DEFINE new == IF row.eth = 0 THEN [row EXCEPT !.eth = i, !.trusted = TRUE]
                    ELSE row
             t == [TxRows EXCEPT ![h] = new]
             c == Signed(ConfRows, h, signers)
  <2>1. Write({h}, t, c)
    BY <1>5 DEF Execute
  <2>2. new \in TxRow /\ new # None /\ new.trusted /\ TxOnChain(new, h, i)
    <3>1. CASE row.eth = 0
      <4> DEFINE r == [row EXCEPT !.eth = i, !.trusted = TRUE]
      <4>1. row \in TxRow
        BY <1>2
      <4>2. r \in TxRow /\ r # None /\ r.trusted /\ r.eth = i
        BY <1>1, <1>5, <4>1, ExecutedRow
      <4>3. new = r
        BY <3>1
      <4> HIDE DEF r, new
      <4> QED
        BY <1>1, <4>2, <4>3 DEF TxOnChain
    <3>2. CASE row.eth # 0
      BY <1>2, <1>5, <3>2 DEF TxOnChain
    <3> QED
      BY <3>1, <3>2
  <2>3. /\ t \in [Hashes -> TxRow] /\ t[h] = new
        /\ \A g \in Hashes \ {h} : t[g] = TxRows[g]
    BY <1>2, <2>2
  <2>4. /\ c \in [Keys -> ConfRow]
        /\ \A q \in Keys : \/ c[q] = ConfRows[q]
                           \/ q[2] = h /\ c[q] # None /\ c[q].eth = 0
    BY <1>2, SignedRows
  <2> HIDE DEF t, c, new
  <2> QED
    BY <1>3, <2>1, <2>2, <2>3, <2>4
<1> QED
  BY <1>4, <1>5

LEMMA RemoveOwnerKeeps ==
  ASSUME IInv, batch # Idle, batch.at < batch.upto,
         UNCHANGED <<chain, log, done, tx, conf, request>>,
         NEW o, RemoveOwner(o)
  PROVE  IInv'
<1>1. PICK K \in SUBSET Keys :
        Write({}, TxRows, [k \in Keys |-> IF k \in K THEN None ELSE ConfRows[k]])
  <2> DEFINE K == {k \in Keys : /\ k[1] = o /\ ConfRows[k] # None
                                /\ ConfRows[k].bound /\ TxRows[k[2]].eth = 0
                                /\ NonceOf[k[2]] >= NonceAfter(Before(batch.at + 1))}
  <2>1. /\ K \in SUBSET Keys
        /\ Write({}, TxRows, [k \in Keys |-> IF k \in K THEN None ELSE ConfRows[k]])
    BY DEF RemoveOwner
  <2> QED
    BY <2>1
<1> DEFINE c == [k \in Keys |-> IF k \in K THEN None ELSE ConfRows[k]]
<1>2. /\ TxRows \in [Hashes -> TxRow] /\ ConfRows \in [Keys -> ConfRow]
      /\ Trusts(TxRows, ConfRows)
      /\ \A g \in Hashes : TxOnChain(TxRows[g], g, batch.at + 1)
      /\ \A q \in Keys : ConfOnChain(ConfRows[q], q, batch.at + 1)
  BY RowsBefore
<1>3. /\ c \in [Keys -> ConfRow]
      /\ \A q \in Keys : c[q] = None \/ c[q] = ConfRows[q]
  BY <1>2 DEF ConfRow
<1>4. Write({}, TxRows, c)
  BY <1>1
<1> HIDE DEF c
<1>5. /\ Trusts(TxRows, c)
      /\ \A q \in Keys : ConfOnChain(c[q], q, batch.at + 1)
      /\ \A q \in Keys : c[q] # None /\ c[q].bound =>
           ConfRows[q] # None /\ ConfRows[q].bound
  BY <1>2, <1>3 DEF Trusts, ConfOnChain
<1> QED
  BY <1>2, <1>3, <1>4, <1>5, WriteKeeps

LEMMA ProcessKeeps == IInv /\ Process => IInv'
<1> SUFFICES ASSUME IInv, Process PROVE IInv'
  OBVIOUS
<1> DEFINE call == log[batch.at + 1]
<1>1. /\ batch # Idle /\ batch.at < batch.upto
      /\ UNCHANGED <<chain, log, done, tx, conf, request>>
  BY DEF Process
<1>2. call \in Calls
  <2>1. /\ batch.at \in Nat /\ batch.upto \in Nat /\ Len(log) \in Nat
        /\ batch.upto <= Len(log) /\ log \in Seq(Calls)
    BY <1>1 DEF IInv, Types, BatchTyped
  <2>2. batch.at + 1 \in 1 .. Len(log)
    BY <1>1, <2>1
  <2> QED
    BY <2>1, <2>2
<1>3. CASE call.kind = "approve" /\ Approve(call.owner, call.hash)
  <2>1. /\ call.owner \in Owners /\ call.hash \in Hashes
        /\ call = [kind |-> "approve", owner |-> call.owner, hash |-> call.hash]
    BY <1>2, <1>3 DEF Calls
  <2> QED
    BY <1>1, <1>3, <2>1, ApproveKeeps
<1>4. CASE call.kind = "exec" /\ Execute(call.hash, call.signers)
  <2>1. /\ call.hash \in Hashes /\ call.signers \in SUBSET Owners
        /\ call = [kind |-> "exec", hash |-> call.hash, signers |-> call.signers]
    BY <1>2, <1>4 DEF Calls
  <2> QED
    BY <1>1, <1>4, <2>1, ExecuteKeeps
<1>5. CASE RemoveOwner(call.owner)
  BY <1>1, <1>5, RemoveOwnerKeeps
<1>6. CASE Write({}, TxRows, ConfRows)
  BY <1>1, <1>6, RowsBefore, WriteKeeps
<1> QED
  BY <1>3, <1>4, <1>5, <1>6 DEF Process

-----------------------------------------------------------------------------
LEMMA NextIInv == IInv /\ [Next]_vars => IInv'
<1> SUFFICES ASSUME IInv, [Next]_vars PROVE IInv'
  OBVIOUS
<1>1. CASE Mine \/ Reorg \/ Index \/ Recover
  BY <1>1, MineKeeps, ReorgKeeps, IndexKeeps, RecoverKeeps
<1>2. CASE StartBatch \/ Process \/ Commit \/ Rollback
  BY <1>2, StartBatchKeeps, ProcessKeeps, CommitKeeps, RollbackKeeps
<1>3. CASE \E c \in Clients : Propose(c) \/ Confirm(c) \/ Delete(c)
  BY <1>3, RequestsKeep
<1>4. CASE \E c \in Clients : StoreTx(c) \/ StoreConf(c) \/ Drop(c)
  BY <1>4, StoreTxKeeps, StoreConfKeeps, DropKeeps
<1>5. CASE UNCHANGED vars
  BY <1>5 DEF IInv, Types, BatchTyped, SameCalls, BoundIsTrusted, BatchTrusts,
              Trusts, TxRows, ConfRows, AllOnChain, TxOnChain, ConfOnChain, vars
<1> QED
  BY <1>1, <1>2, <1>3, <1>4, <1>5 DEF Next

LEMMA SpecIInv == Spec => []IInv
BY InitIInv, NextIInv, PTL DEF Spec

(* The tables hold rows of the declared kinds, an execution or an approval *)
(* is never from a call that is not processed, and a batch stays within    *)
(* the calls that were indexed, whatever a reorg takes back meanwhile.     *)
THEOREM TypeCorrect == Spec => []TypeOK
<1>1. IInv => TypeOK
  <2> SUFFICES ASSUME IInv PROVE TypeOK
    OBVIOUS
  <2>1. /\ done \in 0 .. Len(log) /\ Len(log) <= MaxCalls
        /\ batch = Idle \/ batch.at \in done .. batch.upto
    BY DEF IInv, Types, BatchTyped
  <2>2. ASSUME NEW h \in Hashes, tx[h] # None
        PROVE  tx[h].eth \in 0 .. done
                 /\ {tx[h].trusted, tx[h].proposed} \subseteq BOOLEAN
    <3>1. tx[h].eth \in Nat /\ tx[h].trusted \in BOOLEAN /\ tx[h].proposed \in BOOLEAN
      BY <2>2, RowTypes DEF IInv, Types
    <3>2. tx[h].eth = 0 \/ tx[h].eth <= done
      BY <2>2 DEF IInv, AllOnChain, TxOnChain
    <3>3. tx[h].eth \in 0 .. done
      BY <2>1, <3>1, <3>2
    <3> QED
      BY <3>1, <3>3
  <2>3. ASSUME NEW k \in Keys, conf[k] # None
        PROVE  conf[k].eth \in 0 .. done /\ conf[k].bound \in BOOLEAN
    <3>1. conf[k].eth \in Nat /\ conf[k].bound \in BOOLEAN
      BY <2>3, RowTypes DEF IInv, Types
    <3>2. conf[k].eth = 0 \/ conf[k].eth <= done
      BY <2>3 DEF IInv, AllOnChain, ConfOnChain
    <3>3. conf[k].eth \in 0 .. done
      BY <2>1, <3>1, <3>2
    <3> QED
      BY <3>1, <3>3
  <2>4. \A c \in Clients : request[c].at \in {"idle", "tx", "conf", "delete"}
    BY DEF IInv, Types, Requests, Idle
  <2> QED
    BY <2>1, <2>2, <2>3, <2>4 DEF TypeOK
<1> QED
  BY <1>1, SpecIInv, PTL

(* Whatever the requests of the API, the batches and the reorgs do at the  *)
(* same time, a transaction that a confirmation is bound to exists and is  *)
(* trusted.                                                                *)
THEOREM BoundAreTrusted == Spec => []BoundIsTrusted
<1>1. IInv => BoundIsTrusted
  BY DEF IInv
<1> QED
  BY <1>1, SpecIInv, PTL

(* What counts as executed or as approved on chain refers to a call that   *)
(* is processed and does just that, after any number of reorgs.            *)
THEOREM RowsStayOnChain == Spec => []RowsAreOnChain
<1>1. IInv => RowsAreOnChain
  BY DEF IInv, AllOnChain, TxOnChain, ConfOnChain, RowsAreOnChain, Executed
<1> QED
  BY <1>1, SpecIInv, PTL

-----------------------------------------------------------------------------
(***************************************************************************)
(* The confirmations of the signers.  What the batch has executed has them *)
(* in its rows; what was executed before has lost none to it.              *)
(***************************************************************************)
BatchSigners ==
  batch # Idle =>
    \A h \in Hashes : TxRows[h] # None /\ TxRows[h].eth # 0 =>
      \/ \A o \in log[TxRows[h].eth].signers : ConfRows[<<o, h>>] # None
      \/ /\ tx[h] # None /\ tx[h].eth = TxRows[h].eth
         /\ \A o \in Owners : conf[<<o, h>>] # None => ConfRows[<<o, h>>] # None

SignersStep ==
  \A h \in Hashes : Executed(h)' =>
    \A o \in log'[tx'[h].eth].signers :
      LET k == <<o, h>> IN
      \/ conf'[k] # None
      \/ Executed(h) /\ (conf[k] = None \/ conf[k].eth > tx[h].eth)

(* What a transaction was executed by is an execution, signed by owners.   *)
LEMMA SignersAreOwners ==
  ASSUME Types, NEW h \in Hashes, NEW row \in TxRow, NEW n \in Nat,
         n <= Len(log), TxOnChain(row, h, n), row # None, row.eth # 0
  PROVE  /\ row.eth \in 1 .. n
         /\ \A o \in log[row.eth].signers : o \in Owners /\ <<o, h>> \in Keys
<1>1. row.eth \in Nat /\ Len(log) \in Nat
  BY RowTypes DEF Types
<1>2. row.eth \in 1 .. n /\ row.eth \in 1 .. Len(log) /\ log[row.eth].kind = "exec"
  BY <1>1 DEF TxOnChain, Executes
<1>3. log[row.eth] \in Calls
  BY <1>2 DEF Types
<1>4. log[row.eth].signers \subseteq Owners
  BY <1>2, <1>3 DEF Calls
<1> QED
  BY <1>2, <1>4 DEF Keys

LEMMA BatchExecuted ==
  ASSUME IInv, batch # Idle, NEW h \in Hashes,
         TxRows[h] # None, TxRows[h].eth # 0
  PROVE  /\ TxRows[h].eth \in 1 .. batch.at /\ batch.at \in Nat
         /\ batch.at <= Len(log) /\ Len(log) \in Nat
         /\ \A o \in log[TxRows[h].eth].signers : o \in Owners /\ <<o, h>> \in Keys
<1>1. /\ batch.at \in Nat /\ done \in Nat /\ done <= batch.at
      /\ batch.at <= Len(log) /\ Len(log) \in Nat
  BY DEF IInv, Types, BatchTyped
<1>2. TxRows[h] \in TxRow
  BY RowsTyped DEF IInv
<1>3. PICK n \in {done, batch.at} : TxOnChain(TxRows[h], h, n)
  BY DEF IInv, AllOnChain, TxRows
<1>4. /\ TxRows[h].eth \in 1 .. n
      /\ \A o \in log[TxRows[h].eth].signers : o \in Owners /\ <<o, h>> \in Keys
  <2>1. n \in Nat /\ n <= Len(log) /\ Types
    BY <1>1 DEF IInv
  <2> QED
    BY <1>2, <1>3, <2>1, SignersAreOwners
<1> QED
  BY <1>1, <1>4

(* A step that leaves transactions and confirmations alone.                *)
LEMMA NothingWritten ==
  ASSUME UNCHANGED <<tx, conf>>
  PROVE  SignersStep
BY DEF SignersStep, Executed

(* A statement keeps the execution and the confirmations of a transaction, *)
(* or deletes the transaction.                                             *)
LEMMA StatementSigners ==
  ASSUME IInv, BatchSigners, UNCHANGED <<log, done, batch>>,
         NEW h \in Hashes, NEW K \in SUBSET Keys, \A k \in K : k[2] = h,
         Unlocked(h, K),
         tx' \in [Hashes -> TxRow], conf' \in [Keys -> ConfRow],
         \A g \in Hashes \ {h} : tx'[g] = tx[g],
         \A k \in Keys \ K : conf'[k] = conf[k],
         \/ tx'[h] = None
         \/ /\ tx'[h].eth = IF tx[h] = None THEN 0 ELSE tx[h].eth
            /\ \A k \in K : conf[k] # None => conf'[k] # None
  PROVE  BatchSigners' /\ SignersStep
<1>1. ASSUME NEW g \in Hashes, Executed(g)'
      PROVE  /\ Executed(g) /\ tx'[g].eth = tx[g].eth
             /\ \A o \in Owners : conf[<<o, g>>] # None => conf'[<<o, g>>] # None
  <2>1. CASE g = h
    <3>1. /\ tx'[h].eth = IF tx[h] = None THEN 0 ELSE tx[h].eth
          /\ \A k \in K : conf[k] # None => conf'[k] # None
      BY <1>1, <2>1 DEF Executed
    <3>2. \A k \in Keys : conf[k] # None => conf'[k] # None
      BY <3>1
    <3> QED
      BY <1>1, <2>1, <3>1, <3>2 DEF Executed, Keys
  <2>2. CASE g # h
    <3>1. \A o \in Owners : <<o, g>> \in Keys \ K
      BY <2>2 DEF Keys
    <3> QED
      BY <1>1, <2>2, <3>1 DEF Executed
  <2> QED
    BY <2>1, <2>2
<1>2. SignersStep
  <2> SUFFICES ASSUME NEW g \in Hashes, Executed(g)',
                      NEW o \in log'[tx'[g].eth].signers
               PROVE  \/ conf'[<<o, g>>] # None
                      \/ Executed(g) /\ conf[<<o, g>>] = None
    BY DEF SignersStep
  <2>1. /\ Executed(g) /\ tx'[g].eth = tx[g].eth /\ log' = log
        /\ \A p \in Owners : conf[<<p, g>>] # None => conf'[<<p, g>>] # None
    BY <1>1
  <2>2. o \in Owners
    <3>1. /\ tx[g] \in TxRow /\ tx[g] # None /\ tx[g].eth # 0
          /\ TxOnChain(tx[g], g, done) /\ done \in Nat /\ done <= Len(log)
          /\ Types
      BY <2>1 DEF IInv, Types, AllOnChain, Executed
    <3>2. \A p \in log[tx[g].eth].signers : p \in Owners
      BY <3>1, SignersAreOwners
    <3> QED
      BY <2>1, <3>2
  <2> QED
    BY <2>1, <2>2
<1>3. BatchSigners'
  <2> SUFFICES ASSUME batch # Idle, NEW g \in Hashes,
                      TxRows'[g] # None, TxRows'[g].eth # 0
               PROVE  \/ \A o \in log[TxRows'[g].eth].signers :
                           ConfRows'[<<o, g>>] # None
                      \/ /\ tx'[g] # None /\ tx'[g].eth = TxRows'[g].eth
                         /\ \A o \in Owners :
                              conf'[<<o, g>>] # None => ConfRows'[<<o, g>>] # None
    BY DEF BatchSigners
  <2>1. /\ h \notin DOMAIN batch.tx
        /\ \A k \in DOMAIN batch.conf : k \in Keys \ K /\ conf'[k] = conf[k]
    BY DEF Unlocked, IInv, Types, BatchTyped
  <2>2. /\ TxRows'[g] = (IF g \in DOMAIN batch.tx THEN batch.tx[g] ELSE tx'[g])
        /\ TxRows[g] = (IF g \in DOMAIN batch.tx THEN batch.tx[g] ELSE tx[g])
    BY DEF TxRows
  <2>3. /\ TxRows[g] # None /\ TxRows'[g].eth = TxRows[g].eth
        /\ tx[g] # None /\ tx[g].eth = TxRows[g].eth =>
             tx'[g] # None /\ tx'[g].eth = TxRows'[g].eth
    <3>1. CASE g = h
      <4>1. TxRows'[g] = tx'[g] /\ TxRows[g] = tx[g] /\ Executed(g)'
        BY <2>1, <2>2, <3>1 DEF Executed
      <4> QED
        BY <1>1, <4>1 DEF Executed
    <3>2. CASE g # h
      BY <2>2, <3>2
    <3> QED
      BY <3>1, <3>2
  <2>4. ASSUME NEW o \in Owners
        PROVE  /\ ConfRows[<<o, g>>] # None => ConfRows'[<<o, g>>] # None
               /\ /\ conf'[<<o, g>>] # None
                  /\ conf[<<o, g>>] # None => ConfRows[<<o, g>>] # None
                  => ConfRows'[<<o, g>>] # None
    <3> DEFINE k == <<o, g>>
    <3>1. k \in Keys /\ k[2] = g
      BY DEF Keys
    <3>2. /\ ConfRows'[k] = (IF k \in DOMAIN batch.conf THEN batch.conf[k] ELSE conf'[k])
          /\ ConfRows[k] = (IF k \in DOMAIN batch.conf THEN batch.conf[k] ELSE conf[k])
      BY <3>1 DEF ConfRows
    <3>3. k \in DOMAIN batch.conf => conf'[k] = conf[k]
      BY <2>1
    <3>4. k \in K => g = h /\ TxRows'[g] = tx'[g]
      BY <2>1, <2>2, <3>1
    <3>5. k \in K => (conf[k] # None => conf'[k] # None)
      BY <3>4
    <3>6. k \notin K => conf'[k] = conf[k]
      BY <3>1
    <3> HIDE DEF k
    <3> QED
      BY <3>2, <3>3, <3>5, <3>6 DEF k
  <2>5. \A o \in log[TxRows[g].eth].signers : o \in Owners
    BY <2>3, BatchExecuted
  <2> QED
    BY <2>3, <2>4, <2>5 DEF BatchSigners
<1> QED
  BY <1>2, <1>3

LEMMA ApiSigners ==
  ASSUME IInv, BatchSigners, NEW c \in Clients, StoreTx(c) \/ StoreConf(c) \/ Drop(c)
  PROVE  BatchSigners' /\ SignersStep
<1> DEFINE h == request[c].hash
<1>1. h \in Hashes
  BY DEF IInv, Types, Requests, Idle, StoreTx, StoreConf, Drop
<1>2. /\ tx' \in [Hashes -> TxRow] /\ conf' \in [Keys -> ConfRow]
      /\ UNCHANGED <<log, done, batch>>
  BY StoreTxKeeps, StoreConfKeeps, DropKeeps
     DEF IInv, Types, StoreTx, StoreConf, Drop
<1>3. /\ tx \in [Hashes -> TxRow] /\ conf \in [Keys -> ConfRow]
      /\ tx[h] \in TxRow
  BY <1>1 DEF IInv, Types
<1>4. CASE StoreTx(c)
  <2> DEFINE K == Unbound(conf, h)
  <2>1. /\ Unlocked(h, K) /\ K \in SUBSET Keys /\ \A k \in K : k[2] = h
    BY <1>4 DEF StoreTx, Unbound
  <2>2. CASE tx[h] = None
    <3>1. /\ \A g \in Hashes \ {h} : tx'[g] = tx[g]
          /\ tx'[h].eth = 0 /\ conf' = BindAll(conf, h)
      BY <1>1, <1>3, <1>4, <2>2 DEF StoreTx
    <3>2. \A k \in Keys : /\ conf'[k] = None <=> conf[k] = None
                          /\ k \notin K => conf'[k] = conf[k]
      BY <1>1, <1>3, <3>1, BoundRows
    <3> HIDE DEF h, K
    <3> QED
      BY <1>1, <1>2, <2>1, <2>2, <3>1, <3>2, StatementSigners
  <2>3. CASE tx[h] # None
    <3>1. /\ conf' = conf
          /\ tx' = [tx EXCEPT ![h] = Trust(@)] \/ tx' = tx
      BY <1>4, <2>3 DEF StoreTx
    <3>2. /\ \A g \in Hashes \ {h} : tx'[g] = tx[g]
          /\ tx'[h].eth = tx[h].eth
      BY <1>1, <1>3, <2>3, <3>1, TrustedRow
    <3>3. /\ tx'[h].eth = IF tx[h] = None THEN 0 ELSE tx[h].eth
          /\ \A k \in Keys \ K : conf'[k] = conf[k]
          /\ \A k \in K : conf[k] # None => conf'[k] # None
      BY <2>3, <3>1, <3>2
    <3> HIDE DEF h, K
    <3> QED
      BY <1>1, <1>2, <2>1, <3>2, <3>3, StatementSigners
  <2> QED
    BY <2>2, <2>3
<1>5. CASE StoreConf(c)
  <2> DEFINE k == <<request[c].owner, h>>
  <2>1. /\ Unlocked(h, {k}) /\ k \in Keys /\ k[2] = h
    BY <1>5 DEF IInv, Types, Requests, Idle, StoreConf, Keys
  <2>2. /\ tx' = [tx EXCEPT ![h] = Trust(@)] \/ tx' = tx
        /\ conf' = conf \/ conf' = [conf EXCEPT ![k] =
                             [row |-> TRUE, bound |-> TRUE, eth |-> 0]]
    BY <1>5 DEF StoreConf
  <2>3. /\ \A g \in Hashes \ {h} : tx'[g] = tx[g]
        /\ tx'[h] = None \/ tx'[h].eth = IF tx[h] = None THEN 0 ELSE tx[h].eth
    BY <1>1, <1>3, <2>2, TrustedRow
  <2>4. /\ \A q \in Keys \ {k} : conf'[q] = conf[q]
        /\ conf[k] # None => conf'[k] # None
    BY <1>3, <2>1, <2>2 DEF None
  <2>5. {k} \in SUBSET Keys /\ \A q \in {k} : q[2] = h
    BY <2>1
  <2> HIDE DEF h, k
  <2> QED
    BY <1>1, <1>2, <2>1, <2>3, <2>4, <2>5, StatementSigners
<1>6. CASE Drop(c)
  <2> DEFINE K == Orphans(h)
  <2>1. /\ Unlocked(h, K) /\ K \in SUBSET Keys /\ \A k \in K : k[2] = h
    BY <1>6 DEF Drop, Orphans
  <2>2. /\ tx'[h] = None /\ \A g \in Hashes \ {h} : tx'[g] = tx[g]
        /\ \A k \in Keys \ K : conf'[k] = conf[k]
    BY <1>1, <1>3, <1>6 DEF Drop
  <2> HIDE DEF h, K
  <2> QED
    BY <1>1, <1>2, <2>1, <2>2, StatementSigners
<1> QED
  BY <1>4, <1>5, <1>6

(* A call of the batch keeps what was executed, with its confirmations, or *)
(* executes a transaction and writes those of the signers.                 *)
LEMMA WriteSigners ==
  ASSUME IInv, BatchSigners, batch # Idle, UNCHANGED <<log, tx, conf>>,
         NEW hs \in SUBSET Hashes,
         NEW t \in [Hashes -> TxRow], NEW c \in [Keys -> ConfRow],
         Write(hs, t, c),
         \A h \in Hashes : t[h] # None /\ t[h].eth # 0 =>
           \/ /\ TxRows[h] # None /\ TxRows[h].eth = t[h].eth
              /\ \A o \in Owners :
                   ConfRows[<<o, h>>] # None => c[<<o, h>>] # None
           \/ \A o \in log[t[h].eth].signers : c[<<o, h>>] # None
  PROVE  BatchSigners' /\ SignersStep
<1>1. TxRows' = t /\ ConfRows' = c /\ batch' # Idle
  BY WriteResult DEF IInv, Idle
<1>2. ASSUME NEW h \in Hashes, t[h] # None, t[h].eth # 0
      PROVE  \/ \A o \in log[t[h].eth].signers : c[<<o, h>>] # None
             \/ /\ tx[h] # None /\ tx[h].eth = t[h].eth
                /\ \A o \in Owners : conf[<<o, h>>] # None => c[<<o, h>>] # None
  <2>1. CASE \A o \in log[t[h].eth].signers : c[<<o, h>>] # None
    BY <2>1
  <2>2. CASE /\ TxRows[h] # None /\ TxRows[h].eth = t[h].eth
             /\ \A o \in Owners :
                  ConfRows[<<o, h>>] # None => c[<<o, h>>] # None
    BY <1>2, <2>2, BatchExecuted DEF BatchSigners
  <2> QED
    BY <1>2, <2>1, <2>2
<1>3. BatchSigners'
  BY <1>1, <1>2 DEF BatchSigners
<1> QED
  BY <1>3, NothingWritten

LEMMA ApproveSigners ==
  ASSUME IInv, BatchSigners, batch # Idle, UNCHANGED <<log, tx, conf>>,
         NEW o \in Owners, NEW h \in Hashes, Approve(o, h)
  PROVE  BatchSigners' /\ SignersStep
<1> DEFINE i == batch.at + 1
           k == <<o, h>>
           row == ConfRows[k]
<1>1. /\ TxRows \in [Hashes -> TxRow] /\ ConfRows \in [Keys -> ConfRow]
      /\ k \in Keys /\ i \in Nat
  BY RowsBefore DEF IInv, Types, BatchTyped, Keys
<1>2. PICK hs \in SUBSET Hashes, t \in [Hashes -> TxRow], c \in [Keys -> ConfRow] :
        /\ Write(hs, t, c)
        /\ \A g \in Hashes : t[g] # None =>
             TxRows[g] # None /\ TxRows[g].eth = t[g].eth
        /\ \A q \in Keys : ConfRows[q] # None => c[q] # None
  <2>1. CASE row = None
    <3> DEFINE bound == TxRows[h] # None
               hs == IF bound THEN {h} ELSE {}
               new == [row |-> TRUE, bound |-> bound, eth |-> i]
               t == [TxRows EXCEPT ![h] = Trust(@)]
               c == [ConfRows EXCEPT ![k] = new]
    <3>1. Write(hs, t, c) /\ hs \in SUBSET Hashes
      BY <2>1 DEF Approve
    <3>2. new \in ConfRow /\ new # None
      BY <1>1 DEF ConfRow, None
    <3>3. /\ t \in [Hashes -> TxRow]
          /\ \A g \in Hashes : t[g] # None =>
               TxRows[g] # None /\ TxRows[g].eth = t[g].eth
      BY <1>1, TrustedRow
    <3>4. /\ c \in [Keys -> ConfRow]
          /\ \A q \in Keys : ConfRows[q] # None => c[q] # None
      BY <1>1, <3>2
    <3> HIDE DEF hs, t, c
    <3> QED
      BY <3>1, <3>3, <3>4
  <2>2. CASE row # None
    <3> DEFINE c == IF row.eth = 0 THEN [ConfRows EXCEPT ![k].eth = i] ELSE ConfRows
    <3>1. Write({}, TxRows, c)
      BY <2>2 DEF Approve
    <3>2. /\ [row EXCEPT !.eth = i] \in ConfRow /\ [row EXCEPT !.eth = i] # None
      BY <1>1, <2>2 DEF ConfRow, None
    <3>3. /\ c \in [Keys -> ConfRow]
          /\ \A q \in Keys : ConfRows[q] # None => c[q] # None
      BY <1>1, <3>2
    <3> HIDE DEF c
    <3> QED
      BY <1>1, <3>1, <3>3
  <2> QED
    BY <2>1, <2>2
<1>3. \A p \in Owners, g \in Hashes : <<p, g>> \in Keys
  BY DEF Keys
<1> QED
  BY <1>2, <1>3, WriteSigners

LEMMA ExecuteSigners ==
  ASSUME IInv, BatchSigners, batch # Idle, UNCHANGED <<log, tx, conf>>,
         NEW h \in Hashes, NEW signers \in SUBSET Owners,
         log[batch.at + 1].signers = signers, Execute(h, signers)
  PROVE  BatchSigners' /\ SignersStep
<1> DEFINE i == batch.at + 1
           row == TxRows[h]
<1>1. /\ TxRows \in [Hashes -> TxRow] /\ ConfRows \in [Keys -> ConfRow]
      /\ i \in Nat /\ row \in TxRow
  BY RowsBefore DEF IInv, Types, BatchTyped
<1>2. \A p \in Owners, g \in Hashes : <<p, g>> \in Keys
  BY DEF Keys
<1>3. ASSUME NEW c \in [Keys -> ConfRow]
      PROVE  LET s == Signed(c, h, signers) IN
             /\ s \in [Keys -> ConfRow]
             /\ \A q \in Keys : c[q] # None => s[q] # None
             /\ \A o \in signers : s[<<o, h>>] # None
  <2> DEFINE new == [row |-> TRUE, bound |-> TRUE, eth |-> 0]
  <2>1. new \in ConfRow /\ new # None
    BY DEF ConfRow, None
  <2>2. \A o \in signers : <<o, h>> \in Keys /\ <<o, h>>[1] = o /\ <<o, h>>[2] = h
    BY <1>2
  <2> QED
    BY <2>1, <2>2 DEF Signed
<1>4. ASSUME NEW t \in [Hashes -> TxRow], NEW c \in [Keys -> ConfRow],
             Write({h}, t, c),
             t[h] # None,
             t[h].eth = i \/ (row # None /\ t[h].eth = row.eth),
             \A g \in Hashes \ {h} : t[g] = TxRows[g],
             \A q \in Keys : ConfRows[q] # None => c[q] # None,
             \A o \in signers : c[<<o, h>>] # None
      PROVE  BatchSigners' /\ SignersStep
  <2>1. ASSUME NEW g \in Hashes, t[g] # None, t[g].eth # 0
        PROVE  \/ /\ TxRows[g] # None /\ TxRows[g].eth = t[g].eth
                  /\ \A o \in Owners :
                       ConfRows[<<o, g>>] # None => c[<<o, g>>] # None
               \/ \A o \in log[t[g].eth].signers : c[<<o, g>>] # None
    BY <1>2, <1>4, <2>1
  <2> QED
    BY <1>4, <2>1, WriteSigners
<1>5. CASE row = None
  <2> DEFINE new == [row |-> TRUE, eth |-> i, trusted |-> TRUE, proposed |-> FALSE]
             t == [TxRows EXCEPT ![h] = new]
             b == BindAll(ConfRows, h)
             c == Signed(b, h, signers)
  <2>1. Write({h}, t, c)
    BY <1>5 DEF Execute
  <2>2. new \in TxRow /\ new # None /\ new.eth = i
    BY <1>1 DEF TxRow, None
  <2>3. /\ t \in [Hashes -> TxRow] /\ t[h] = new
        /\ \A g \in Hashes \ {h} : t[g] = TxRows[g]
    BY <1>1, <2>2
  <2>4. /\ b \in [Keys -> ConfRow]
        /\ \A q \in Keys : b[q] = None <=> ConfRows[q] = None
    BY <1>1, BoundRows
  <2> HIDE DEF b
  <2>5. /\ c \in [Keys -> ConfRow]
        /\ \A q \in Keys : b[q] # None => c[q] # None
        /\ \A o \in signers : c[<<o, h>>] # None
    BY <1>3, <2>4
  <2> HIDE DEF t, c, new
  <2> QED
    BY <1>4, <2>1, <2>2, <2>3, <2>4, <2>5
<1>6. CASE row # None
  <2> DEFINE r == [row EXCEPT !.eth = i, !.trusted = TRUE]
             new == IF row.eth = 0 THEN r ELSE row
             t == [TxRows EXCEPT ![h] = new]
             c == Signed(ConfRows, h, signers)
  <2>1. Write({h}, t, c)
    BY <1>6 DEF Execute
  <2>2. r \in TxRow /\ r # None /\ r.eth = i
    BY <1>1, <1>6, ExecutedRow
  <2> HIDE DEF r
  <2>3. new \in TxRow /\ new # None /\ (new.eth = i \/ new.eth = row.eth)
    BY <1>1, <1>6, <2>2
  <2>4. /\ t \in [Hashes -> TxRow] /\ t[h] = new
        /\ \A g \in Hashes \ {h} : t[g] = TxRows[g]
    BY <1>1, <2>3
  <2>5. /\ c \in [Keys -> ConfRow]
        /\ \A q \in Keys : ConfRows[q] # None => c[q] # None
        /\ \A o \in signers : c[<<o, h>>] # None
    BY <1>1, <1>3
  <2> HIDE DEF t, c, new
  <2> QED
    BY <1>4, <1>6, <2>1, <2>3, <2>4, <2>5
<1> QED
  BY <1>5, <1>6

(* Only confirmations of transactions that are not executed are removed.   *)
LEMMA RemoveSigners ==
  ASSUME IInv, BatchSigners, batch # Idle, UNCHANGED <<log, tx, conf>>,
         NEW o, RemoveOwner(o)
  PROVE  BatchSigners' /\ SignersStep
<1> DEFINE K == {k \in Keys : /\ k[1] = o /\ ConfRows[k] # None
                              /\ ConfRows[k].bound /\ TxRows[k[2]].eth = 0
                              /\ NonceOf[k[2]] >= NonceAfter(Before(batch.at + 1))}
           c == [k \in Keys |-> IF k \in K THEN None ELSE ConfRows[k]]
<1>1. TxRows \in [Hashes -> TxRow] /\ ConfRows \in [Keys -> ConfRow]
  BY RowsBefore
<1>2. Write({}, TxRows, c)
  BY DEF RemoveOwner
<1>3. \A k \in K : TxRows[k[2]].eth = 0
  OBVIOUS
<1> HIDE DEF K
<1>4. c \in [Keys -> ConfRow]
  BY <1>1 DEF ConfRow
<1>5. ASSUME NEW h \in Hashes, TxRows[h].eth # 0, NEW p \in Owners,
             ConfRows[<<p, h>>] # None
      PROVE  c[<<p, h>>] # None
  <2>1. <<p, h>> \in Keys /\ <<p, h>>[2] = h
    BY DEF Keys
  <2> QED
    BY <1>3, <1>5, <2>1
<1> HIDE DEF c
<1> QED
  BY <1>1, <1>2, <1>4, <1>5, WriteSigners

LEMMA ProcessSigners ==
  ASSUME IInv, BatchSigners, Process
  PROVE  BatchSigners' /\ SignersStep
<1> DEFINE call == log[batch.at + 1]
<1>1. /\ batch # Idle /\ batch.at < batch.upto
      /\ UNCHANGED <<log, tx, conf>>
  BY DEF Process
<1>2. call \in Calls
  <2>1. /\ batch.at \in Nat /\ batch.upto \in Nat /\ Len(log) \in Nat
        /\ batch.upto <= Len(log) /\ log \in Seq(Calls)
    BY <1>1 DEF IInv, Types, BatchTyped
  <2> QED
    BY <1>1, <2>1
<1>3. CASE call.kind = "approve" /\ Approve(call.owner, call.hash)
  BY <1>1, <1>2, <1>3, ApproveSigners DEF Calls
<1>4. CASE call.kind = "exec" /\ Execute(call.hash, call.signers)
  BY <1>1, <1>2, <1>4, ExecuteSigners DEF Calls
<1>5. CASE RemoveOwner(call.owner)
  BY <1>1, <1>5, RemoveSigners
<1>6. CASE Write({}, TxRows, ConfRows)
  BY <1>1, <1>6, RowsBefore, WriteSigners
<1> QED
  BY <1>3, <1>4, <1>5, <1>6 DEF Process

LEMMA CommitSigners ==
  ASSUME IInv, BatchSigners, Commit
  PROVE  BatchSigners' /\ SignersStep
<1>1. /\ batch # Idle /\ batch' = Idle /\ log' = log
      /\ tx' = TxRows /\ conf' = ConfRows
  BY DEF Commit
<1>2. BatchSigners'
  BY <1>1 DEF BatchSigners
<1>3. ASSUME NEW h \in Hashes, Executed(h)',
             NEW o \in log'[tx'[h].eth].signers
      PROVE  \/ conf'[<<o, h>>] # None
             \/ Executed(h) /\ conf[<<o, h>>] = None
  <2>1. TxRows[h] # None /\ TxRows[h].eth # 0 /\ o \in log[TxRows[h].eth].signers
    BY <1>1, <1>3 DEF Executed
  <2>2. o \in Owners
    BY <1>1, <2>1, BatchExecuted
  <2> QED
    BY <1>1, <2>1, <2>2 DEF BatchSigners, Executed
<1> QED
  BY <1>2, <1>3 DEF SignersStep

(* A recovery takes back an approval only if it came after the calls that  *)
(* are left, and so after the execution of a transaction that stays so.    *)
LEMMA RecoverSigners ==
  ASSUME IInv, BatchSigners, Recover
  PROVE  BatchSigners' /\ SignersStep
<1> DEFINE n == Len(chain)
<1>1. /\ batch = Idle /\ batch' = batch /\ log' = chain /\ n < Len(log)
      /\ tx' = [h \in Hashes |-> TakenBack(tx[h], n)]
      /\ conf' = [c \in Keys |-> IF conf[c] # None /\ conf[c].eth > n
                                 THEN None ELSE conf[c]]
  BY DEF Recover
<1>2. BatchSigners'
  BY <1>1 DEF BatchSigners
<1>3. ASSUME NEW h \in Hashes, Executed(h)',
             NEW o \in log'[tx'[h].eth].signers
      PROVE  \/ conf'[<<o, h>>] # None
             \/ Executed(h) /\ (conf[<<o, h>>] = None \/ conf[<<o, h>>].eth > tx[h].eth)
  <2>1. tx[h] \in TxRow /\ n \in Nat /\ Len(log) \in Nat
    BY DEF IInv, Types
  <2>2. tx'[h] = tx[h] /\ Executed(h) /\ tx[h].eth <= n /\ tx[h].eth \in Nat
    <3>1. tx'[h] = TakenBack(tx[h], n) /\ tx'[h] # None /\ tx'[h].eth # 0
      BY <1>1, <1>3 DEF Executed
    <3>2. CASE tx[h] = None
      BY <3>1, <3>2 DEF TakenBack
    <3>3. CASE tx[h] # None /\ tx[h].eth > n
      BY <2>1, <3>1, <3>3 DEF TakenBack, TxRow, None
    <3>4. CASE tx[h] # None /\ ~(tx[h].eth > n)
      BY <2>1, <3>1, <3>4, RowTypes DEF TakenBack, Executed
    <3> QED
      BY <3>2, <3>3, <3>4
  <2>3. o \in Owners /\ <<o, h>> \in Keys
    <3>1. /\ tx[h] # None /\ tx[h].eth # 0 /\ tx[h].eth <= n
          /\ log[tx[h].eth] = chain[tx[h].eth]
      BY <1>1, <2>1, <2>2 DEF IInv, SameCalls, Executed
    <3>2. /\ TxOnChain(tx[h], h, done) /\ done \in Nat /\ done <= Len(log) /\ Types
      BY DEF IInv, Types, AllOnChain
    <3>3. \A p \in log[tx[h].eth].signers : p \in Owners /\ <<p, h>> \in Keys
      BY <2>1, <3>1, <3>2, SignersAreOwners
    <3> QED
      BY <1>1, <1>3, <2>2, <3>1, <3>3
  <2>4. conf[<<o, h>>] \in ConfRow
    BY <2>3 DEF IInv, Types
  <2> QED
    BY <1>1, <2>1, <2>2, <2>3, <2>4, RowTypes
<1> QED
  BY <1>2, <1>3 DEF SignersStep

LEMMA IndexSigners ==
  ASSUME IInv, BatchSigners, Index
  PROVE  BatchSigners' /\ SignersStep
<1>1. UNCHANGED <<tx, conf, batch>> /\ log' = chain /\ Len(log) < Len(chain)
  BY DEF Index
<1>2. ASSUME batch # Idle, NEW h \in Hashes, TxRows[h] # None, TxRows[h].eth # 0
      PROVE  log'[TxRows[h].eth] = log[TxRows[h].eth]
  BY <1>1, <1>2, BatchExecuted DEF IInv, SameCalls, Types
<1>3. TxRows' = TxRows /\ ConfRows' = ConfRows
  BY <1>1 DEF TxRows, ConfRows
<1>4. BatchSigners'
  BY <1>1, <1>2, <1>3 DEF BatchSigners
<1> QED
  BY <1>1, <1>4, NothingWritten

LEMMA NextSigners ==
  ASSUME IInv, BatchSigners, [Next]_vars
  PROVE  BatchSigners' /\ SignersStep
<1>1. ASSUME UNCHANGED <<log, tx, conf, batch>>
      PROVE  BatchSigners' /\ SignersStep
  BY <1>1, NothingWritten DEF BatchSigners, TxRows, ConfRows
<1>2. CASE Mine \/ Reorg \/ UNCHANGED vars
  BY <1>1, <1>2 DEF Mine, Reorg, vars
<1>3. CASE Index \/ Recover
  BY <1>3, IndexSigners, RecoverSigners
<1>4. CASE StartBatch
  <2>1. /\ UNCHANGED <<tx, conf>>
        /\ DOMAIN batch'.tx = {} /\ DOMAIN batch'.conf = {}
    BY <1>4 DEF StartBatch
  <2>2. tx \in [Hashes -> TxRow] /\ conf \in [Keys -> ConfRow]
    BY DEF IInv, Types
  <2>3. TxRows' = tx /\ ConfRows' = conf
    BY <2>1, <2>2 DEF TxRows, ConfRows
  <2>4. BatchSigners'
    BY <2>1, <2>3 DEF BatchSigners
  <2> QED
    BY <2>1, <2>4, NothingWritten
<1>5. CASE Rollback
  BY <1>5, NothingWritten DEF Rollback, BatchSigners
<1>6. CASE Process \/ Commit
  BY <1>6, ProcessSigners, CommitSigners
<1>7. CASE \E c \in Clients : Propose(c) \/ Confirm(c) \/ Delete(c)
  BY <1>1, <1>7 DEF Propose, Confirm, Delete, Accept
<1>8. CASE \E c \in Clients : StoreTx(c) \/ StoreConf(c) \/ Drop(c)
  BY <1>8, ApiSigners
<1> QED
  BY <1>2, <1>3, <1>4, <1>5, <1>6, <1>7, <1>8 DEF Next

(* Every signer of an execution has a confirmation from then on, whether   *)
(* it was there before, and whatever owner leaves or row is deleted later; *)
(* only an approval that came after the execution is taken back with it.   *)
THEOREM SignersKeepConfirmations == Spec => SignersConfirmed
<1>1. Init => BatchSigners
  BY DEF Init, BatchSigners
<1>2. IInv /\ BatchSigners /\ [Next]_vars => BatchSigners'
  BY NextSigners
<1>3. IInv /\ BatchSigners /\ [Next]_vars => [SignersStep]_vars
  BY NextSigners
<1> QED
  BY <1>1, <1>2, <1>3, SpecIInv, PTL DEF Spec, SignersConfirmed, SignersStep
=============================================================================
