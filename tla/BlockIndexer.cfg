SPECIFICATION Spec
CONSTANTS
  root = root  a3 = a3  a4 = a4  b3 = b3  b4 = b4  b5 = b5  c5 = c5  c6 = c6
  t1 = t1  t2 = t2  t3 = t3  t4 = t4  m1 = m1  m2 = m2
  Proc = {proc1}
  Addr = {m1}
  Tx = {t1, t2, t3, t4}
  Block = {root, a3, a4, b3, b4, b5, c5, c6}
  Root = root
  Parent <- MCParent
  Height <- MCHeight
  Weight <- MCWeight
  TxsIn <- MCTxsIn
  NoBlock = NoBlock
  NoNumber = NoNumber
  StartBlock <- MCStartBlock
  Limits = {1, 2}
  Confirmations = 0
  BlocksToReindexAgain = 1
  UpdatedBlocksBehind = 1
  EthReorgBlocks = 3
  RewindBlocks = 2
  MaxReorg = 2
  RpcLag = 1
  SlowRecovery = FALSE
  MaxFailures = 1
INVARIANTS TypeOK  ConfirmedIsCanonical 
  ElementsAreMined
