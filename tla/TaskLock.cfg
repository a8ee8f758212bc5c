SPECIFICATION LockFairSpec
CONSTANTS
  w1 = w1  w2 = w2  r1 = r1  r2 = r2  r3 = r3  lock = lock
  Worker = {w1, w2}
  Run = {r1, r2, r3}
  Name = {lock}
  NoRun = NoRun
  WorkerOf <- MCWorkerOf
  NameOf <- MCNameOf
  LockTimeout = 2
  HardTimeout = 2
  MaxShutdowns = 1
  MaxCrashes = 1
INVARIANTS LockTypeOK OverlapNeedsEviction ShutdownSeesRunningTasks
PROPERTY KeysAreGivenUp
