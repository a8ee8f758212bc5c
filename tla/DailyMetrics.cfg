SPECIFICATION Spec
CONSTANTS
  Days = {1, 2}
  Populators <- MCPopulators
  CoreInputs = {"active_safes"}
  TxVolume = "tx_volume"
  HoursPerDay = 2
  WindowDays = 2
  MaxDaysPerRun = 1
  MaxAttempts = 2
  MaxOutage = 3
  MaxHour = 13
  MaxFaults = 2
  MaxShards = 1
CHECK_DEADLOCK FALSE
INVARIANTS TypeOK MarksAreEarned SeenDaysAreAccountedFor
