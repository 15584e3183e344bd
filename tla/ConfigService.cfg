SPECIFICATION Spec
CONSTANTS
  stock = stock
  crypto = crypto
  Providers = {stock, crypto}
  Settings = {"paper"}
  Values = {"k1", "k2"}
  Env = "env"
  Ctl = {"c1", "c2"}
  Web = {"w1"}
  None = None
  Torn = Torn
  First <- FirstConfig
  Puts <- PutConfigs
  Edits <- EditedFiles
  MaxOps = 3
  MaxEdits = 1
  MaxCancels = 1
  MaxCrashes = 1
  MaxFaults = 1
INVARIANTS
  FileMatchesApplied
  SecretKept
  CredsAgree
CHECK_DEADLOCK FALSE
