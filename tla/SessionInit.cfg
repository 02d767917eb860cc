SPECIFICATION Spec
CONSTANTS
  Configs <- MCConfigs
  Fetches = {f1, f2}
  Browsers = {chrome}
  BrowserOf <- MCBrowserOf
  Nothing = nothing
  Addresses = {a1}
  Skews <- MCSkews
  MaxAge = 3
  NonceTtl = 3
  Window = 2
  MaxPerIp = 2
  MaxPerInstall = 1
  Lifetime = 3
  Second = 2
  MaxTime = 3
  MaxRequests = 3
  MaxLives = 2
CHECK_DEADLOCK FALSE
SYMMETRY Interchangeable
INVARIANTS
  MintedApart
  OneKeyPerInstall
  CredentialLifetime
  RatesHold
