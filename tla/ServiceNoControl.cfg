CONSTANTS
  Manifests <- MCNoControl
  Clicks <- MCClicks
  IdRange = 6
  CPorts = {0, 1, 2, 3}
  Bundles = {0, 1, 2}
  Protocols = {"control", "gpio", "i2c"}
  Control = "control"
  DevDrivers = {"gpio", "i2c"}
  None = None
  MaxReq = 2
  MaxFail = 1
SPECIFICATION Spec
INVARIANTS
  AllServed
CHECK_DEADLOCK FALSE
