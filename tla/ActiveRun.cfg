SPECIFICATION MCSpec
CONSTANTS
  Devices = {laptop, phone}
  GuestKeys = {k1, k2}
  Account = Account
  None = None
  Mounts = {"mount", "mount2"}
  UserActs = {"start", "abandon", "choose", "sign"}
  MaxTime = 3
  MaxFaults = 1
  MaxReloads = 1
  MaxChain = 4
SYMMETRY DeviceKeySymmetry
CHECK_DEADLOCK FALSE
INVARIANTS SettledMeansSaved
PROPERTIES NeverOlder DeleteSparesReplacement
