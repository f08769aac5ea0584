SPECIFICATION MCSpec
CONSTANTS
  Devices = {laptop, phone}
  GuestKeys = {k1, k2}
  Account = Account
  None = None
  Mounts = {"mount"}
  UserActs = {"start", "abandon", "choose"}
  MaxTime = 3
  MaxFaults = 0
  MaxReloads = 0
  MaxChain = 2
SYMMETRY DeviceKeySymmetry
CHECK_DEADLOCK FALSE
PROPERTIES OnlySeenOverwritten
