SPECIFICATION Spec
CONSTANTS
  Bits = {0, 1, 2}
  AssertEnabled = FALSE
INVARIANTS TypeOK SettingAtomic OkIsKept EndpointsDescribed LockedAtRest
