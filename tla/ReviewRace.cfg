SPECIFICATION Spec
CONSTANTS
  Nil = Nil
  d1 = d1
  Worker = {w1, w2}
  User = {u1, u2}
  Key = {k1, k2}
  Device <- MCDevice
  DeviceOf <- MCDeviceOf
  MaxRows = 1
  MaxSubmissions = 2
SYMMETRY Sym
INVARIANTS OneRow  ToldOnce LedgerTells SubmitterTold
