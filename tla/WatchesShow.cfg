SPECIFICATION Spec
CONSTANTS
  Nil = Nil
  k1 = k1
  k2 = k2
  d1 = d1
  Worker = {w1, w2}
  Watcher = Watcher
  Client = {c1}
  Key = {k1, k2}
  Device = {d1}
  DeviceOf <- MCDeviceOf
  Manifest = {m1, m2}
  MaxDrops = 2
INVARIANT SettledIsShown
 
