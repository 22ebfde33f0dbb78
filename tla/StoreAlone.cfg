SPECIFICATION AloneSpec
CONSTANTS
  a = a
  b = b
  f = f
  g = g
  m1 = m1
  m2 = m2
  m3 = m3
  m4 = m4
  m5 = m5
  Nil = Nil
  Worker = {w1}
  User = {u1, u2}
  NKeys = 2
  Sha = {a, b}
  File = {f, g}
  Fw = {m1, m2, m4}
  KeyOf <- MCKeyOf
  BlobsOf <- MCBlobsOf
  MaxStaged = 1
  Ops = {"put", "stage", "publish", "approve", "reject", "gc", "reload", "crash"}
INVARIANTS ServableAlone SelfContainedAlone  
PROPERTIES OnlyAbandonedLostAlone ImplementsCatalogue
