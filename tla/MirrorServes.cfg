SPECIFICATION MirrorSpec
CONSTANTS
  a = a
  b = b
  f = f
  m5 = m5
  Nil = Nil
  Worker = {w1, w2}
  User = {u1}
  NKeys = 1
  Sha = {a, b}
  File = {f}
  Fw = {m5}
  KeyOf <- MCKeyOf
  BlobsOf <- MCBlobsOf
  MaxStaged = 1
  Ops = {"put", "stage", "approve", "publish", "gc", "crash"}
SYMMETRY Sym
INVARIANT UrlServes
PROPERTY FallsBack
