SPECIFICATION Spec
CONSTANTS
  a = a
  b = b
  f = f
  g = g
  m1 = m1
  m2 = m2
  m3 = m3
  m4 = m4
  m5 = m5
  Nil = Nil
  Worker = {w1, w2}
  User = {u1}
  NKeys = 1
  Sha = {a, b}
  File = {f}
  Fw = {m1, m2}
  KeyOf <- MCKeyOf
  BlobsOf <- MCBlobsOf
  MaxStaged = 1
  Ops = {"put", "stage", "approve", "reload"}
SYMMETRY Sym
PROPERTY LiveImmutable
