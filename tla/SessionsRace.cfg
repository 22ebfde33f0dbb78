SPECIFICATION Spec
CONSTANTS
  Nil = Nil
  Worker = {w1, w2}
  Client = {c1}
  Token = {t1, t2, t3}
  User = {u1, u2}
  MaxTokens = 1
  MaxTouches = 1
SYMMETRY Sym
INVARIANTS OthersGone CapOvershoot WaitsOnTruth
PROPERTIES GoneStaysGone RemovedRightly
