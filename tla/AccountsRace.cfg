SPECIFICATION Spec
CONSTANTS
  Nil = Nil
  e1 = e1
  E1 = E1
  k1 = k1
  Worker = {w1, w2}
  User = {u1, u2}
  Uuid = {i1, i2}
  Cred = {c1, c2, c3}
  Email <- MCEmail
  Key <- MCKey
  Flow = {f1}
  MaxPending = 1
SYMMETRY Sym
INVARIANTS EmailOfOne CanSignIn
PROPERTY NameKept
