SPECIFICATION Spec
CONSTANTS
  Nil = Nil
  Worker = {w1, w2}
  Client = {c1, c2}
  Code = {d1, d2, d3}
  Token = {t1, t2}
  User = {u1}
  MaxPending = 1
SYMMETRY Sym
INVARIANTS MapsAgree DeliveredOnce HandedOutIsGood NoOrphan PendingBounded
PROPERTY OneDecision
