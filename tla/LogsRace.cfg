SPECIFICATION Spec
CONSTANTS
  Nil = Nil
  Audit = Audit
  Worker = {w1, w2}
  Client = {c1}
  User = {u1}
  MaxRows = 3
  SinceCap = 2
  Limit = 2
  MaxSeq = 5
  Wanted = {1, 4}
SYMMETRY Sym
INVARIANTS NewestKept FeedUnbroken WaitsAtTheEnd PagesComplete
PROPERTY OthersUntouched
