SPECIFICATION Spec
CONSTANTS
  Nil = Nil
  Worker = {w1, w2}
  Retention = 2
  MaxEvents = 2
  MaxHour = 2
  MaxStarts = 2
SYMMETRY Sym
INVARIANTS  NoneUncounted
CHECK_DEADLOCK FALSE
