CONSTANTS
  t1 = t1
  t2 = t2
  e1 = e1
  th1 = th1
  th2 = th2
  NoSink = NoSink
  Sinks <- MCSinks
  Names <- MCNames
  NameOf <- MCNameOf
  Threads <- MCThreads
  Threshold = 2
  MaxEmits = 4
SYMMETRY MCSymmetry
SPECIFICATION Spec
INVARIANTS FreshSinkInheritsNothing
