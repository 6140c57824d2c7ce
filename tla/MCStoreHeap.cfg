\* Two goroutines, two keys: copies and the lock make methods atomic, and every
\* call returns under the fairness of the lock.
CONSTANTS
  g1 = g1
  g2 = g2
  k1 = k1
  k2 = k2
  d1 = d1
  d2 = d2
  opaque = opaque
  Absent = Absent
  Nil = Nil
  Goroutines <- MCGoroutines
  Keys <- TwoKeys
  Data <- MCData
  Opaque <- MCOpaque
  Addresses <- FiveAddresses
  MaxRV = 2
VIEW View
SPECIFICATION FairBoundedSpec
INVARIANT TypeOK NoAliasing ListIsSnapshot
PROPERTY ImplementsStore CallsReturn
