\* pkg/storage/inmemory: every method sequence of up to MaxRV writes per Store.
CONSTANTS
  k1 = k1
  k2 = k2
  k3 = k3
  d1 = d1
  d2 = d2
  opaque = opaque
  Absent = Absent
  Keys <- MCKeys
  Data <- MCData
  Opaque <- MCOpaque
  MaxRV = 6
SYMMETRY Symmetric
SPECIFICATION BoundedSpec
INVARIANT TypeOK StampsDistinct
PROPERTY VersionsOrderEvents
