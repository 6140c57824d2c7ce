\* The binary: the context that main gives to Run, and a signal.
CONSTANTS
  p1 = p1
  p2 = p2
  Torn = Torn
  Procs <- TwoProcs
  Modes <- MCModes
  Contexts <- MainContexts
  MaxMinted = 1
  MaxInflight = 1
SPECIFICATION BoundedSpec
INVARIANT SignalShutsDownGracefully
