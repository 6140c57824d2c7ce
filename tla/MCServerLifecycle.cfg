\* Two invocations on one directory and one port.
CONSTANTS
  p1 = p1
  p2 = p2
  Torn = Torn
  Procs <- TwoProcs
  Modes <- MCModes
  Contexts <- AllContexts
  MaxMinted = 2
  MaxInflight = 1
SPECIFICATION FairBoundedSpec
INVARIANT TypeOK ServesSound CertsUsable KubeconfigStaysValid
PROPERTY WholePairStays StartsEnd
