\* Every order in which the routes and the dependencies are visited.
CONSTANTS
  Definitions <- GetOpenAPIDefinitions
SPECIFICATION FairSpec
INVARIANT TypeOK DocumentsClosed TablesFit
PROPERTY GetsToServe
