\* Overlapping users and a controller on one task.
CONSTANTS
  c1 = c1
  c2 = c2
  c3 = c3
  Absent = Absent
  NoCopy = NoCopy
  NoReport = "none"
  ValidLabels <- OneLabel
  ValidReports <- TwoReports
  Specs <- ThreeSpecs
  Labels <- OneLabel
  Reports <- TwoReports
  Outcome <- MCOutcome
  Clients <- TwoClients
  Keys <- OneKey
  Bodies <- UserBodies
  MaxRV = 3
  MaxUID = 2
  MaxEpoch = 2
VIEW ControllerView
SPECIFICATION FairControllerSpec
INVARIANT ObservedMeansActedOn
PROPERTY EventuallySettled EveryRequestAnswered
