\* Two overlapping requests on two keys, with a restart.
CONSTANTS
  c1 = c1
  c2 = c2
  c3 = c3
  Absent = Absent
  NoReport = "none"
  ValidLabels <- TwoLabels
  ValidReports <- TwoReports
  Specs <- AllSpecs
  Labels <- AllLabels
  Reports <- AllReports
  Clients <- TwoClients
  Keys <- TwoKeys
  Bodies <- TwoBodies
  MaxRV = 4
  MaxUID = 2
  MaxEpoch = 2
  MaxVersions = 4
VIEW HistoryView
SYMMETRY Symmetric
SPECIFICATION BoundedHistorySpec
INVARIANT UIDsHaveOneKey AllTasksValid VersionNamesContent
