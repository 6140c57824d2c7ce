\* A status update overlaps an update of the spec.
CONSTANTS
  c1 = c1
  c2 = c2
  c3 = c3
  Absent = Absent
  NoReport = "none"
  ValidLabels <- TwoLabels
  ValidReports <- TwoReports
  Specs <- AllSpecs
  Labels <- AllLabels
  Reports <- AllReports
  Clients <- TwoClients
  Keys <- OneKey
  Bodies <- SpecBodies
  MaxRV = 3
  MaxUID = 1
  MaxEpoch = 1
VIEW View
SYMMETRY Symmetric
SPECIFICATION BoundedSpec
PROPERTY ViewsKeepApart
