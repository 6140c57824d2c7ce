\* One request at a time, every kind of body.
CONSTANTS
  c1 = c1
  c2 = c2
  c3 = c3
  Absent = Absent
  NoReport = "none"
  ValidLabels <- TwoLabels
  ValidReports <- TwoReports
  Specs <- AllSpecs
  Labels <- AllLabels
  Reports <- AllReports
  Clients <- OneClient
  Keys <- OneKey
  Bodies <- AllBodies
  MaxRV = 4
  MaxUID = 2
  MaxEpoch = 2
VIEW View
SPECIFICATION BoundedSpec
INVARIANT TypeOK StoredTasksValid
PROPERTY UpdateHonoursConditions DeleteHonoursPreconditions GenerationTracksSpec ImplementsContract
