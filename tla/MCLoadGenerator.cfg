SPECIFICATION Spec
CONSTANTS
  Concurrency = 2
  Users = 2
  Count = 3
  MaxCalls = 3
  MaxWrongs = 1
INVARIANTS
  ReportExact
  CleanExitMeansIntact
  
