SPECIFICATION DocumentsSpec
CONSTANTS
  Doc = {d1}
  Actor = {a1, a2, a3}
  MaxVersion = 2
  MaxChanges = 2
  MaxRuns = 1
  MaxMishaps = 1
SYMMETRY Symmetry
CONSTRAINTS
  SomeUnexcused
  OneTrouble
INVARIANTS
  ArchivedIsSilent
  

  
