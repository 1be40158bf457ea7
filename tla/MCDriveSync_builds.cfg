SPECIFICATION Spec
CONSTANTS
  f1 = f1
  f2 = f2
  File <- TwoFiles
  Pipe = Pipe
  Reindexer = {r1}
  MaxVersion = 3
  MaxMishaps = 1
  TooLong <- LongAtLast
  Blank <- BlankNext
CONSTRAINT FewEdits
INVARIANTS
  OneTextActive
PROPERTIES
  ExportCatchesUp
  BuildServesExport
  NeverUnserved
