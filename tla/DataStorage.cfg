CONSTANTS
  d1 = d1
  d2 = d2
  d3 = d3
  h1 = h1
  h2 = h2
  Names <- MCNames
  Hash <- MCHash
  Messages <- MCMessages
  NoMessage = NoMessage
  AllocMayFail = TRUE
  MaxRecords = 3
SPECIFICATION Spec
INVARIANT IInv
INVARIANT ReportAddsUp
PROPERTY TallySpec
