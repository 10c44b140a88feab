SPECIFICATION CertificatesSpec
CONSTANTS
  Lists <- SmallLists
  ChunkSizes = {0, 1, 2, 4}
  Nothing = Nothing
  MaxGenerated = 3
INVARIANT ReportMatchesFile WholeDocumentStays
CHECK_DEADLOCK FALSE
