SPECIFICATION Spec
CONSTANTS
  r1 = r1
  r2 = r2
  w1 = w1
  w2 = w2
  u1 = u1
  u2 = u2
  b1 = b1
  b2 = b2
  Root = {r1, r2}
  Global = r1
  Worker = {w1, w2}
  Url = {u1, u2}
  Book = {b1, b2}
  Format <- MCFormat
  Saved <- MCSaved
  Candidates = 2
  MaxEvents = 4
  None = None
  EocdSize = 2
  MaxComment = 3
  LocalSize = 2
  HeaderSize = 2
  Directories <- MCDirectories
  IvLen = 1
  TagLen = 1
  Char <- MCChar
  Texts <- MCTexts
  FieldTexts <- MCFieldTexts
  Batches <- MCBatches
  Pages = 4
  Limits = {1, 2, 3}
  Hosts <- MCHosts
  Routes <- MCRoutes
  Sizes = {0, 1, 2, 3, 4, 5, 6}
  Bytes = {0, 154, 255}
INVARIANTS
  TypeOK
  NoDuplicateRecords
  RequestOwnServer
  AcceptedIsWhole
  SealedReadable
  TextsRoundTrip
  CallsArrive
  ArchivesInside
PROPERTIES
  FileGoesFirst
  OthersKept
SYMMETRY Symmetry
CHECK_DEADLOCK FALSE
