SPECIFICATION JiraSpec
CONSTANTS
  None = None
  c1 = c1
  c2 = c2
  t1 = t1
  Blank = Blank
  Calls = {c1, c2}
  Workload <- MCWorkload
  Tokens = {t1}
  MaxIssueIdPages = 3
  MaxChangelogPages = 2
  Snapshots <- MCSnapshots
  Cursors = {c1, c2}
  MaxPages = 3
  MaxPerPage = 2
  PageSize = 2
  MaxCommentPages = 4
  MaxComments = 4
  CommentCursors = {c1, c2}
  Listings = {0, 4, 5}
  Nodes <- MCNodes
  Documents <- MCDocuments
  Attachments <- MCAttachments
  AttachmentLists <- MCAttachmentLists
  MaxDepth = 10
  MaxNodes = 14
  MaxText = 5
  MaxTableRows = 2
  MaxTableCells = 2
  MaxFallback = 2
  MaxPlainDepth = 10
  MaxPlainNodes = 14
  MaxPlain = 4
  MarkerSize = 2
  MaxRenderDepth = 5
  MaxRenderNodes = 9
  MaxRenderText = 5
  MaxChildren = 3
  LabelSize = 1
INVARIANTS
  RequestsAreNew
  ReadingsAreWhole
  PagesAreComplete
  LeftOutIsSaid
  ImagesAreAccounted
PROPERTIES
  WritesAreHonest
  CallsReturn
CHECK_DEADLOCK FALSE
