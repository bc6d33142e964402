SPECIFICATION Spec
CONSTANTS
  TTL = 1
  MaxTime = 1
  MaxReads = 2
  MaxChanges = 1
  MaxFaults = 1
  i1 = i1
  i2 = i2
  i3 = i3
  a = a
  b = b
  c = c
  Issues = {i1, i2}
  Listed = {i1}
  Images = {a, b, c}
  Unsupported = {}
  Size <- MCSize
  Details <- MCDetails
  FirstCaches <- MCFirstCaches
  MaxEntries = 2
  MaxTotalBytes = 3
  MaxRichImages = 3
  MaxRichImageBytes = 2
  MaxMediaReads = 2
  MaxDownloads = 3
  None = None
  default_scope = default_scope
  my_scope = my_scope
  SiteIssues = {i1, i2, i3}
  Rank <- MCRank
  DomainCaches <- MCDomainCaches
  TeamCaches <- MCTeamCaches
  FeedEvents <- MCFeedEvents
  InboxCaches <- MCInboxCaches
  OtherStatuses <- MCOtherStatuses
  FeedLimit = 3
  InboxStatuses = {"active"}
  InboxQueries = {"generic"}
  FirstEvents = {"vague", "other"}
  MaxSyncs = 1
  Values <- MCValues
  Default <- MCDefault
  FirstFiles <- MCFirstFiles
  MaxSaves = 3
  Logins <- MCLogins
  Oversized <- MCOversized
  FirstVaults <- MCFirstVaults
  MaxStarts = 2
  MaxTries = 2
PROPERTIES
  RebuildKeepsDetail
CHECK_DEADLOCK FALSE
