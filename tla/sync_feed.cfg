SPECIFICATION Spec
CONSTANTS
    i1 = i1
    me = me
    mate = mate
    Primary = Primary
    Team = Team
    None = None
    Issues = {i1}
    UserSets = {Primary}
    Home = Primary
    Accounts = {me, mate}
    Me = me
    Assignees <- MCAssignees
    Watches <- MCWatches
    Activities = {"detail", "read", "mention"}
    Overlap = 1
    FetchLimit = 1
    Skew = 0
    Minute = 1
    MaxTime = 3
    MaxRevisions = 2
    MaxToggles = 0
    MaxFaults = 1
INVARIANTS
    NotifiedAtMostOnce
    DeliveryRecordIsTrue
    NoUpdateLost
