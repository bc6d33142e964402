SPECIFICATION FairSpec
CONSTANTS
    i1 = i1
    me = me
    mate = mate
    Primary = Primary
    Team = Team
    None = None
    Issues = {i1}
    UserSets = {Primary}
    Home = Primary
    Accounts = {me, mate}
    Me = me
    Assignees <- MCAssignees
    Watches <- MCWatches
    Activities = {}
    Overlap = 2
    FetchLimit = 1
    Skew = 1
    Minute = 2
    MaxTime = 4
    MaxRevisions = 2
    MaxToggles = 1
    MaxFaults = 1
PROPERTY Converges
