SPECIFICATION Spec
CONSTANTS
    i1 = i1
    me = me
    mate = mate
    Primary = Primary
    Team = Team
    None = None
    Issues = {i1}
    UserSets = {Primary, Team}
    Home = Primary
    Accounts = {me, mate}
    Me = me
    Assignees <- MCTeamOfMe
    Watches <- MCWatches
    Activities = {}
    Overlap = 1
    FetchLimit = 1
    Skew = 0
    Minute = 1
    MaxTime = 2
    MaxRevisions = 2
    MaxToggles = 0
    MaxFaults = 0
INVARIANT NoEventConflict
