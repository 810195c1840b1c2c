CONSTANTS
    author = author
    keeper = keeper
    home = home
    away = away
    narrow = narrow
    wide = wide
    Peer = {author, keeper}
    Ip = {home, away}
    Rule = {narrow, wide}
    Exact = {narrow}
    Covers <- MCCovers
    Post = {x1}
    AuthorOf <- MCAuthorOf
    CodeIps <- MCCodeIps
    List = {l1}
    MaintainerOf <- MCMaintainerOf
    Action <- MCAction
    Neighbour = {author}
    Restarts = TRUE
SPECIFICATION Spec
INVARIANTS
    TypeOK
    ReferencesHold
    RulesOfTheStartHold
    StubsHaveCause
    OverruledActionsRest
