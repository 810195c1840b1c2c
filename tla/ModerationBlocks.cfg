CONSTANTS
    author = author
    keeper = keeper
    home = home
    away = away
    narrow = narrow
    wide = wide
    Peer = {author, keeper}
    Ip = {home, away}
    Rule = {wide}
    Exact = {}
    Covers <- MCCovers
    Post = {x1}
    AuthorOf <- MCAuthorOf
    CodeIps <- MCCodeIps
    List = {}
    MaintainerOf <- MCMaintainerOf
    Action = {}
    Neighbour = {author}
    Restarts = FALSE
SPECIFICATION Spec
PROPERTY BlocksTakeEffect
