CONSTANTS
    alice = alice
    bob = bob
    carol = carol
    op = op
    reply = reply
    Node = {alice, bob, carol}
    Reach <- MCReach
    Post = {op, reply}
    Parents <- MCParents
    Author <- MCAuthor
    Liked = op
    Reactor = bob
    Owner = alice
    MaxNews = 3
    MaxRestarts = 1
SPECIFICATION LiveSpec
CHECK_DEADLOCK FALSE
INVARIANTS
    TypeOK
    ReactionsAreGenuine
    RelayedOnce
    NewsGotRound
PROPERTIES
    StormsEnd
    NewsSpreads
