SPECIFICATION Spec
CONSTANTS
    Peer = {p1, p2, p3, p4, p5}
    PercentTimes <- MCPercentTimes
INVARIANTS
    AvalancheSettles
PROPERTIES
    FollowsSomePeer
