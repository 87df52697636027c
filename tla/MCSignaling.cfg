SPECIFICATION MCSpec
CONSTANTS
    s1 = s1
    s2 = s2
    p1 = p1
    p2 = p2
    q1 = q1
    Sessions = {s1, s2}
    Peers = {p1, p2, q1}
    SessionOf <- TwoClasses
    Sockets = {k1, k2, k3}
    NoSocket = NoSocket
    NoPeer = NoPeer
    MaxInbox = 1
    MaxDisturbances = 3
SYMMETRY Symmetric
INVARIANTS
    NoGhostMembers
    LiveConnectionListed
    EndedRoomsStayEmpty
    RostersAgree
    ClassIsolation
PROPERTIES
    AbsentCountedOnlyIfLate
CHECK_DEADLOCK FALSE
