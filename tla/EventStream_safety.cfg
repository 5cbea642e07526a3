\* Two connections, two broadcasts at a time, three numbers.
SPECIFICATION Spec
CONSTANTS
    admin = admin
    agent = agent
    Sockets = {admin, agent}
    Admins = {admin}
    Trainers = {}
    Members = {agent}
    Emitters = {e1, e2}
    Topics <- TwoTopics
    Nobody = Nobody
    Resync = Resync
    MaxSeq = 3
INVARIANTS
    NothingIsMissed
    NothingIsRepeated
SYMMETRY Interchangeable
CHECK_DEADLOCK FALSE
