SPECIFICATION FairSpec
CONSTANTS
    Booths = {b1}
    Users = {u1, u2, u3}
    MAX_BOOTH_CAPACITY = 1
    MAX_USERS = 3
    NoUser = NoUser
    Broadcast = Broadcast
INVARIANTS TypeOK VisitOnce QueueInOrder UpdatesNotOptimistic
PROPERTIES FirstComeFirstCalled StallsOnlyByDecline CallsEnd QueueMoves KeepsVisits
