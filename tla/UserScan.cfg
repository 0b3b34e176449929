SPECIFICATION ScanFairSpec
CONSTANTS
    Booths = {1, 2}
    Users = {u1}
    NoBooth = 0
    ScanOrder <- MCScanOrder
    MAX_USERS = 1
    CONNECT_RETRY_MAX = 1
    MAX_BOOTHS = 2
    CAPACITY = 1
    Announcements <- MCAnnouncements
INVARIANTS TypeOK BoothKnown TableIsLatest
PROPERTIES ConnectionDecided ScanCycles BestIsChosen
