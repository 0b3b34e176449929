\* With PROPERTY SessionBackup: the backup of the session timer never runs.
SPECIFICATION ScanFairSpec
CONSTANTS
    Booths = {1, 2}
    Users = {u1}
    NoBooth = 0
    ScanOrder <- MCScanOrder
    MAX_USERS = 2
    CONNECT_RETRY_MAX = 3
    MAX_BOOTHS = 2
    CAPACITY = 1
    Announcements <- MCAnnouncements
PROPERTY RegistrationDecided
