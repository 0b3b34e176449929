SPECIFICATION Spec
CONSTANTS
    Booths = {b1}
    Users = {u1, u2, u3, u4}
    MAX_BOOTH_CAPACITY = 1
    MAX_USERS = 4
    NoUser = NoUser
    Broadcast = Broadcast
INVARIANT UpdatesExact
