\* Any three requests, crashes and failed writes, two at a time, in every order.
SPECIFICATION ServerFairSpec
CONSTANTS
    UserIds = {u1, u2}
    HostIds = {h1}
    Names = {n1}
    Tokens = {t1}
    Requests = {1, 2}
    MaxEvents = 3
    Absent = Absent
    FirstLoginCreateAdmin = TRUE
    AssignGlobalHosts = TRUE
    AutoCreateMissingUser = TRUE
INVARIANTS
    ChangesAreDue
PROPERTIES
    DeletedUsersKeepOut
    DiskCatchesUp
\* The server may not start after a crash, and requests are bounded.
CHECK_DEADLOCK FALSE
